---------------------------- MODULE GrainState_proofs ----------------------------
(***************************************************************************)
(* Proofs about GrainState, for any number of calls, activations, items,   *)
(* conflicts and late writes.                                              *)
(*                                                                         *)
(* Everything rests on one observation: the values that anybody holds -    *)
(* the row, the handles, the requests and answers under way - agree        *)
(* wherever their versions agree.  A write is the only step that makes a   *)
(* value nobody held before, and it gives it a version nobody had.  So a   *)
(* write that finds its version in the store replaces exactly the data it  *)
(* was computed from.                                                      *)
(***************************************************************************)
EXTENDS GrainState, TLAPS

Holdings ==
    {row, Nothing} \union {handle[h] : h \in Handle} \union {paper[c] : c \in Call}
        \union {r.base : r \in late}

Agreement ==
    \A x, y \in Holdings :
        /\ x.version <= next
        /\ x.version = y.version => x.data = y.data

\* A call whose item the store has not taken.
Open(c) == pc[c] = "reloading" \/ (pc[c] = "saving" /\ wire[c] # "stored")

InState == row.data \union erased

\* Every item that is still on its way is on its way once, and not in the state.
Once ==
    /\ InState \subseteq used
    /\ \A c \in Call : Open(c) => item[c] \in used \ InState
    /\ \A r \in late : r.what = "saving" => r.item \in used \ InState
    /\ \A c, d \in Call : Open(c) /\ Open(d) /\ item[c] = item[d] => c = d
    /\ \A c \in Call, r \in late : Open(c) /\ r.what = "saving" => item[c] # r.item
    /\ \A r, s \in late : r.what = "saving" /\ s.what = "saving" /\ r.item = s.item => r = s

\* A call that was answered that it saved has its item in the state.
Told == \A c \in Call : pc[c] = "saving" /\ wire[c] = "stored" => item[c] \in InState

\* Who saves has an item to save.
Types ==
    /\ TypeOK
    /\ \A c \in Call : pc[c] \in {"saving", "reloading"} => item[c] \in Item
    /\ \A r \in late : r.what = "saving" => r.item \in Item

-----------------------------------------------------------------------------
(******************************* Type safety *******************************)

LEMMA NothingIsStored == Nothing \in Stored
  BY DEF Nothing, Stored

\* What the store does with a request keeps the types of the store.
LEMMA TakesType ==
    ASSUME TypeOK, NEW what, NEW base \in Stored, NEW i, what = "saving" => i \in Item,
           Takes(what, base, i)
    PROVE  row' \in Stored /\ next' \in Nat /\ erased' \subseteq Item
  <1>1. CASE what = "saving" /\ Write(base, i)
    BY <1>1 DEF Write, TypeOK, Stored
  <1>2. CASE what = "clearing" /\ Delete(base)
    BY <1>2, NothingIsStored DEF Delete, TypeOK, Stored
  <1>3. CASE what = "reloading" /\ UNCHANGED store
    BY <1>3 DEF store, TypeOK
  <1> QED
    BY <1>1, <1>2, <1>3 DEF Takes

LEMMA TypesStep == Types /\ [Next]_vars => Types'
  <1> SUFFICES ASSUME Types, [Next]_vars PROVE Types'
    OBVIOUS
  <1> USE NothingIsStored DEF Types, Busy, Ended
  <1>1. ASSUME NEW c \in Call, NEW h \in Handle, Clear(c, h) PROVE Types'
    BY <1>1 DEF TypeOK, Clear, Enters, Asks, store, calls
  <1>2. ASSUME NEW c \in Call, NEW h \in Handle, NEW i \in Item, Save(c, h, i) PROVE Types'
    BY <1>2 DEF TypeOK, Save, Enters, Asks, store, calls
  <1>3. ASSUME NEW c \in Call, SaveReturns(c) PROVE Types'
    BY <1>3 DEF TypeOK, SaveReturns, Ends, store, calls
  <1>4. ASSUME NEW c \in Call, SaveConflicts(c) PROVE Types'
    BY <1>4 DEF TypeOK, SaveConflicts, Ends, Asks, store, calls
  <1>5. ASSUME NEW c \in Call, ReloadReturns(c) PROVE Types'
    BY <1>5 DEF TypeOK, ReloadReturns, Asks, store, calls
  <1>6. ASSUME NEW c \in Call, ClearReturns(c) PROVE Types'
    BY <1>6 DEF TypeOK, ClearReturns, Ends, store, calls
  <1>7. ASSUME NEW c \in Call, ClearConflicts(c) PROVE Types'
    BY <1>7 DEF TypeOK, ClearConflicts, Ends, store, calls
  <1>8. ASSUME NEW c \in Call, Interrupted(c) PROVE Types'
    BY <1>8 DEF TypeOK, Interrupted, Ends, store, calls
  <1>9. ASSUME NEW c \in Call, Answers(c) PROVE Types'
    <2>1. CASE Takes(pc[c], paper[c], item[c]) /\ wire' = [wire EXCEPT ![c] = "stored"]
               /\ paper' = [paper EXCEPT ![c] = row']
      <3>1. row' \in Stored /\ next' \in Nat /\ erased' \subseteq Item
        BY <2>1, TakesType DEF TypeOK
      <3> QED
        BY <1>9, <2>1, <3>1 DEF TypeOK, Answers
    <2>2. CASE wire' = [wire EXCEPT ![c] = "refused"] /\ UNCHANGED <<store, paper>>
      BY <1>9, <2>2 DEF TypeOK, Answers, store
    <2> QED
      BY <1>9, <2>1, <2>2 DEF Answers
  <1>10. ASSUME NEW h \in Handle, Activate(h) PROVE Types'
    BY <1>10 DEF TypeOK, Activate, store, calls
  <1>11. ASSUME NEW h \in Handle, Deactivate(h) PROVE Types'
    BY <1>11 DEF TypeOK, Deactivate, store, calls
  <1>12. ASSUME NEW r \in late, TakesLate(r) PROVE Types'
    <2>1. r.base \in Stored
      BY <1>12 DEF TypeOK
    <2>2. row' \in Stored /\ next' \in Nat /\ erased' \subseteq Item
      BY <1>12, <2>1, TakesType DEF TakesLate, TypeOK, store
    <2> QED
      BY <1>12, <2>2 DEF TypeOK, TakesLate, calls
  <1>13. CASE UNCHANGED vars
    BY <1>13 DEF TypeOK, vars, store, calls
  <1> QED
    BY <1>1, <1>2, <1>3, <1>4, <1>5, <1>6, <1>7, <1>8, <1>9, <1>10, <1>11, <1>12, <1>13 DEF Next, CallStep

LEMMA TypesHold == Spec => []Types
  <1>1. Init => Types
    BY NothingIsStored DEF Init, Types, TypeOK, Ended, Busy
  <1> QED
    BY <1>1, TypesStep, PTL DEF Spec

\* Every variable of GrainState has its type.
THEOREM TypeCorrect == Spec => []TypeOK
  <1>1. Types => TypeOK
    BY DEF Types
  <1> QED
    BY <1>1, TypesHold, PTL

-----------------------------------------------------------------------------
(**************************** Versions name data ***************************)

LEMMA HoldingsStored == Types => Holdings \subseteq Stored
  BY NothingIsStored DEF Holdings, Types, TypeOK

\* A step that brings up no value but the row keeps the agreement, if the row is a value
\* that was held or has a version that nobody had.
LEMMA AgreementKept ==
    ASSUME Types, Agreement, row' \in Stored, Holdings' \subseteq Holdings \union {row'},
           \/ row' \in Holdings /\ next' = next
           \/ row'.version = next + 1 /\ next' = next + 1
    PROVE  Agreement'
  <1> SUFFICES ASSUME NEW x \in Holdings \union {row'}, NEW y \in Holdings \union {row'}
               PROVE  x.version <= next' /\ (x.version = y.version => x.data = y.data)
    BY DEF Agreement
  <1>1. next \in Nat /\ \A z \in Holdings : z.version \in Nat
    BY HoldingsStored DEF Types, TypeOK, Stored
  <1>2. CASE row' \in Holdings /\ next' = next
    BY <1>2 DEF Agreement
  <1>3. CASE row'.version = next + 1 /\ next' = next + 1
    <2>1. \A z \in Holdings : z.version <= next
      BY DEF Agreement
    <2>2. \A z \in Holdings : z.version # row'.version
      BY <1>1, <1>3, <2>1
    <2>3. x.version <= next'
      BY <1>1, <1>3, <2>1
    <2>4. x.version = y.version => x.data = y.data
      BY <2>2 DEF Agreement
    <2> QED
      BY <2>3, <2>4
  <1> QED
    BY <1>2, <1>3

\* The effect of a request on the store: the row is one that was held, or it is new.
LEMMA TakesVersion ==
    ASSUME Types, NEW what, NEW base \in Stored, NEW i, what = "saving" => i \in Item,
           Takes(what, base, i)
    PROVE  /\ row' \in Stored
           /\ \/ row' \in Holdings /\ next' = next
              \/ row'.version = next + 1 /\ next' = next + 1
  <1>1. row' \in Stored
    BY TakesType DEF Types
  <1>2. CASE what = "saving" /\ Write(base, i)
    BY <1>1, <1>2 DEF Write
  <1>3. CASE what = "clearing" /\ Delete(base)
    BY <1>1, <1>3 DEF Delete, Holdings
  <1>4. CASE what = "reloading" /\ UNCHANGED store
    BY <1>1, <1>4 DEF store, Holdings
  <1> QED
    BY <1>2, <1>3, <1>4 DEF Takes

LEMMA AgreementStep == Types /\ Agreement /\ [Next]_vars => Agreement'
  <1> SUFFICES ASSUME Types, Agreement, [Next]_vars PROVE Agreement'
    OBVIOUS
  <1>a. Types'
    BY TypesStep
  <1>b. SUFFICES /\ Holdings' \subseteq Holdings \union {row'}
                 /\ \/ row' \in Holdings /\ next' = next
                    \/ row'.version = next + 1 /\ next' = next + 1
    BY <1>a, AgreementKept DEF Types, TypeOK
  <1> DEFINE Fine == /\ Holdings' \subseteq Holdings \union {row'}
                     /\ \/ row' \in Holdings /\ next' = next
                        \/ row'.version = next + 1 /\ next' = next + 1
  <1>1. ASSUME NEW c \in Call, NEW h \in Handle, Clear(c, h) PROVE Fine
    BY <1>1 DEF Types, TypeOK, Holdings, Clear, Enters, Asks, store, calls
  <1>2. ASSUME NEW c \in Call, NEW h \in Handle, NEW i \in Item, Save(c, h, i) PROVE Fine
    BY <1>2 DEF Types, TypeOK, Holdings, Save, Enters, Asks, store, calls
  <1>3. ASSUME NEW c \in Call, SaveReturns(c) PROVE Fine
    BY <1>3 DEF Types, TypeOK, Holdings, SaveReturns, Ends, store, calls
  <1>4. ASSUME NEW c \in Call, SaveConflicts(c) PROVE Fine
    BY <1>4 DEF Types, TypeOK, Holdings, SaveConflicts, Ends, Asks, store, calls
  <1>5. ASSUME NEW c \in Call, ReloadReturns(c) PROVE Fine
    BY <1>5 DEF Types, TypeOK, Holdings, ReloadReturns, Asks, store, calls
  <1>6. ASSUME NEW c \in Call, ClearReturns(c) PROVE Fine
    BY <1>6 DEF Types, TypeOK, Holdings, ClearReturns, Ends, store, calls
  <1>7. ASSUME NEW c \in Call, ClearConflicts(c) PROVE Fine
    BY <1>7 DEF Types, TypeOK, Holdings, ClearConflicts, Ends, store, calls
  <1>8. ASSUME NEW c \in Call, Interrupted(c) PROVE Fine
    <2>1. late' \subseteq late \union {[what |-> pc[c], item |-> item[c], base |-> paper[c]]}
      BY <1>8 DEF Interrupted
    <2>2. \A r \in late' : r.base \in Holdings
      BY <2>1 DEF Holdings
    <2> QED
      BY <1>8, <2>2 DEF Types, TypeOK, Holdings, Interrupted, Ends, store
  <1>9. ASSUME NEW c \in Call, Answers(c) PROVE Fine
    <2>1. CASE Takes(pc[c], paper[c], item[c]) /\ paper' = [paper EXCEPT ![c] = row']
      <3>1. \/ row' \in Holdings /\ next' = next
            \/ row'.version = next + 1 /\ next' = next + 1
        BY <2>1, TakesVersion DEF Types, TypeOK
      <3>2. Holdings' \subseteq Holdings \union {row'}
        BY <1>9, <2>1 DEF Types, TypeOK, Holdings, Answers, Nothing
      <3> QED
        BY <3>1, <3>2
    <2>2. CASE UNCHANGED <<store, paper>>
      BY <1>9, <2>2 DEF Holdings, Answers, store
    <2> QED
      BY <1>9, <2>1, <2>2 DEF Answers
  <1>10. ASSUME NEW h \in Handle, Activate(h) PROVE Fine
    BY <1>10 DEF Types, TypeOK, Holdings, Activate, store, calls
  <1>11. ASSUME NEW h \in Handle, Deactivate(h) PROVE Fine
    BY <1>11 DEF Types, TypeOK, Holdings, Deactivate, store, calls
  <1>12. ASSUME NEW r \in late, TakesLate(r) PROVE Fine
    <2>1. r.base \in Stored
      BY <1>12 DEF Types, TypeOK
    <2>2. \/ row' \in Holdings /\ next' = next
          \/ row'.version = next + 1 /\ next' = next + 1
      BY <1>12, <2>1, TakesVersion DEF TakesLate, Types, TypeOK, store, Holdings
    <2>3. Holdings' \subseteq Holdings \union {row'}
      BY <1>12 DEF Types, TypeOK, Holdings, TakesLate, calls, Nothing
    <2> QED
      BY <2>2, <2>3
  <1>13. CASE UNCHANGED vars
    BY <1>13 DEF Holdings, vars, store, calls
  <1> QED
    BY <1>1, <1>2, <1>3, <1>4, <1>5, <1>6, <1>7, <1>8, <1>9, <1>10, <1>11, <1>12, <1>13 DEF Next, CallStep

LEMMA AgreementHolds == Spec => [](Types /\ Agreement)
  <1>1. Init => Agreement
    <2> SUFFICES ASSUME Init PROVE Agreement
      OBVIOUS
    <2>1. \A x \in Holdings : x = Nothing
      BY DEF Init, Holdings
    <2>2. Nothing.version = 0 /\ next = 0
      BY DEF Init, Nothing
    <2> QED
      BY <2>1, <2>2 DEF Agreement
  <1> QED
    BY <1>1, TypesHold, AgreementStep, PTL DEF Spec

\* Whoever holds the stored version, in a handle or in a request, holds the stored data.
THEOREM VersionsNameData == Spec => []VersionNamesData
  <1>1. Types /\ Agreement => VersionNamesData
    <2> SUFFICES ASSUME Types, Agreement PROVE VersionNamesData
      OBVIOUS
    <2>1. \A x \in Holdings : x.version = row.version => x.data = row.data
      BY DEF Agreement, Holdings
    <2>2. \A h \in attached : handle[h] \in Holdings
      BY DEF Holdings, Types, TypeOK
    <2>3. \A c \in Call : paper[c] \in Holdings
      BY DEF Holdings
    <2>4. \A r \in late : r.base \in Holdings
      BY DEF Holdings
    <2> QED
      BY <2>1, <2>2, <2>3, <2>4 DEF VersionNamesData
  <1> QED
    BY <1>1, AgreementHolds, PTL

-----------------------------------------------------------------------------
(************************* Changes are applied once *************************)

\* What a request does to the data, when its base is held by somebody: it adds its item to
\* what is there, or it clears what is there, or it changes nothing.
LEMMA TakesData ==
    ASSUME Types, Agreement, NEW what, NEW base \in Holdings, NEW i, Takes(what, base, i)
    PROVE  \/ what = "saving" /\ row'.data = row.data \union {i} /\ erased' = erased
           \/ what = "clearing" /\ row'.data = {} /\ erased' = erased \union row.data
           \/ what = "reloading" /\ row' = row /\ erased' = erased
  <1>1. CASE what = "saving" /\ Write(base, i)
    <2>1. base.data = row.data
      BY <1>1 DEF Agreement, Holdings, Write
    <2> QED
      BY <1>1, <2>1 DEF Write
  <1>2. CASE what = "clearing" /\ Delete(base)
    BY <1>2 DEF Delete, Nothing
  <1>3. CASE what = "reloading" /\ UNCHANGED store
    BY <1>3 DEF store
  <1> QED
    BY <1>1, <1>2, <1>3 DEF Takes

LEMMA OnceStep == Types /\ Agreement /\ Once /\ Told /\ [Next]_vars => Once' /\ Told'
  <1> SUFFICES ASSUME Types, Agreement, Once, Told, [Next]_vars PROVE Once' /\ Told'
    OBVIOUS
  <1>t. /\ pc \in [Call -> Busy \union Ended] /\ wire \in [Call -> {"silent", "asked", "stored", "refused"}]
        /\ item \in [Call -> Item \union {None}]
    BY DEF Types, TypeOK
  <1>1. ASSUME NEW c \in Call, NEW h \in Handle, Clear(c, h) PROVE Once' /\ Told'
    BY <1>1, <1>t DEF Once, Told, Open, InState, Clear, Enters, Asks, store, calls
  <1>2. ASSUME NEW c \in Call, NEW h \in Handle, NEW i \in Item, Save(c, h, i) PROVE Once' /\ Told'
    BY <1>2, <1>t DEF Once, Told, Open, InState, Save, Enters, Asks, store, calls
  <1>3. ASSUME NEW c \in Call, SaveReturns(c) PROVE Once' /\ Told'
    BY <1>3, <1>t DEF Once, Told, Open, InState, SaveReturns, Ends, store, calls
  <1>4. ASSUME NEW c \in Call, SaveConflicts(c) PROVE Once' /\ Told'
    BY <1>4, <1>t DEF Once, Told, Open, InState, SaveConflicts, Ends, Asks, store, calls
  <1>5. ASSUME NEW c \in Call, ReloadReturns(c) PROVE Once' /\ Told'
    BY <1>5, <1>t DEF Once, Told, Open, InState, ReloadReturns, Asks, store, calls
  <1>6. ASSUME NEW c \in Call, ClearReturns(c) PROVE Once' /\ Told'
    BY <1>6, <1>t DEF Once, Told, Open, InState, ClearReturns, Ends, store, calls
  <1>7. ASSUME NEW c \in Call, ClearConflicts(c) PROVE Once' /\ Told'
    BY <1>7, <1>t DEF Once, Told, Open, InState, ClearConflicts, Ends, store, calls
  <1>8. ASSUME NEW c \in Call, Interrupted(c) PROVE Once' /\ Told'
    BY <1>8, <1>t DEF Once, Told, Open, InState, Interrupted, Ends, store, Busy
  <1>9. ASSUME NEW c \in Call, Answers(c) PROVE Once' /\ Told'
    <2>1. CASE Takes(pc[c], paper[c], item[c]) /\ wire' = [wire EXCEPT ![c] = "stored"]
      <3>1. paper[c] \in Holdings
        BY DEF Holdings
      <3>2. \/ pc[c] = "saving" /\ row'.data = row.data \union {item[c]} /\ erased' = erased
            \/ pc[c] = "clearing" /\ row'.data = {} /\ erased' = erased \union row.data
            \/ pc[c] = "reloading" /\ row' = row /\ erased' = erased
        BY <2>1, <3>1, TakesData
      <3> QED
        BY <1>9, <1>t, <2>1, <3>2 DEF Once, Told, Open, InState, Answers
    <2>2. CASE wire' = [wire EXCEPT ![c] = "refused"] /\ UNCHANGED <<store, paper>>
      BY <1>9, <1>t, <2>2 DEF Once, Told, Open, InState, Answers, store
    <2> QED
      BY <1>9, <2>1, <2>2 DEF Answers
  <1>10. ASSUME NEW h \in Handle, Activate(h) PROVE Once' /\ Told'
    BY <1>10, <1>t DEF Once, Told, Open, InState, Activate, store, calls
  <1>11. ASSUME NEW h \in Handle, Deactivate(h) PROVE Once' /\ Told'
    BY <1>11, <1>t DEF Once, Told, Open, InState, Deactivate, store, calls
  <1>12. ASSUME NEW r \in late, TakesLate(r) PROVE Once' /\ Told'
    <2>1. r.base \in Holdings
      BY DEF Holdings
    <2>2. \/ r.what = "saving" /\ row'.data = row.data \union {r.item} /\ erased' = erased
          \/ r.what = "clearing" /\ row'.data = {} /\ erased' = erased \union row.data
          \/ row' = row /\ erased' = erased
      BY <1>12, <2>1, TakesData DEF TakesLate, store
    <2> QED
      BY <1>12, <1>t, <2>2 DEF Once, Told, Open, InState, TakesLate, calls
  <1>13. CASE UNCHANGED vars
    BY <1>13 DEF Once, Told, Open, InState, vars, store, calls
  <1> QED
    BY <1>1, <1>2, <1>3, <1>4, <1>5, <1>6, <1>7, <1>8, <1>9, <1>10, <1>11, <1>12, <1>13 DEF Next, CallStep

LEMMA OnceHolds == Spec => [](Types /\ Agreement /\ Once /\ Told)
  <1>1. Init => Once /\ Told
    BY DEF Init, Once, Told, Open, InState, Nothing
  <1> QED
    BY <1>1, AgreementHolds, OnceStep, PTL DEF Spec

-----------------------------------------------------------------------------
(*************************** The abstract promise **************************)

\* A request the store carries out is a step of the promise, or none.
LEMMA TakesPromised ==
    ASSUME Types, Agreement, NEW what, NEW base \in Holdings, NEW i,
           what = "saving" => i \in Item \ InState,
           Takes(what, base, i), acknowledged' = acknowledged
    PROVE  [Promise!Next]_(Promise!vars)
  <1>1. CASE what = "saving" /\ row'.data = row.data \union {i} /\ erased' = erased
    BY <1>1 DEF Promise!Next, Promise!Add, InState
  <1>2. CASE what = "clearing" /\ row'.data = {} /\ erased' = erased \union row.data
    BY <1>2 DEF Promise!Next, Promise!Clear
  <1>3. CASE what = "reloading" /\ row' = row /\ erased' = erased
    BY <1>3 DEF Promise!vars
  <1> QED
    BY <1>1, <1>2, <1>3, TakesData

LEMMA PromiseStep ==
    Types /\ Agreement /\ Once /\ Told /\ [Next]_vars => [Promise!Next]_(Promise!vars)
  <1> SUFFICES ASSUME Types, Agreement, Once, Told, [Next]_vars
               PROVE  [Promise!Next]_(Promise!vars)
    OBVIOUS
  <1>1. ASSUME NEW c \in Call, NEW h \in Handle, Clear(c, h) PROVE [Promise!Next]_(Promise!vars)
    BY <1>1 DEF Promise!vars, Clear, Enters, Asks, store
  <1>2. ASSUME NEW c \in Call, NEW h \in Handle, NEW i \in Item, Save(c, h, i) PROVE [Promise!Next]_(Promise!vars)
    BY <1>2 DEF Promise!vars, Save, Enters, Asks, store
  <1>3. ASSUME NEW c \in Call, SaveReturns(c) PROVE [Promise!Next]_(Promise!vars)
    <2>1. item[c] \in Item /\ item[c] \in row.data \union erased
      BY <1>3 DEF SaveReturns, Told, InState, Types
    <2> QED
      BY <1>3, <2>1 DEF SaveReturns, Promise!Next, Promise!Acknowledge, store
  <1>4. ASSUME NEW c \in Call, SaveConflicts(c) PROVE [Promise!Next]_(Promise!vars)
    BY <1>4 DEF Promise!vars, SaveConflicts, Ends, Asks, store
  <1>5. ASSUME NEW c \in Call, ReloadReturns(c) PROVE [Promise!Next]_(Promise!vars)
    BY <1>5 DEF Promise!vars, ReloadReturns, Asks, store
  <1>6. ASSUME NEW c \in Call, ClearReturns(c) PROVE [Promise!Next]_(Promise!vars)
    BY <1>6 DEF Promise!vars, ClearReturns, Ends, store
  <1>7. ASSUME NEW c \in Call, ClearConflicts(c) PROVE [Promise!Next]_(Promise!vars)
    BY <1>7 DEF Promise!vars, ClearConflicts, Ends, store
  <1>8. ASSUME NEW c \in Call, Interrupted(c) PROVE [Promise!Next]_(Promise!vars)
    BY <1>8 DEF Promise!vars, Interrupted, Ends, store
  <1>9. ASSUME NEW c \in Call, Answers(c) PROVE [Promise!Next]_(Promise!vars)
    <2>1. CASE Takes(pc[c], paper[c], item[c])
      <3>1. paper[c] \in Holdings
        BY DEF Holdings
      <3>2. pc[c] = "saving" => item[c] \in Item \ InState
        BY <1>9 DEF Answers, Once, Open, Types
      <3> QED
        BY <1>9, <2>1, <3>1, <3>2, TakesPromised DEF Answers
    <2>2. CASE UNCHANGED store
      BY <1>9, <2>2 DEF Answers, store, Promise!vars
    <2> QED
      BY <1>9, <2>1, <2>2 DEF Answers
  <1>10. ASSUME NEW h \in Handle, Activate(h) PROVE [Promise!Next]_(Promise!vars)
    BY <1>10 DEF Promise!vars, Activate, store
  <1>11. ASSUME NEW h \in Handle, Deactivate(h) PROVE [Promise!Next]_(Promise!vars)
    BY <1>11 DEF Promise!vars, Deactivate, store
  <1>12. ASSUME NEW r \in late, TakesLate(r) PROVE [Promise!Next]_(Promise!vars)
    <2>1. r.base \in Holdings
      BY DEF Holdings
    <2>2. r.what = "saving" => r.item \in Item \ InState
      BY DEF Once, Types
    <2>3. CASE Takes(r.what, r.base, r.item)
      BY <1>12, <2>1, <2>2, <2>3, TakesPromised DEF TakesLate
    <2>4. CASE UNCHANGED store
      BY <1>12, <2>4 DEF TakesLate, store, Promise!vars
    <2> QED
      BY <1>12, <2>3, <2>4 DEF TakesLate
  <1>13. CASE UNCHANGED vars
    BY <1>13 DEF vars, store, Promise!vars
  <1> QED
    BY <1>1, <1>2, <1>3, <1>4, <1>5, <1>6, <1>7, <1>8, <1>9, <1>10, <1>11, <1>12, <1>13 DEF Next, CallStep

\* The handles, the store and the recovery loop together behave as one value to which every
\* change is applied once and on top of the others.
THEOREM KeepsThePromise == Spec => ImplementsPromise
  <1>1. Init => Promise!Init
    BY DEF Init, Nothing, Promise!Init
  <1> QED
    BY <1>1, OnceHolds, PromiseStep, PTL DEF Spec, ImplementsPromise, Promise!Spec

\* What a save() has confirmed is in the state until it is cleared.
THEOREM NothingConfirmedIsLost == Spec => []NoLostUpdate
  <1>1. Init => NoLostUpdate
    BY DEF Init, NoLostUpdate
  <1>2. NoLostUpdate /\ [Promise!Next]_(Promise!vars) => NoLostUpdate'
    BY DEF NoLostUpdate, Promise!Next, Promise!vars, Promise!Add, Promise!Clear,
           Promise!Acknowledge
  <1> QED
    BY <1>1, <1>2, OnceHolds, PromiseStep, PTL DEF Spec

=============================================================================
