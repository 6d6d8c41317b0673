-------------------------- MODULE StateInMemory_proofs --------------------------
(***************************************************************************)
(* What StateInMemory guarantees for every number of activations, items    *)
(* and lists: a grain that works on a copy of what it read stores each     *)
(* item once, although the store hands out its own objects.                *)
(***************************************************************************)
EXTENDS StateInMemory, FiniteSetTheorems, TLAPS

-----------------------------------------------------------------------------
(********************************* Types ***********************************)

\* The types, and the bounds that need no finite set of items: versions are given
\* in order, one for each item added, and what was never added is in no list.
Typed ==
    /\ content \in [Object -> [Item -> 0..2]]
    /\ row \in [object : Object \union {None}, version : Nat]
    /\ (row.object = None) = (row.version = 0)
    /\ next \in Nat /\ row.version <= next
    /\ items \in [Handle -> Object \union {None}]
    /\ version \in [Handle -> Nat]
    /\ \A h \in Handle : version[h] <= next
    /\ added \subseteq Item /\ erased \subseteq added
    /\ \A o \in Object, i \in Item \ added : content[o][i] = 0
    /\ IsFiniteSet(added) /\ next = Cardinality(added)

LEMMA EmptyIsAList == Empty \in [Item -> 0..2] /\ \A i \in Item : Empty[i] = 0
BY DEF Empty

\* A read touches at most one list, which is then empty or equal to the stored one,
\* and with copies it is a list nobody else refers to.
LEMMA OpenedIs ==
    ASSUME row \in [object : Object \union {None}, version : Nat],
           NEW heap \in [Object -> [Item -> 0..2]], NEW opened \in Opened(heap)
    PROVE  /\ opened[1] \in Object /\ opened[2] \in [Object -> [Item -> 0..2]]
           /\ \A o \in Object : o # opened[1] => opened[2][o] = heap[o]
           /\ row.object = None => opened[2][opened[1]] = Empty
           /\ row.object # None => opened[2][opened[1]] = heap[row.object]
           /\ CopiesOnRead => opened[1] \in Free
<1>1. CASE row.object = None
  <2>1. PICK o \in Free : opened = <<o, [heap EXCEPT ![o] = Empty]>>
    BY <1>1 DEF Opened
  <2> QED BY <1>1, <2>1, EmptyIsAList DEF Free
<1>2. CASE row.object # None /\ CopiesOnRead
  <2>1. PICK o \in Free : opened = <<o, [heap EXCEPT ![o] = heap[row.object]]>>
    BY <1>2 DEF Opened
  <2> QED BY <1>2, <2>1 DEF Free
<1>3. CASE row.object # None /\ ~CopiesOnRead
  <2>1. opened = <<row.object, heap>>
    BY <1>3 DEF Opened
  <2> QED BY <1>3, <2>1
<1> QED BY <1>1, <1>2, <1>3

\* What add() does, with the conflict and without.
LEMMA AddIs ==
    ASSUME Typed, NEW h \in Handle, NEW i \in Item, Add(h, i)
    PROVE  /\ items[h] \in Object /\ i \notin added /\ added' = added \union {i}
           /\ UNCHANGED erased
           /\ \/ /\ version[h] = row.version
                 /\ AppendAndSave(h, i, items[h], content)
              \/ /\ version[h] # row.version
                 /\ \E o \in Object, heap \in [Object -> [Item -> 0..2]] :
                      /\ \A p \in Object \ {o, items[h]} : heap[p] = content[p]
                      /\ \A p \in Object, j \in Item :
                            heap[p][j] \in 0..(IF j = i THEN 1 ELSE 2)
                      /\ \A p \in Object, j \in Item \ (added \union {i}) : heap[p][j] = 0
                      /\ row.object = None => heap[o] = Empty
                      /\ row.object # None /\ row.object # items[h]
                            => heap[o] = content[row.object]
                      /\ CopiesOnRead => o \in Free
                      /\ AppendAndSave(h, i, o, heap)
<1> DEFINE dirty == [content EXCEPT ![items[h]][i] = @ + 1]
<1>1. items[h] \in Object /\ i \notin added /\ added' = added \union {i} /\ UNCHANGED erased
  BY DEF Add, Typed
<1>2. /\ dirty \in [Object -> [Item -> 0..2]]
      /\ \A p \in Object \ {items[h]} : dirty[p] = content[p]
      /\ \A p \in Object, j \in Item : j # i => dirty[p][j] = content[p][j]
      /\ \A p \in Object : dirty[p][i] \in 0..1
  BY <1>1 DEF Typed
<1>3. CASE version[h] # row.version
  <2>1. PICK opened \in Opened(dirty) : AppendAndSave(h, i, opened[1], opened[2])
    BY <1>3 DEF Add
  <2> DEFINE o == opened[1]
             heap == opened[2]
  <2> HIDE DEF dirty
  <2>2. /\ o \in Object /\ heap \in [Object -> [Item -> 0..2]]
        /\ \A p \in Object : p # o => heap[p] = dirty[p]
        /\ row.object = None => heap[o] = Empty
        /\ row.object # None => heap[o] = dirty[row.object]
        /\ CopiesOnRead => o \in Free
    BY <1>2, OpenedIs DEF Typed
  <2> HIDE DEF o, heap
  <2>3. \A p \in Object : heap[p] = Empty \/ \E q \in Object : heap[p] = dirty[q]
    BY <2>2 DEF Typed
  <2>4. \A p \in Object, j \in Item : heap[p][j] \in 0..(IF j = i THEN 1 ELSE 2)
    BY <1>2, <2>2, <2>3, EmptyIsAList
  <2>5. \A p \in Object, j \in Item \ (added \union {i}) : heap[p][j] = 0
    BY <1>2, <2>3, EmptyIsAList DEF Typed
  <2>6. \A p \in Object \ {o, items[h]} : heap[p] = content[p]
    BY <1>2, <2>2
  <2>7. row.object # None /\ row.object # items[h] => heap[o] = content[row.object]
    BY <1>2, <2>2 DEF Typed
  <2>8. AppendAndSave(h, i, o, heap)
    BY <2>1 DEF o, heap
  <2> QED BY <1>1, <1>3, <2>2, <2>4, <2>5, <2>6, <2>7, <2>8
<1> QED BY <1>1, <1>3 DEF Add

\* Every step keeps the types.
LEMMA StepTyped == Typed /\ [Next]_vars => Typed'
<1> SUFFICES ASSUME Typed, [Next]_vars PROVE Typed'
  OBVIOUS
<1>1. CASE UNCHANGED vars
  BY <1>1 DEF vars, Typed
<1>2. ASSUME NEW h \in Handle, Activate(h) PROVE Typed'
  <2>1. PICK opened \in Opened(content) :
           items' = [items EXCEPT ![h] = opened[1]] /\ content' = opened[2]
    BY <1>2 DEF Activate
  <2>2. /\ opened[1] \in Object /\ opened[2] \in [Object -> [Item -> 0..2]]
        /\ \A o \in Object : o # opened[1] => opened[2][o] = content[o]
        /\ row.object = None => opened[2][opened[1]] = Empty
        /\ row.object # None => opened[2][opened[1]] = content[row.object]
    BY OpenedIs DEF Typed
  <2>3. \A o \in Object, i \in Item \ added : content'[o][i] = 0
    BY <2>1, <2>2, EmptyIsAList DEF Typed
  <2> QED BY <1>2, <2>1, <2>2, <2>3 DEF Activate, Typed
<1>3. ASSUME NEW h \in Handle, Deactivate(h) PROVE Typed'
  BY <1>3 DEF Deactivate, Typed
<1>4. ASSUME NEW h \in Handle, Clear(h) PROVE Typed'
  <2>1. PICK o \in Free : /\ items' = [items EXCEPT ![h] = o]
                          /\ content' = [content EXCEPT ![o] = Empty]
    BY <1>4 DEF Clear
  <2>2. erased' \subseteq added
    BY <1>4 DEF Clear, Typed
  <2> QED BY <1>4, <2>1, <2>2, EmptyIsAList DEF Clear, Typed, Free
<1>5. ASSUME NEW h \in Handle, NEW i \in Item, Add(h, i) PROVE Typed'
  <2>1. PICK o \in Object, heap \in [Object -> [Item -> 0..2]] :
           /\ AppendAndSave(h, i, o, heap)
           /\ \A p \in Object : heap[p][i] \in 0..1
           /\ \A p \in Object, j \in Item \ (added \union {i}) : heap[p][j] = 0
    <3>1. \A p \in Object : content[p][i] = 0
      BY <1>5, AddIs DEF Typed
    <3>2. CASE version[h] = row.version /\ AppendAndSave(h, i, items[h], content)
      <4>1. /\ items[h] \in Object /\ content \in [Object -> [Item -> 0..2]]
            /\ \A p \in Object, j \in Item \ added : content[p][j] = 0
        BY <1>5, AddIs DEF Typed
      <4> USE <4>1
      <4> WITNESS items[h] \in Object, content \in [Object -> [Item -> 0..2]]
      <4> QED BY <3>1, <3>2, <4>1
    <3>3. CASE version[h] # row.version
      <4>1. PICK o \in Object, heap \in [Object -> [Item -> 0..2]] :
               /\ \A p \in Object, j \in Item : heap[p][j] \in 0..(IF j = i THEN 1 ELSE 2)
               /\ \A p \in Object, j \in Item \ (added \union {i}) : heap[p][j] = 0
               /\ AppendAndSave(h, i, o, heap)
        BY <1>5, <3>3, AddIs
      <4> WITNESS o \in Object, heap \in [Object -> [Item -> 0..2]]
      <4> QED BY <4>1
    <3> QED BY <1>5, <3>2, <3>3, AddIs
  <2>2. i \notin added /\ added' = added \union {i} /\ UNCHANGED erased
    BY <1>5, AddIs
  <2>3. /\ content' \in [Object -> [Item -> 0..2]]
        /\ \A p \in Object, j \in Item \ added' : content'[p][j] = 0
    BY <2>1, <2>2 DEF AppendAndSave
  <2>4. IsFiniteSet(added') /\ Cardinality(added') = next + 1
    BY <2>2, FS_AddElement DEF Typed
  <2>5. next' = next + 1 /\ row' = [object |-> o, version |-> next + 1]
    BY <2>1 DEF AppendAndSave
  <2>6. /\ items' \in [Handle -> Object \union {None}] /\ version' \in [Handle -> Nat]
        /\ \A k \in Handle : version'[k] <= next'
    BY <2>1, <2>5 DEF AppendAndSave, Typed
  <2>7. /\ row' \in [object : Object \union {None}, version : Nat]
        /\ (row'.object = None) = (row'.version = 0) /\ row'.version <= next' /\ next' \in Nat
    BY <2>5, ObjectsAssumption DEF Typed
  <2> QED BY <2>2, <2>3, <2>4, <2>5, <2>6, <2>7 DEF Typed
<1> QED BY <1>1, <1>2, <1>3, <1>4, <1>5 DEF Next

LEMMA TypedCorrect == Spec => []Typed
<1>1. Init => Typed
  BY EmptyIsAList, FS_EmptySet DEF Init, Typed
<1> QED BY <1>1, StepTyped, PTL DEF Spec

\* Every variable keeps its type: no list holds an item more than twice, and no more
\* versions are given than there are items, with copies and without.
THEOREM TypeCorrect ==
    ASSUME IsFiniteSet(Item)
    PROVE  Spec => []TypeOK
<1>1. Typed => TypeOK
  <2>1. SUFFICES ASSUME Typed PROVE TypeOK
    OBVIOUS
  <2>2. Cardinality(added) <= Cardinality(Item) /\ Cardinality(Item) \in Nat
    BY <2>1, FS_Subset, FS_CardinalityType DEF Typed
  <2> QED BY <2>1, <2>2 DEF Typed, TypeOK
<1> QED BY <1>1, TypedCorrect, PTL

-----------------------------------------------------------------------------
(************************** Each item is stored once ***********************)

\* Which items are in the state, once each.
Indicator == [i \in Item |-> IF i \in added \ erased THEN 1 ELSE 0]

\* With copies no two activations share a list, and only the activation whose save
\* it was shares one with the store.  An activation whose version is the stored one
\* has the stored content, and one that has seen no row has nothing.
Copies ==
    /\ \A h, k \in Handle : items[h] = items[k] /\ items[h] # None => h = k
    /\ \A h \in Handle : items[h] = row.object /\ row.object # None => version[h] = row.version
    /\ \A h \in Handle : items[h] # None /\ version[h] = 0 => content[items[h]] = Empty
    /\ \A h \in Handle :
          items[h] # None /\ version[h] = row.version /\ row.object # None
             => content[items[h]] = content[row.object]
    /\ row.object = None => added = erased
    /\ row.object # None => content[row.object] = Indicator

\* One more item in a list that holds what the state held.
LEMMA OneMore ==
    ASSUME Typed, NEW i \in Item \ added, added' = added \union {i}, UNCHANGED erased,
           NEW l, l = Indicator \/ (l = Empty /\ added = erased),
           NEW m, m = [l EXCEPT ![i] = @ + 1]
    PROVE  m = Indicator'
<1>1. l \in [Item -> 0..1] /\ \A j \in Item : l[j] = IF j \in added \ erased THEN 1 ELSE 0
  BY DEF Indicator, Empty
<1>2. i \notin erased
  BY DEF Typed
<1>3. \A j \in Item : m[j] = IF j \in added' \ erased' THEN 1 ELSE 0
  BY <1>1, <1>2
<1> QED BY <1>1, <1>3 DEF Indicator

LEMMA StepCopies ==
    ASSUME CopiesOnRead, Typed, Copies, [Next]_vars
    PROVE  Copies'
<1>1. CASE UNCHANGED vars
  BY <1>1 DEF vars, Copies, Indicator
<1>2. ASSUME NEW h \in Handle, Activate(h) PROVE Copies'
  <2>1. PICK opened \in Opened(content) :
           items' = [items EXCEPT ![h] = opened[1]] /\ content' = opened[2]
    BY <1>2 DEF Activate
  <2> DEFINE o == opened[1]
  <2>2. /\ o \in Free
        /\ \A p \in Object : p # o => content'[p] = content[p]
        /\ row.object = None => content'[o] = Empty
        /\ row.object # None => content'[o] = content[row.object]
    BY <2>1, OpenedIs DEF Typed
  <2>3. items' = [items EXCEPT ![h] = o]
    BY <2>1
  <2> HIDE DEF o
  <2>4. \A k \in Handle \ {h} : /\ items'[k] = items[k] /\ version'[k] = version[k]
                                /\ items[k] # None => content'[items[k]] = content[items[k]]
    BY <1>2, <2>2, <2>3 DEF Activate, Typed, Free
  <2>5. row.object # None => content'[row.object] = content[row.object]
    BY <2>2 DEF Typed, Free
  <2>6. items'[h] = o /\ version'[h] = row.version /\ UNCHANGED <<row, added, erased>>
    BY <1>2, <2>3 DEF Activate, Typed
  <2>7. /\ \A k \in Handle : items[k] # o
        /\ o # row.object
    BY <2>2 DEF Free
  <2> QED BY <2>2, <2>4, <2>5, <2>6, <2>7 DEF Copies, Indicator, Typed
<1>3. ASSUME NEW h \in Handle, Deactivate(h) PROVE Copies'
  BY <1>3, ObjectsAssumption DEF Deactivate, Typed, Copies, Indicator
<1>4. ASSUME NEW h \in Handle, Clear(h) PROVE Copies'
  <2>1. PICK o \in Free : /\ items' = [items EXCEPT ![h] = o]
                          /\ content' = [content EXCEPT ![o] = Empty]
    BY <1>4 DEF Clear
  <2>2. erased' = added
    <3>1. CASE row.object = None
      BY <1>4, <3>1 DEF Clear, Copies
    <3>2. CASE row.object # None
      <4>1. \A i \in Item : content[row.object][i] > 0 <=> i \in added \ erased
        BY <3>2 DEF Copies, Indicator
      <4> QED BY <1>4, <3>2, <4>1 DEF Clear, Typed
    <3> QED BY <3>1, <3>2
  <2>3. row'.object = None /\ added' = added
    BY <1>4 DEF Clear
  <2>4. o \in Object /\ \A k \in Handle : items[k] # o
    BY <2>1 DEF Free
  <2>5. version' = [version EXCEPT ![h] = 0]
    BY <1>4 DEF Clear
  <2>6. \A k \in Handle : items'[k] # None /\ version'[k] = 0 => content'[items'[k]] = Empty
    BY <2>1, <2>4, <2>5 DEF Typed, Copies
  <2>7. \A j, k \in Handle : items'[j] = items'[k] /\ items'[j] # None => j = k
    BY <2>1, <2>4 DEF Typed, Copies
  <2> QED BY <2>2, <2>3, <2>6, <2>7 DEF Copies
<1>5. ASSUME NEW h \in Handle, NEW i \in Item, Add(h, i) PROVE Copies'
  <2>1. PICK o \in Object, heap \in [Object -> [Item -> 0..2]] :
           /\ AppendAndSave(h, i, o, heap)
           /\ \A p \in Object \ {o, items[h]} : heap[p] = content[p]
           /\ o = items[h] \/ o \in Free
           /\ heap[o] = Indicator \/ (heap[o] = Empty /\ added = erased)
    <3>1. CASE version[h] = row.version /\ AppendAndSave(h, i, items[h], content)
      <4>1. items[h] \in Object
        BY <1>5, AddIs
      <4>2. \/ content[items[h]] = Indicator
            \/ content[items[h]] = Empty /\ added = erased
        BY <3>1, <4>1, ObjectsAssumption DEF Typed, Copies
      <4> QED BY <3>1, <4>1, <4>2 DEF Typed
    <3>2. CASE version[h] # row.version
      <4>1. row.object # None => row.object # items[h]
        BY <3>2 DEF Copies
      <4>2. PICK o \in Object, heap \in [Object -> [Item -> 0..2]] :
               /\ \A p \in Object \ {o, items[h]} : heap[p] = content[p]
               /\ row.object = None => heap[o] = Empty
               /\ row.object # None => heap[o] = content[row.object]
               /\ o \in Free
               /\ AppendAndSave(h, i, o, heap)
        BY <1>5, <3>2, <4>1, AddIs
      <4>3. heap[o] = Indicator \/ (heap[o] = Empty /\ added = erased)
        BY <4>2 DEF Copies
      <4> QED BY <4>2, <4>3
    <3> QED BY <1>5, <3>1, <3>2, AddIs
  <2>2. i \in Item \ added /\ added' = added \union {i} /\ UNCHANGED erased /\ items[h] \in Object
    BY <1>5, AddIs
  <2>3. /\ content' = [heap EXCEPT ![o][i] = @ + 1]
        /\ row' = [object |-> o, version |-> next + 1]
        /\ items' = [items EXCEPT ![h] = o] /\ version' = [version EXCEPT ![h] = next + 1]
    BY <2>1 DEF AppendAndSave
  <2>4. content'[o] = Indicator'
    <3>1. content'[o] = [heap[o] EXCEPT ![i] = @ + 1]
      BY <2>3
    <3> QED BY <2>1, <2>2, <3>1, OneMore
  <2>5. items'[h] = o /\ version'[h] = next + 1 /\ row'.object = o /\ row'.version = next + 1
    BY <2>3 DEF Typed
  <2>6. \A k \in Handle \ {h} : items'[k] = items[k] /\ version'[k] = version[k]
    BY <2>3 DEF Typed
  <2>7. \A k \in Handle \ {h} : items[k] # None => items[k] \in Object \ {o, items[h]}
    BY <2>1, <2>2, ObjectsAssumption DEF Typed, Copies, Free
  <2>8. \A k \in Handle \ {h} : items[k] # None => content'[items[k]] = content[items[k]]
    BY <2>1, <2>3, <2>7
  <2>9. next + 1 # 0 /\ \A k \in Handle : version[k] # next + 1
    BY DEF Typed
  <2>10. o # None
    BY ObjectsAssumption
  <2> QED BY <2>4, <2>5, <2>6, <2>7, <2>8, <2>9, <2>10 DEF Copies
<1> QED BY <1>1, <1>2, <1>3, <1>4, <1>5 DEF Next

\* A grain that works on a copy of what it read stores each item it adds once, through
\* every conflict and recovery, until it is cleared; without the copy it does not
\* (InMemoryStateStore, GrainState.save and reload).
THEOREM EachIsStoredOnce ==
    ASSUME CopiesOnRead
    PROVE  Spec => []AddedOnce
<1>1. Init => Copies
  BY DEF Init, Copies
<1>2. Typed /\ Copies /\ [Next]_vars => Copies'
  BY StepCopies
<1>3. Typed /\ Copies => AddedOnce
  BY DEF Typed, Copies, Indicator, AddedOnce
<1> QED BY <1>1, <1>2, <1>3, TypedCorrect, PTL DEF Spec

=============================================================================
