----------------------------- MODULE Forward_proofs -----------------------------
(***************************************************************************)
(* The safety of Forward, for chains of any depth, deadlines of any length *)
(* and requests of any age.  What makes NoLateWork inductive is a budget   *)
(* along the chain: what a hop has left, and what a request carries, is at *)
(* most what is left of the first deadline, but for the time that requests *)
(* were under way and nobody counted.  A method that a deadline has missed *)
(* has no budget, and nothing left to call with.                           *)
(***************************************************************************)
EXTENDS Forward, TLAPS

\* A hop that has not been asked has no past, and nor have those below it.
Untouched ==
    \A h \in Hop :
        /\ at[h] = "idle" => flew[h] = 0
        /\ at[1] = "idle" => at[h] = "idle" /\ age = 0

\* Who waits is calling.
Waiting == \A h \in Hop : wait[h] # None => at[h - 1] = "calling"

\* The budget of a request under way and of a method that runs.
Budget ==
    first # None =>
        \A h \in Hop :
            /\ at[h] = "asked" =>
                  carries[h] # None /\ age + carries[h] <= first + ((h - 1) * MaxFlight) + flew[h]
            /\ at[h] \in Working /\ h \notin deaf =>
                  limit[h] # None /\ age + limit[h] <= first + (h * MaxFlight)

\* A deadline that has struck in vain has left its method nothing to call with.
Deafened == \A h \in deaf : at[h] \in {"served", "evicting", "ended"} /\ limit[h] = 0

\* What may be told of an ending.
Faithful(s) ==
    /\ s.is \in {"conflict", "namesake"} <=> s.from \in {"conflict", "namesake"}
    /\ s.is = "value" => s.from = "value"

\* Answers on their way are as faithful as those that have arrived, and nobody
\* sees a class that only its own node knows.
Told ==
    \A h \in Hop :
        /\ got[h] # None => Faithful(got[h]) /\ got[h].is # "namesake"
        /\ answer[h] # None => Faithful(answer[h]) /\ answer[h].is # "namesake"

IInv == TypeOK /\ Untouched /\ Waiting /\ Deafened /\ Budget /\ Told

-----------------------------------------------------------------------------
\* The facts about the constants that the steps use.
LEMMA ConstantFacts ==
    /\ Depth \in Nat /\ Depth > 0 /\ Patience \in Nat /\ Patience > 0 /\ MaxFlight \in Nat
    /\ Ticks \subseteq Int /\ None \notin Ticks /\ None \notin Int
    /\ Span \subseteq Ticks /\ 0 \in Ticks /\ Patience \in Ticks /\ 1 \in Hop
    /\ Horizon \in Nat
<1>1. Depth * MaxFlight \in Nat
  BY ForwardAssumption
<1> QED BY <1>1, ForwardAssumption DEF Ticks, Hop, Horizon

\* A flight more.
LEMMA OneMore ==
    ASSUME NEW h \in Hop
    PROVE  /\ (h - 1) * MaxFlight \in Nat /\ h * MaxFlight \in Nat
           /\ ((h - 1) * MaxFlight) + MaxFlight = h * MaxFlight
BY ForwardAssumption DEF Hop

\* A hop below a frame, and the frame above a hop.
LEMMA Neighbours ==
    /\ \A f \in Frame : f < Depth => f + 1 \in Hop
    /\ \A h \in Hop : h \in Frame /\ h - 1 \in Frame /\ h # h - 1 /\ h \in Int
BY ForwardAssumption DEF Hop, Frame

\* None is no outcome: neither is an answer that is on its way or has arrived.
LEMMA SeenFacts ==
    ASSUME NEW r \in Outcome
    PROVE  Of(r) \in Seen /\ Of(r).is = r /\ Of(r).from = r /\ Faithful(Of(r))
BY DEF Of, Seen, Faithful

\* deadline() yields the tighter of two.
LEMMA TighterFacts ==
    ASSUME NEW s \in Span \union {None}, NEW outer \in Ticks \union {None}
    PROVE  /\ Tighter(s, outer) \in Ticks \union {None}
           /\ outer # None => Tighter(s, outer) # None /\ Tighter(s, outer) <= outer
           /\ Tighter(outer, None) = outer
           /\ Waits(Tighter(s, outer)) \in Ticks
BY ConstantFacts DEF Tighter, Waits

\* What goes on the wire is an outcome, and tells a lost race and a value from
\* everything else.
LEMMA WireFacts ==
    ASSUME NEW r \in Outcome, NEW left \in Ticks \union {None}
    PROVE  /\ AcrossTheWire(Dispatched(r, left)) \in Outcome
           /\ AcrossTheWire(Dispatched(r, left)) = "conflict" <=> r \in {"conflict", "namesake"}
           /\ AcrossTheWire(Dispatched(r, left)) # "namesake"
           /\ AcrossTheWire(Dispatched(r, left)) = "value" <=> r = "value"
BY DEF AcrossTheWire, Dispatched, Outcome, Raised

\* Counting down.
LEMMA DownFacts ==
    ASSUME NEW x \in Ticks \union {None}
    PROVE  /\ Down(x) \in Ticks \union {None}
           /\ Down(x) = None <=> x = None
           /\ x # None /\ x # 0 => Down(x) = x - 1
BY ConstantFacts DEF Down, Ticks

\* Before anything is asked the invariant holds.
THEOREM Initially == Init => IInv
<1> SUFFICES ASSUME Init PROVE IInv
  OBVIOUS
<1> USE ConstantFacts, Neighbours DEF Init
<1>1. TypeOK
  <2>1. at \in [Frame -> {"idle", "asked", "served", "evicting", "calling", "ended"}]
    BY DEF Frame
  <2>2. limit \in [Frame -> Ticks \union {None}] /\ first \in Ticks \union {None}
    OBVIOUS
  <2>3. /\ wait \in [Hop -> Ticks \union {None}] /\ carries \in [Hop -> Ticks \union {None}]
        /\ answer \in [Hop -> Seen \union {None}] /\ got \in [Hop -> Seen \union {None}]
    OBVIOUS
  <2>4. flew \in [Hop -> 0..MaxFlight] /\ age \in 0..Horizon
    OBVIOUS
  <2>5. spent \in BOOLEAN /\ deaf \subseteq Hop
    OBVIOUS
  <2> QED BY <2>1, <2>2, <2>3, <2>4, <2>5 DEF TypeOK
<1>2. \A h \in Hop : /\ at[h] = "idle" /\ flew[h] = 0
                      /\ got[h] = None /\ answer[h] = None
                      /\ wait[h] = None
  BY DEF Hop, Frame
<1>3. first = None /\ age = 0 /\ deaf = {}
  OBVIOUS
<1> QED BY <1>1, <1>2, <1>3 DEF IInv, Untouched, Waiting, Deafened, Budget, Told

\* What a caller sees when it sees something.
LEMMA SeesStep ==
    ASSUME TypeOK, NEW h \in Hop, NEW s \in Seen, Sees(h, s)
    PROVE  /\ got' \in [Hop -> Seen \union {None}]
           /\ wait' \in [Hop -> Ticks \union {None}]
           /\ at' \in [Frame -> {"idle", "asked", "served", "evicting", "calling", "ended"}]
BY Neighbours DEF TypeOK, Sees

\* What a method that ends puts on the wire.
LEMMA EndsStep ==
    ASSUME TypeOK, NEW h \in Hop, NEW s \in Seen, Ends(h, s)
    PROVE  /\ at' \in [Frame -> {"idle", "asked", "served", "evicting", "calling", "ended"}]
           /\ answer' \in [Hop -> Seen \union {None}]
           /\ Faithful(s) =>
                \A k \in Hop :
                   answer'[k] = answer[k] \/ (Faithful(answer'[k]) /\ answer'[k].is # "namesake")
<1>1. s.is \in Outcome /\ s.from \in Outcome /\ limit[h] \in Ticks \union {None}
  BY Neighbours DEF Seen, TypeOK
<1> DEFINE w == AcrossTheWire(Dispatched(s.is, limit[h]))
           a == [is |-> w, from |-> s.from]
<1>2. /\ w \in Outcome /\ (w = "conflict" <=> s.is \in {"conflict", "namesake"}) /\ w # "namesake"
      /\ (w = "value" <=> s.is = "value")
  BY <1>1, WireFacts
<1>3. at' = [at EXCEPT ![h] = "ended"] /\ answer' = [answer EXCEPT ![h] = a]
  BY DEF Ends
<1>4. a \in Seen /\ (Faithful(s) => Faithful(a)) /\ a.is # "namesake"
  <2> HIDE DEF w
  <2> QED BY <1>1, <1>2 DEF Seen, Faithful
<1> HIDE DEF a
<1>5. answer' \in [Hop -> Seen \union {None}]
  BY <1>3, <1>4 DEF TypeOK
<1>6. at' \in [Frame -> {"idle", "asked", "served", "evicting", "calling", "ended"}]
  BY <1>3, Neighbours DEF TypeOK
<1>7. \A k \in Hop : answer'[k] = answer[k] \/ answer'[k] = a
  BY <1>3 DEF TypeOK
<1> QED BY <1>4, <1>5, <1>6, <1>7

\* Every step keeps the types.
LEMMA TypesStep ==
    ASSUME TypeOK, [Next]_vars
    PROVE  TypeOK'
<1> USE ConstantFacts, Neighbours DEF TypeOK
<1>1. CASE Tick
  <2>1. limit' \in [Frame -> Ticks \union {None}] /\ wait' \in [Hop -> Ticks \union {None}]
    BY <1>1, DownFacts DEF Tick
  <2>2. flew' \in [Hop -> 0..MaxFlight] /\ age' \in 0..Horizon
    BY <1>1 DEF Tick
  <2>3. UNCHANGED <<at, deaf, carries, answer, got, first, spent>>
    BY <1>1 DEF Tick
  <2> QED BY <2>1, <2>2, <2>3
<1>2. ASSUME NEW f \in Frame, NEW s \in Span \union {None}, Ask(f, s) PROVE TypeOK'
  <2> DEFINE left == Tighter(s, limit[f])
  <2>1. f + 1 \in Hop /\ f < Depth /\ UNCHANGED <<limit, deaf, flew, answer, age>>
    BY <1>2 DEF Ask
  <2>2. left \in Ticks \union {None} /\ Waits(left) \in Ticks
    BY TighterFacts
  <2>3. CASE Sees(f + 1, Of("deadline")) /\ spent' = TRUE /\ UNCHANGED <<carries, first>>
    <3>1. Of("deadline") \in Seen
      BY SeenFacts DEF Outcome
    <3> QED BY <2>1, <2>3, <3>1, SeesStep
  <2>4. CASE /\ at' = [at EXCEPT ![f] = "calling", ![f + 1] = "asked"]
             /\ carries' = [carries EXCEPT ![f + 1] = left]
             /\ wait' = [wait EXCEPT ![f + 1] = Waits(left)]
             /\ first' = (IF f = 0 THEN left ELSE first)
             /\ UNCHANGED <<got, spent>>
    <3> HIDE DEF left
    <3>1. at' \in [Frame -> {"idle", "asked", "served", "evicting", "calling", "ended"}]
      BY <2>1, <2>4
    <3>2. carries' \in [Hop -> Ticks \union {None}] /\ first' \in Ticks \union {None}
      BY <2>1, <2>2, <2>4
    <3>3. wait' \in [Hop -> Ticks \union {None}]
      BY <2>1, <2>2, <2>4
    <3> QED BY <2>1, <2>4, <3>1, <3>2, <3>3
  <2> QED BY <1>2, <2>3, <2>4 DEF Ask
<1>3. ASSUME NEW h \in Hop, Arrive(h) PROVE TypeOK'
  <2>1. Tighter(carries[h], None) = carries[h]
    BY DEF Tighter
  <2> QED BY <1>3, <2>1 DEF Arrive
<1>4. ASSUME NEW h \in Hop, Lose(h) \/ MakeRoom(h) \/ Room(h) PROVE TypeOK'
  BY <1>4 DEF Lose, MakeRoom, Room
<1>5. ASSUME NEW h \in Hop, Refused(h) PROVE TypeOK'
  <2>1. Of("unread") \in Seen
    BY SeenFacts DEF Outcome
  <2> QED BY <1>5, <2>1 DEF Refused
<1>6. ASSUME NEW h \in Hop, NEW s \in Seen, Ends(h, s), UNCHANGED <<limit, deaf, spent>> PROVE TypeOK'
  BY <1>6, EndsStep DEF Ends
<1>7. ASSUME NEW h \in Hop, NEW r \in Raised, Return(h, r) PROVE TypeOK'
  <2>1. Of(r) \in Seen
    BY SeenFacts DEF Outcome
  <2> QED BY <1>6, <1>7, <2>1 DEF Return
<1>8. ASSUME NEW h \in Hop, PassOn(h) PROVE TypeOK'
  <2>1. got[h + 1] \in Seen
    BY <1>8 DEF PassOn
  <2> QED BY <1>6, <1>8, <2>1 DEF PassOn
<1>9. ASSUME NEW h \in Hop PROVE [k \in Hop |-> IF k = h + 1 THEN None ELSE wait[k]]
                                     \in [Hop -> Ticks \union {None}]
  OBVIOUS
<1>10. ASSUME NEW h \in Hop, CutOff(h) PROVE TypeOK'
  <2>1. Of("deadline") \in Seen
    BY SeenFacts DEF Outcome
  <2>2. answer' \in [Hop -> Seen \union {None}] /\ wait' \in [Hop -> Ticks \union {None}]
    BY <1>9, <1>10, <2>1 DEF CutOff
  <2>3. at' \in [Frame -> {"idle", "asked", "served", "evicting", "calling", "ended"}]
    BY <1>10 DEF CutOff
  <2> QED BY <1>10, <2>2, <2>3 DEF CutOff
<1>11. ASSUME NEW h \in Hop, Cancelled(h) PROVE TypeOK'
  BY <1>9, <1>11 DEF Cancelled
<1>12. ASSUME NEW h \in Hop, Answered(h) PROVE TypeOK'
  <2>1. answer[h] \in Seen
    BY <1>12 DEF Answered
  <2> QED BY <1>12, <2>1, SeesStep DEF Answered
<1>13. ASSUME NEW h \in Hop, GivesUp(h) PROVE TypeOK'
  <2> DEFINE r == IF carries[h] = None THEN "unread" ELSE "deadline"
  <2>1. Of(r) \in Seen
    BY SeenFacts DEF Outcome
  <2>2. Sees(h, Of(r)) /\ UNCHANGED <<limit, deaf, carries, flew, answer, first, age>>
    BY <1>13 DEF GivesUp
  <2>3. spent' \in BOOLEAN
    BY <1>13 DEF GivesUp
  <2> HIDE DEF r
  <2> QED BY <2>1, <2>2, <2>3, SeesStep
<1>14. CASE UNCHANGED vars
  BY <1>14 DEF vars
<1> QED BY <1>1, <1>2, <1>3, <1>4, <1>5, <1>7, <1>8, <1>10, <1>11, <1>12, <1>13, <1>14 DEF Next

\* Every step keeps what is told of an ending.
LEMMA ToldStep ==
    ASSUME TypeOK, Told, [Next]_vars
    PROVE  Told'
<1> USE DEF Told
<1> DEFINE Quiet == UNCHANGED <<got, answer>>
<1>1. ASSUME Quiet PROVE Told'
  BY <1>1
<1>2. ASSUME NEW h \in Hop, NEW s \in Seen, Sees(h, s), Faithful(s), s.is # "namesake", UNCHANGED answer
      PROVE  Told'
  <2>1. \A k \in Hop : got'[k] = got[k] \/ got'[k] = s
    BY <1>2 DEF Sees, TypeOK
  <2> QED BY <1>2, <2>1
<1>3. ASSUME NEW h \in Hop, NEW s \in Seen, Ends(h, s), Faithful(s) PROVE Told'
  <2>1. \A k \in Hop :
           answer'[k] = answer[k] \/ (Faithful(answer'[k]) /\ answer'[k].is # "namesake")
    BY <1>3, EndsStep
  <2> QED BY <1>3, <2>1 DEF Ends
<1>4. ASSUME NEW f \in Frame, NEW s \in Span \union {None}, Ask(f, s) PROVE Told'
  <2>1. f + 1 \in Hop /\ UNCHANGED answer
    BY <1>4, Neighbours DEF Ask
  <2>2. /\ Of("deadline") \in Seen /\ Faithful(Of("deadline"))
        /\ Of("deadline").is # "namesake"
    BY SeenFacts DEF Outcome
  <2>3. Sees(f + 1, Of("deadline")) \/ got' = got
    BY <1>4 DEF Ask
  <2> QED BY <1>1, <1>2, <2>1, <2>2, <2>3
<1>5. ASSUME NEW h \in Hop, Refused(h) PROVE Told'
  <2>1. Faithful(Of("unread")) /\ Of("unread").is # "namesake"
    BY SeenFacts DEF Outcome
  <2>2. \A k \in Hop : got'[k] = got[k] \/ got'[k] = Of("unread")
    BY <1>5 DEF Refused, TypeOK
  <2> QED BY <1>5, <2>1, <2>2 DEF Refused
<1>6. ASSUME NEW h \in Hop, NEW r \in Raised, Return(h, r) PROVE Told'
  BY <1>3, <1>6, SeenFacts DEF Return, Outcome
<1>7. ASSUME NEW h \in Hop, PassOn(h) PROVE Told'
  <2>1. h + 1 \in Hop /\ got[h + 1] \in Seen /\ Faithful(got[h + 1])
    BY <1>7, Neighbours DEF PassOn, TypeOK
  <2> QED BY <1>3, <1>7, <2>1 DEF PassOn
<1>8. ASSUME NEW h \in Hop, CutOff(h) PROVE Told'
  <2>1. Faithful(Of("deadline")) /\ Of("deadline").is # "namesake"
    BY SeenFacts DEF Outcome
  <2>2. \A k \in Hop : answer'[k] = answer[k] \/ answer'[k] = Of("deadline")
    BY <1>8 DEF CutOff, TypeOK
  <2> QED BY <1>8, <2>1, <2>2 DEF CutOff
<1>9. ASSUME NEW h \in Hop, Answered(h) PROVE Told'
  <2>1. /\ answer[h] \in Seen /\ Faithful(answer[h]) /\ answer[h].is # "namesake"
        /\ Sees(h, answer[h]) /\ UNCHANGED answer
    BY <1>9 DEF Answered, TypeOK
  <2> QED BY <1>2, <2>1
<1>10. ASSUME NEW h \in Hop, GivesUp(h) PROVE Told'
  <2> DEFINE r == IF carries[h] = None THEN "unread" ELSE "deadline"
  <2>1. /\ Of(r) \in Seen /\ Faithful(Of(r)) /\ Of(r).is # "namesake"
        /\ Sees(h, Of(r)) /\ UNCHANGED answer
    BY <1>10, SeenFacts DEF GivesUp, Outcome
  <2> HIDE DEF r
  <2> QED BY <1>2, <2>1
<1>11. ASSUME NEW h \in Hop, Arrive(h) \/ Lose(h) \/ MakeRoom(h) \/ Room(h) \/ Cancelled(h)
       PROVE  Quiet
  BY <1>11 DEF Arrive, Lose, MakeRoom, Room, Cancelled
<1>12. ASSUME Tick \/ UNCHANGED vars PROVE Quiet
  BY <1>12 DEF Tick, vars
<1> QED BY <1>1, <1>4, <1>5, <1>6, <1>7, <1>8, <1>9, <1>10, <1>11, <1>12 DEF Next

\* Every step keeps it that who waits is calling.
LEMMA WaitingStep ==
    ASSUME TypeOK, Waiting, [Next]_vars
    PROVE  Waiting'
<1> USE ConstantFacts, Neighbours DEF TypeOK, Waiting
<1>1. CASE Tick
  BY <1>1, DownFacts DEF Tick
<1>2. ASSUME NEW h \in Hop, NEW s \in Seen, Sees(h, s) PROVE Waiting'
  BY <1>2 DEF Sees, Frame, Hop
<1>3. ASSUME NEW f \in Frame, NEW s \in Span \union {None}, Ask(f, s) PROVE Waiting'
  <2>1. f + 1 \in Hop /\ Of("deadline") \in Seen
    BY <1>3, SeenFacts DEF Ask, Outcome
  <2>2. CASE Sees(f + 1, Of("deadline"))
    BY <1>2, <2>1, <2>2
  <2>3. CASE \E w : /\ at' = [at EXCEPT ![f] = "calling", ![f + 1] = "asked"]
                    /\ wait' = [wait EXCEPT ![f + 1] = w]
    <3>1. \A h \in Hop : wait'[h] # None => h = f + 1 \/ wait[h] # None
      BY <2>1, <2>3
    <3>2. at[f] = "served" /\ at[f + 1] = "idle"
      BY <1>3 DEF Ask
    <3>3. \A h \in Hop : h - 1 = f <=> h = f + 1
      BY DEF Hop, Frame
    <3> QED BY <2>1, <2>3, <3>1, <3>2, <3>3 DEF Frame, Hop
  <2> QED BY <1>3, <2>2, <2>3 DEF Ask
<1>4. ASSUME NEW h \in Hop, Arrive(h) \/ Lose(h) \/ MakeRoom(h) \/ Room(h) PROVE Waiting'
  BY <1>4 DEF Arrive, Lose, MakeRoom, Room
<1>5. ASSUME NEW h \in Hop, Refused(h) PROVE Waiting'
  BY <1>5 DEF Refused, Hop, Frame
<1>6. ASSUME NEW h \in Hop, NEW s \in Seen, at[h] = "served", Ends(h, s) PROVE Waiting'
  BY <1>6 DEF Ends
<1>7. ASSUME NEW h \in Hop, NEW r \in Raised, Return(h, r) PROVE Waiting'
  BY <1>6, <1>7, SeenFacts DEF Return, Outcome
<1>8. ASSUME NEW h \in Hop, PassOn(h) PROVE Waiting'
  BY <1>6, <1>8 DEF PassOn
<1>9. ASSUME NEW h \in Hop, CutOff(h) \/ Cancelled(h) PROVE Waiting'
  BY <1>9 DEF CutOff, Cancelled, Hop
<1>10. ASSUME NEW h \in Hop, Answered(h) PROVE Waiting'
  BY <1>2, <1>10 DEF Answered
<1>11. ASSUME NEW h \in Hop, GivesUp(h) PROVE Waiting'
  <2> DEFINE r == IF carries[h] = None THEN "unread" ELSE "deadline"
  <2>1. Of(r) \in Seen /\ Sees(h, Of(r))
    BY <1>11, SeenFacts DEF GivesUp, Outcome
  <2> QED BY <1>2, <2>1
<1>12. CASE UNCHANGED vars
  BY <1>12 DEF vars
<1> QED BY <1>1, <1>3, <1>4, <1>5, <1>7, <1>8, <1>9, <1>10, <1>11, <1>12 DEF Next

\* What every step but a tick and a request leaves of a chain.
LEMMA ChainStep ==
    ASSUME TypeOK, Waiting, NEW h \in Hop,
           \/ Lose(h) \/ Refused(h) \/ PassOn(h) \/ CutOff(h) \/ Cancelled(h)
           \/ MakeRoom(h) \/ Room(h)
           \/ Answered(h) \/ GivesUp(h) \/ \E r \in Raised : Return(h, r)
    PROVE  /\ UNCHANGED <<limit, carries, flew, first, age>>
           /\ \A k \in Hop : \/ at'[k] = at[k]
                             \/ at[k] # "idle" /\ at'[k] = "ended"
                             \/ at[k] \in Working /\ at'[k] \in {"served", "evicting"}
           /\ \A k \in deaf' : \/ k \in deaf
                               \/ at'[k] = "evicting" /\ limit[k] = 0
           /\ deaf \subseteq deaf'
<1> USE Neighbours DEF TypeOK, Waiting
<1>1. ASSUME NEW s, Sees(h, s), wait[h] # None
      PROVE  \A k \in Hop : at'[k] = at[k] \/ (at[k] \in Working /\ at'[k] = "served")
  BY <1>1 DEF Sees, Working
<1>2. wait[h] = 0 => wait[h] # None
  BY ConstantFacts
<1>3. CASE CutOff(h)
  BY <1>3 DEF CutOff, Overdue, Working
<1>4. CASE MakeRoom(h) \/ Room(h)
  BY <1>4 DEF MakeRoom, Room, Working
<1>5. CASE Answered(h) \/ GivesUp(h)
  BY <1>1, <1>2, <1>5 DEF Answered, GivesUp
<1>6. CASE Lose(h) \/ Refused(h) \/ Cancelled(h)
  BY <1>6 DEF Lose, Refused, Cancelled, Working
<1>7. CASE PassOn(h) \/ \E r \in Raised : Return(h, r)
  BY <1>7 DEF PassOn, Return, Ends
<1> QED BY <1>3, <1>4, <1>5, <1>6, <1>7

\* Every step keeps a hop without a past as it is.
LEMMA UntouchedStep ==
    ASSUME TypeOK, Untouched, Waiting, [Next]_vars
    PROVE  Untouched'
<1> USE ConstantFacts, Neighbours DEF TypeOK, Untouched
<1>1. CASE Tick
  BY <1>1 DEF Tick
<1>2. ASSUME NEW f \in Frame, NEW s \in Span \union {None}, Ask(f, s) PROVE Untouched'
  <2>1. /\ at[f] = "served" /\ at[f + 1] = "idle" /\ f + 1 \in Hop
        /\ UNCHANGED <<flew, age>>
    BY <1>2 DEF Ask
  <2>2. CASE Sees(f + 1, Of("deadline"))
    <3>1. at' = at
      BY <2>1, <2>2 DEF Sees, Frame, Hop
    <3> QED BY <2>1, <3>1
  <2>3. CASE at' = [at EXCEPT ![f] = "calling", ![f + 1] = "asked"]
    <3>1. f = 0 \/ f \in Hop
      BY DEF Frame, Hop
    <3>2. at'[1] # "idle"
      BY <2>1, <2>3, <3>1
    <3> QED BY <2>1, <2>3, <3>2
  <2> QED BY <1>2, <2>2, <2>3 DEF Ask
<1>3. ASSUME NEW h \in Hop, Arrive(h) PROVE Untouched'
  BY <1>3 DEF Arrive
<1>4. ASSUME UNCHANGED <<flew, age>>,
             \A k \in Hop : at'[k] = at[k] \/ (at[k] # "idle" /\ at'[k] # "idle")
      PROVE  Untouched'
  BY <1>4
<1>5. CASE UNCHANGED vars
  BY <1>5 DEF vars
<1>6. ASSUME NEW h \in Hop,
             \/ Lose(h) \/ Refused(h) \/ PassOn(h) \/ CutOff(h) \/ Cancelled(h)
             \/ MakeRoom(h) \/ Room(h)
             \/ Answered(h) \/ GivesUp(h) \/ \E r \in Raised : Return(h, r)
      PROVE  Untouched'
  BY <1>4, <1>6, ChainStep DEF Working
<1> QED BY <1>1, <1>2, <1>3, <1>5, <1>6 DEF Next

\* Every step keeps it that who is deaf to its deadline asks nothing of another
\* node.
LEMMA DeafenedStep ==
    ASSUME TypeOK, Waiting, Deafened, [Next]_vars
    PROVE  Deafened'
<1> USE ConstantFacts, Neighbours DEF TypeOK, Deafened
<1>1. CASE Tick
  BY <1>1 DEF Tick, Down
<1>2. ASSUME NEW f \in Frame, NEW s \in Span \union {None}, Ask(f, s) PROVE Deafened'
  <2>1. at[f] = "served" /\ at[f + 1] = "idle" /\ f + 1 \in Hop /\ UNCHANGED <<limit, deaf>>
    BY <1>2 DEF Ask
  <2>2. CASE Sees(f + 1, Of("deadline"))
    <3>1. at' = at
      BY <2>1, <2>2 DEF Sees, Frame, Hop
    <3> QED BY <2>1, <3>1
  <2>3. CASE Tighter(s, limit[f]) # 0 /\ at' = [at EXCEPT ![f] = "calling", ![f + 1] = "asked"]
    <3>1. f \notin deaf
      <4>1. limit[f] = 0 => Tighter(s, limit[f]) = 0
        BY TighterFacts, ForwardAssumption DEF Tighter, Ticks
      <4> QED BY <2>3, <4>1
    <3>2. f + 1 \notin deaf
      BY <2>1
    <3> QED BY <2>1, <2>3, <3>1, <3>2
  <2> QED BY <1>2, <2>2, <2>3 DEF Ask
<1>3. ASSUME NEW h \in Hop, Arrive(h) PROVE Deafened'
  <2>1. h \notin deaf
    BY <1>3 DEF Arrive
  <2> QED BY <1>3, <2>1 DEF Arrive
<1>4. ASSUME NEW h \in Hop,
             \/ Lose(h) \/ Refused(h) \/ PassOn(h) \/ CutOff(h) \/ Cancelled(h)
             \/ MakeRoom(h) \/ Room(h)
             \/ Answered(h) \/ GivesUp(h) \/ \E r \in Raised : Return(h, r)
      PROVE  Deafened'
  BY <1>4, ChainStep
<1>5. CASE UNCHANGED vars
  BY <1>5 DEF vars
<1> QED BY <1>1, <1>2, <1>3, <1>4, <1>5 DEF Next

\* Every step keeps the budget.
LEMMA BudgetStep ==
    ASSUME TypeOK, Untouched, Waiting, Deafened, Budget, [Next]_vars
    PROVE  Budget'
<1> USE ConstantFacts, Neighbours DEF TypeOK
<1>1. CASE Tick
  <2> SUFFICES ASSUME first # None, NEW h \in Hop
               PROVE  /\ at[h] = "asked" =>
                            /\ carries[h] # None
                            /\ age' + carries[h] <= first + ((h - 1) * MaxFlight) + flew'[h]
                      /\ at[h] \in Working /\ h \notin deaf =>
                            /\ limit'[h] # None
                            /\ age' + limit'[h] <= first + (h * MaxFlight)
    BY <1>1 DEF Tick, Budget
  <2>1. (h - 1) * MaxFlight \in Nat /\ h * MaxFlight \in Nat
    BY OneMore
  <2>2. age' \in {age, age + 1} /\ first \in Nat /\ age \in Nat
    BY <1>1 DEF Tick, Ticks
  <2>3. CASE at[h] = "asked"
    <3>1. flew'[h] = flew[h] + 1 /\ flew[h] \in Nat
      BY <1>1, <2>3 DEF Tick
    <3>2. /\ carries[h] # None /\ carries[h] \in Nat
          /\ age + carries[h] <= first + ((h - 1) * MaxFlight) + flew[h]
      BY <2>3 DEF Budget, Ticks
    <3> QED BY <2>1, <2>2, <2>3, <3>1, <3>2 DEF Working
  <2>4. CASE at[h] \in Working /\ h \notin deaf
    <3>1. /\ limit[h] # None /\ limit[h] \in Nat
          /\ age + limit[h] <= first + (h * MaxFlight)
      BY <2>4 DEF Budget, Ticks
    <3>2. limit[h] # 0 /\ limit'[h] = limit[h] - 1
      BY <1>1, <2>4, <3>1, DownFacts DEF Tick, Overdue, Working
    <3> QED BY <2>1, <2>2, <2>4, <3>1, <3>2 DEF Working
  <2> QED BY <2>3, <2>4
<1>2. ASSUME NEW f \in Frame, NEW s \in Span \union {None}, Ask(f, s) PROVE Budget'
  <2> DEFINE left == Tighter(s, limit[f])
  <2>1. /\ at[f] = "served" /\ at[f + 1] = "idle" /\ f + 1 \in Hop
        /\ UNCHANGED <<limit, deaf, flew, answer, age>>
    BY <1>2 DEF Ask
  <2>2. left \in Ticks \union {None} /\ (limit[f] # None => left # None /\ left <= limit[f])
    BY TighterFacts
  <2>3. CASE Sees(f + 1, Of("deadline")) /\ UNCHANGED <<carries, first>>
    <3>1. at' = at
      BY <2>1, <2>3 DEF Sees, Frame, Hop
    <3> QED BY <2>1, <2>3, <3>1 DEF Budget
  <2>4. CASE /\ left # 0
             /\ at' = [at EXCEPT ![f] = "calling", ![f + 1] = "asked"]
             /\ carries' = [carries EXCEPT ![f + 1] = left]
             /\ first' = (IF f = 0 THEN left ELSE first)
    <3>0. f \in Hop => f \notin deaf
      <4>1. limit[f] = 0 => left = 0
        BY ForwardAssumption DEF Tighter, Ticks
      <4> QED BY <2>4, <4>1 DEF Deafened
    <3> HIDE DEF left
    <3> SUFFICES ASSUME first' # None, NEW h \in Hop
                 PROVE  /\ at'[h] = "asked" =>
                              /\ carries'[h] # None
                              /\ age + carries'[h] <= first' + ((h - 1) * MaxFlight) + flew[h]
                        /\ at'[h] \in Working /\ h \notin deaf =>
                              /\ limit[h] # None
                              /\ age + limit[h] <= first' + (h * MaxFlight)
      BY <2>1 DEF Budget
    <3>1. CASE f = 0
      <4>1. \A k \in Hop : at[k] = "idle" /\ flew[k] = 0 /\ age = 0
        BY <2>1, <3>1 DEF Untouched
      <4>2. h # 1 => at'[h] = "idle"
        <5>1. h # 1 => at'[h] = at[h]
          BY <2>4, <3>1 DEF Hop
        <5> QED BY <4>1, <5>1
      <4>3. CASE h = 1
        <5>1. at'[h] = "asked" /\ carries'[h] = left /\ first' = left /\ age = 0
          BY <2>1, <2>4, <3>1, <4>1, <4>3
        <5>2. (h - 1) * MaxFlight = 0 /\ flew[h] = 0
          BY <4>1, <4>3
        <5>3. left \in Int
          BY <2>2, <5>1
        <5> QED BY <5>1, <5>2, <5>3 DEF Working
      <4> QED BY <4>2, <4>3 DEF Working
    <3>2. CASE f # 0
      <4>1. f \in Hop /\ first' = first
        BY <2>4, <3>2 DEF Frame, Hop
      <4>2. limit[f] # None /\ age + limit[f] <= first + (f * MaxFlight)
        BY <2>1, <3>0, <4>1 DEF Budget, Working
      <4>3. CASE h = f + 1
        <5>1. at'[h] = "asked" /\ carries'[h] = left /\ left # None /\ left <= limit[f]
          BY <2>1, <2>2, <2>4, <4>2, <4>3
        <5>2. h - 1 = f /\ flew[h] = 0
          BY <2>1, <4>1, <4>3 DEF Untouched, Hop
        <5>3. (h - 1) * MaxFlight = f * MaxFlight /\ f * MaxFlight \in Nat
          BY <4>1, <5>2, OneMore
        <5>4. left \in Int /\ limit[f] \in Int
          BY <2>2, <4>2, <5>1
        <5>5. first \in Int /\ age \in Int
          BY <4>1
        <5> QED BY <4>1, <4>2, <5>1, <5>2, <5>3, <5>4, <5>5 DEF Working
      <4>4. CASE h = f
        <5>1. at'[h] = "calling"
          BY <2>4, <4>1, <4>4 DEF Hop
        <5> QED BY <4>1, <4>2, <4>4, <5>1 DEF Working
      <4>5. CASE h # f /\ h # f + 1
        <5>1. at'[h] = at[h] /\ carries'[h] = carries[h]
          BY <2>1, <2>4, <4>5
        <5> QED BY <4>1, <5>1 DEF Budget
      <4> QED BY <4>3, <4>4, <4>5
    <3> QED BY <3>1, <3>2
  <2> QED BY <1>2, <2>3, <2>4 DEF Ask
<1>3. ASSUME NEW h \in Hop, Arrive(h) PROVE Budget'
  <2>1. /\ at[h] = "asked" /\ at' = [at EXCEPT ![h] = "served"]
        /\ limit' = [limit EXCEPT ![h] = carries[h]]
        /\ UNCHANGED <<deaf, carries, flew, first, age>>
    BY <1>3 DEF Arrive, Tighter
  <2> SUFFICES ASSUME first # None, NEW k \in Hop
               PROVE  /\ at'[k] = "asked" =>
                            /\ carries[k] # None
                            /\ age + carries[k] <= first + ((k - 1) * MaxFlight) + flew[k]
                      /\ at'[k] \in Working /\ k \notin deaf =>
                            /\ limit'[k] # None
                            /\ age + limit'[k] <= first + (k * MaxFlight)
    BY <2>1 DEF Budget
  <2>2. CASE k # h
    BY <2>1, <2>2 DEF Budget
  <2>3. CASE k = h
    <3>1. at'[h] = "served" /\ limit'[h] = carries[h]
      BY <2>1
    <3>2. carries[h] # None /\ age + carries[h] <= first + ((h - 1) * MaxFlight) + flew[h]
      BY <2>1 DEF Budget
    <3>3. (h - 1) * MaxFlight \in Nat /\ ((h - 1) * MaxFlight) + MaxFlight = h * MaxFlight
      BY OneMore
    <3>4. flew[h] \in Nat /\ flew[h] <= MaxFlight /\ age \in Int /\ first \in Int
      OBVIOUS
    <3>5. carries[h] \in Int
      BY <3>2
    <3> QED BY <2>3, <3>1, <3>2, <3>3, <3>4, <3>5
  <2> QED BY <2>2, <2>3
<1>4. ASSUME NEW h \in Hop,
             \/ Lose(h) \/ Refused(h) \/ PassOn(h) \/ CutOff(h) \/ Cancelled(h)
             \/ MakeRoom(h) \/ Room(h)
             \/ Answered(h) \/ GivesUp(h) \/ \E r \in Raised : Return(h, r)
      PROVE  Budget'
  <2>1. /\ UNCHANGED <<limit, carries, flew, first, age>>
        /\ \A k \in Hop : \/ at'[k] = at[k]
                          \/ at'[k] = "ended"
                          \/ at[k] \in Working /\ at'[k] \in {"served", "evicting"}
        /\ deaf \subseteq deaf'
    BY <1>4, ChainStep
  <2> QED BY <2>1 DEF Budget, Working
<1>5. CASE UNCHANGED vars
  BY <1>5 DEF vars, Budget
<1> QED BY <1>1, <1>2, <1>3, <1>4, <1>5 DEF Next

\* Every step of a method, a timer or the network keeps the invariant.
THEOREM Stepwise == IInv /\ [Next]_vars => IInv'
BY TypesStep, UntouchedStep, WaitingStep, DeafenedStep, BudgetStep, ToldStep DEF IInv

\* The invariant holds however far a chain of calls has come.
THEOREM Invariantly == Spec => []IInv
<1>1. Spec => Init /\ [][Next]_vars
  BY DEF Spec
<1> QED BY <1>1, Initially, Stepwise, PTL

\* Every variable keeps its type.
THEOREM TypeCorrect == Spec => []TypeOK
BY Invariantly, PTL DEF IInv

\* A chain does not outlive its first deadline (deadline() nested, and carried by
\* deliver), but for the time that requests were under way: past it nothing is
\* asked of another node, and only a method whose cancellation an eviction took
\* works on, for chains of every length.
THEOREM NobodyWorksLate == Spec => []NoLateWork
<1>1. IInv => NoLateWork
  <2> SUFFICES ASSUME IInv, first # None, NEW h \in Hop, age > first + (h * MaxFlight)
               PROVE  /\ at[h] \notin {"asked", "calling"}
                      /\ at[h] \in Working => h \in deaf
    BY DEF NoLateWork
  <2>1. /\ age \in Nat /\ first \in Nat /\ flew[h] \in Nat /\ flew[h] <= MaxFlight
        /\ (h - 1) * MaxFlight \in Nat /\ h * MaxFlight \in Nat
        /\ ((h - 1) * MaxFlight) + MaxFlight = h * MaxFlight /\ MaxFlight \in Nat
    BY ConstantFacts, OneMore DEF IInv, TypeOK, Ticks
  <2>2. at[h] # "asked"
    <3> SUFFICES ASSUME at[h] = "asked" PROVE FALSE
      OBVIOUS
    <3>1. carries[h] \in Nat /\ age + carries[h] <= first + ((h - 1) * MaxFlight) + flew[h]
      BY ConstantFacts DEF IInv, TypeOK, Budget, Ticks
    <3> QED BY <2>1, <3>1
  <2>3. at[h] \in Working => h \in deaf
    <3> SUFFICES ASSUME at[h] \in Working, h \notin deaf PROVE FALSE
      OBVIOUS
    <3>1. limit[h] \in Nat /\ age + limit[h] <= first + (h * MaxFlight)
      BY ConstantFacts, Neighbours DEF IInv, TypeOK, Budget, Ticks
    <3> QED BY <2>1, <3>1
  <2>4. at[h] = "calling" => h \notin deaf
    BY DEF IInv, Deafened
  <2> QED BY <2>2, <2>3, <2>4 DEF Working
<1> QED BY <1>1, Invariantly, PTL

\* Callers on any node catch as a lost race exactly what had that name where it was
\* raised, over any number of hops (failure_to_wire, failure_from_wire), whatever
\* the methods in between do, and take no failure for an answer.
THEOREM FailuresAreTold == Spec => []FailuresCross
<1>1. IInv => FailuresCross
  BY DEF IInv, Told, Faithful, FailuresCross
<1> QED BY <1>1, Invariantly, PTL

=============================================================================
