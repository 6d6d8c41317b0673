-------------------------------- MODULE Forward --------------------------------
(***************************************************************************)
(* A call that crosses nodes and calls on from there: deadlines            *)
(* (src/src/nigrains/call.py, Runtime._through_filters), the hop over HTTP *)
(* (http.py) and what becomes of a failure on the wire (wire.py).          *)
(*                                                                         *)
(* Frame 0 is the code outside any grain that asks; frame f is the method  *)
(* that frame f - 1 called on another node.  A method makes at most one    *)
(* call.  Time is in ticks; timers are prompt, messages are not.           *)
(***************************************************************************)
EXTENDS Integers

CONSTANTS
    Depth,           \* bound: the hops of a chain
    Span,            \* what callers write in deadline(...), in ticks
    Patience,        \* HttpTransport's own timeout, in ticks
    MaxFlight,       \* bound: ticks a request is under way
    None

ASSUME ForwardAssumption ==
    /\ Depth \in Nat \ {0} /\ Patience \in Nat \ {0} /\ MaxFlight \in Nat
    /\ Span \subseteq Nat /\ \A s \in Span : s <= Patience
    /\ None \notin Int

Frame == 0..Depth
Hop == 1..Depth
Ticks == 0..Patience

\* How a method ends: an answer, an answer the codec cannot render, an exception
\* of the grain's own, ConcurrentChange, one of a subclass of that, one of an
\* unrelated class that has its name, TimeoutError; and what only callers see:
\* DeadlineExceeded, RemoteError, a failure of httpx, an answer that is not the
\* codec's.
Raised == {"value", "odd", "own", "conflict", "kin", "namesake", "timeout"}
Outcome == Raised \union {"deadline", "remote", "unread", "garbled"}

\* What a caller sees, with a history: how the chain below it ended first of all.
Seen == [is : Outcome, from : Outcome]
Of(r) == [is |-> r, from |-> r]

VARIABLES
    at,              \* frame -> where its method is
    limit,           \* frame -> ticks left of the deadline it is served under
    deaf,            \* the hops whose deadline has struck without ending them
    wait,            \* hop -> ticks its caller still waits, None if it does not
    carries,         \* hop -> "timeout" of the request
    flew,            \* hop -> ticks the request has been under way
    answer,          \* hop -> the response on its way back
    got,             \* hop -> what the caller saw
    first, age,      \* history: the outermost deadline, and ticks since it was set
    spent            \* history: some deadline has run out

vars == <<at, limit, deaf, wait, carries, flew, answer, got, first, age, spent>>

Horizon == Patience + Depth * MaxFlight + 1

TypeOK ==
    /\ at \in [Frame -> {"idle", "asked", "served", "evicting", "calling", "ended"}]
    /\ deaf \subseteq Hop
    /\ limit \in [Frame -> Ticks \union {None}]
    /\ wait \in [Hop -> Ticks \union {None}]
    /\ carries \in [Hop -> Ticks \union {None}]
    /\ flew \in [Hop -> 0..MaxFlight]
    /\ answer \in [Hop -> Seen \union {None}]
    /\ got \in [Hop -> Seen \union {None}]
    /\ first \in Ticks \union {None} /\ age \in 0..Horizon /\ spent \in BOOLEAN

Init ==
    /\ at = [f \in Frame |-> IF f = 0 THEN "served" ELSE "idle"]
    /\ limit = [f \in Frame |-> None] /\ deaf = {}
    /\ wait = [h \in Hop |-> None] /\ carries = [h \in Hop |-> None]
    /\ flew = [h \in Hop |-> 0]
    /\ answer = [h \in Hop |-> None] /\ got = [h \in Hop |-> None]
    /\ first = None /\ age = 0 /\ spent = FALSE

-----------------------------------------------------------------------------
\* Fault: the inner block gets what it asks for.
Innermost(s, outer) == IF s = None THEN outer ELSE s

\* deadline(): the earlier of what is asked for and what is in force.
Tighter(s, outer) ==
    IF s = None \/ (outer # None /\ outer <= s) THEN outer ELSE s

\* Fault: a request waits for the transport's own timeout as well.
WaitsLonger(left) == IF left = None THEN Patience ELSE left + Patience

\* Fault: no deadline, no timeout.
NoPatience(left) == left

\* The timeout of the request, and of _through_filters around it.
Waits(left) == IF left = None THEN Patience ELSE left

\* What dispatch lets through: under a deadline every TimeoutError becomes
\* DeadlineExceeded, whoever's it was.
Dispatched(r, left) == IF r = "timeout" /\ left # None THEN "deadline" ELSE r

\* Fault: the wire carries what somebody said and not what it was.
AllRemote(r) == IF r = "value" THEN r ELSE "remote"

\* asgi_app and failure_to_wire, then send and failure_from_wire: what has the
\* name of one of the package's own errors is rebuilt as that, whatever its class
\* was, and nothing else is.  What cannot be encoded escapes the application, and
\* the server answers for it with something that is not the codec's.
AcrossTheWire(r) ==
    IF r \in {"value", "conflict", "deadline"} THEN r
    ELSE IF r = "namesake" THEN "conflict"
    ELSE IF r = "odd" THEN "garbled" ELSE "remote"

\* The caller of hop h sees s and goes on.
Sees(h, s) ==
    /\ got' = [got EXCEPT ![h] = s]
    /\ wait' = [wait EXCEPT ![h] = None]
    /\ at' = [at EXCEPT ![h - 1] = "served"]

\* A method calls a grain elsewhere, in a deadline block of its own or not.
Ask(f, s) ==
    /\ f < Depth /\ at[f] = "served" /\ at[f + 1] = "idle" /\ got[f + 1] = None
    /\ LET left == Tighter(s, limit[f])
       IN  \/ /\ left = 0
              /\ Sees(f + 1, Of("deadline"))
              /\ spent' = TRUE
              /\ UNCHANGED <<carries, first>>
           \/ /\ left # 0
              /\ at' = [at EXCEPT ![f] = "calling", ![f + 1] = "asked"]
              /\ carries' = [carries EXCEPT ![f + 1] = left]
              /\ wait' = [wait EXCEPT ![f + 1] = Waits(left)]
              /\ first' = IF f = 0 THEN left ELSE first
              /\ UNCHANGED <<got, spent>>
    /\ UNCHANGED <<limit, deaf, flew, answer, age>>

\* app, deliver and _served_here: the seconds left become a deadline here.
Arrive(h) ==
    /\ at[h] = "asked"
    /\ at' = [at EXCEPT ![h] = "served"]
    /\ limit' = [limit EXCEPT ![h] = Tighter(carries[h], None)]
    /\ UNCHANGED <<deaf, wait, carries, flew, answer, got, first, age, spent>>

\* Its grain, or one that the method calls on this node, is activated in a full
\* fleet: _make_room stops the schedules of another and waits for them ...
MakeRoom(h) ==
    /\ at[h] = "served" /\ h \notin deaf
    /\ at' = [at EXCEPT ![h] = "evicting"]
    /\ UNCHANGED <<limit, deaf, wait, carries, flew, answer, got, first, age, spent>>

\* ... and goes on.
Room(h) ==
    /\ at[h] = "evicting"
    /\ at' = [at EXCEPT ![h] = "served"]
    /\ UNCHANGED <<limit, deaf, wait, carries, flew, answer, got, first, age, spent>>

\* A request is lost, and nobody says so.
Lose(h) ==
    /\ at[h] = "asked"
    /\ at' = [at EXCEPT ![h] = "ended"]
    /\ UNCHANGED <<limit, deaf, wait, carries, flew, answer, got, first, age, spent>>

\* A request meets nobody, and the caller hears of it.
Refused(h) ==
    /\ at[h] = "asked" /\ wait[h] # None
    /\ got' = [got EXCEPT ![h] = Of("unread")]
    /\ wait' = [wait EXCEPT ![h] = None]
    /\ at' = [at EXCEPT ![h] = "ended", ![h - 1] = "served"]
    /\ UNCHANGED <<limit, deaf, carries, flew, answer, first, age, spent>>

\* What the method of hop h ends with goes on the wire.
Ends(h, s) ==
    /\ at' = [at EXCEPT ![h] = "ended"]
    /\ answer' = [answer EXCEPT ![h] =
                     [is |-> AcrossTheWire(Dispatched(s.is, limit[h])), from |-> s.from]]
    /\ UNCHANGED <<wait, carries, flew, got, first, age>>

\* The method returns or raises by itself, whatever its own call came to ...
Return(h, r) == at[h] = "served" /\ Ends(h, Of(r)) /\ UNCHANGED <<limit, deaf, spent>>

\* ... or lets what that raised through.
PassOn(h) ==
    /\ h < Depth /\ at[h] = "served" /\ got[h + 1] # None /\ got[h + 1].is # "value"
    /\ Ends(h, got[h + 1])
    /\ UNCHANGED <<limit, deaf, spent>>

Working == {"served", "evicting", "calling"}

\* Its deadline has run out, and asyncio.timeout has not struck yet.
Overdue(h) == at[h] \in Working /\ limit[h] = 0 /\ h \notin deaf

\* asyncio.timeout cancels the call once.  That ends it, and what it waits for is
\* left to itself; but _deactivate, waiting for a schedule to stop, takes the
\* cancellation for the schedule's, and the method goes on with no time left.
CutOff(h) ==
    /\ Overdue(h)
    /\ \/ /\ at' = [at EXCEPT ![h] = "ended"]
          /\ answer' = [answer EXCEPT ![h] = Of("deadline")]
          /\ wait' = [k \in Hop |-> IF k = h + 1 THEN None ELSE wait[k]]
          /\ UNCHANGED deaf
       \/ /\ at[h] = "evicting"
          /\ deaf' = deaf \union {h}
          /\ UNCHANGED <<at, answer, wait>>
    /\ spent' = TRUE
    /\ UNCHANGED <<limit, carries, flew, got, first, age>>

\* The task that serves is cancelled, or its process dies: never an answer.
Cancelled(h) ==
    /\ at[h] \in Working
    /\ at' = [at EXCEPT ![h] = "ended"]
    /\ wait' = [k \in Hop |-> IF k = h + 1 THEN None ELSE wait[k]]
    /\ UNCHANGED <<limit, deaf, carries, flew, answer, got, first, age, spent>>

\* The response arrives.
Answered(h) ==
    /\ wait[h] # None /\ answer[h] # None
    /\ Sees(h, answer[h])
    /\ UNCHANGED <<limit, deaf, carries, flew, answer, first, age, spent>>

\* The caller's time is up: the deadline of the call, or the transport's.
GivesUp(h) ==
    /\ wait[h] = 0
    /\ Sees(h, Of(IF carries[h] = None THEN "unread" ELSE "deadline"))
    /\ spent' = (spent \/ carries[h] # None)
    /\ UNCHANGED <<limit, deaf, carries, flew, answer, first, age>>

Down(x) == IF x = None \/ x = 0 THEN x ELSE x - 1

\* Timers are prompt, and a request is not under way for ever.
Tick ==
    /\ at[0] = "calling" \/ \E h \in Hop : at[h] \in Working \union {"asked"}
    /\ \A h \in Hop : wait[h] # 0 /\ ~Overdue(h)
    /\ \A h \in Hop : at[h] = "asked" => flew[h] < MaxFlight
    /\ limit' = [f \in Frame |-> IF at[f] = "ended" THEN limit[f] ELSE Down(limit[f])]
    /\ wait' = [h \in Hop |-> Down(wait[h])]
    /\ flew' = [h \in Hop |-> IF at[h] = "asked" THEN flew[h] + 1 ELSE flew[h]]
    /\ age' = IF at[1] # "idle" /\ age < Horizon THEN age + 1 ELSE age
    /\ UNCHANGED <<at, deaf, carries, answer, got, first, spent>>

Next ==
    \/ Tick
    \/ \E f \in Frame, s \in Span \union {None} : Ask(f, s)
    \/ \E h \in Hop :
          \/ Arrive(h) \/ Lose(h) \/ Refused(h) \/ PassOn(h)
          \/ MakeRoom(h) \/ Room(h) \/ CutOff(h) \/ Cancelled(h) \/ Answered(h) \/ GivesUp(h)
          \/ \E r \in Raised : Return(h, r)

\* Time passes and timers fire.  No method has to return, and no message has to
\* arrive.
Fairness ==
    /\ WF_vars(Tick)
    /\ \A h \in Hop : WF_vars(CutOff(h)) /\ WF_vars(GivesUp(h)) /\ WF_vars(Arrive(h) \/ Lose(h))

Spec == Init /\ [][Next]_vars /\ Fairness

-----------------------------------------------------------------------------
\* A chain does not outlive the deadline set at its start, but for the time its
\* requests were under way and whatever the methods in between ask for: past it
\* no request is on its way to another node and nobody waits for one, and the
\* only methods still at work are those whose one cancellation went to a schedule
\* of the grain they evicted.
NoLateWork ==
    first # None =>
        \A h \in Hop : age > first + h * MaxFlight =>
            /\ at[h] \notin {"asked", "calling"}
            /\ at[h] \in Working => h \in deaf

\* What _through_filters promises, and an eviction breaks: in this instance TLC
\* finds a method at work for a caller that has long been told it has ended.
AlwaysOnTime ==
    first # None => \A h \in Hop : at[h] \in Working => age <= first + h * MaxFlight

\* A failure has the same meaning at any distance: callers on other nodes, who
\* retry on ConcurrentChange, catch as one exactly what had that name where it was
\* raised, through any methods in between, and a failure never comes out as an
\* answer.
FailuresCross ==
    \A h \in Hop : got[h] # None =>
        /\ got[h].is = "conflict" <=> got[h].from \in {"conflict", "namesake"}
        /\ got[h].is = "value" => got[h].from = "value"

\* What the wire's documentation promises, and its going by names breaks both
\* ways: a lost race is caught as one, and nothing else is.
LostRacesAreRaces ==
    \A h \in Hop : got[h] # None =>
        (got[h].is = "conflict" <=> got[h].from \in {"conflict", "kin"})

\* Every caller hears something, when requests and answers are lost, the far
\* end is cancelled or the method never returns.
CallersEnd == \A h \in Hop : at[h - 1] = "calling" ~> at[h - 1] # "calling"

\* A caller told that its deadline is exceeded had one that ran out.
BlameIsEarned == \A h \in Hop : got[h] # None /\ got[h].is = "deadline" => spent

=============================================================================
