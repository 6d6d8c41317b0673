# A verification of nigrains

nigrains is a virtual-actor runtime for asyncio: grains are addressed by identity, activated
by the first call, served one call at a time, collected when idle and placed on the nodes of a
cluster by a consistent hash. This directory holds TLA+ modules of its core, the
configurations that model-check them with TLC, and proofs that TLAPS checks.

Paths such as `runtime.py:655` are relative to `src/src/nigrains/`.

## 1. The system

| Component | State it keeps | Operations | Correct means |
|---|---|---|---|
| Activation life cycle, `runtime.py` class `Runtime` | the table `_activations` (ordered), one `_Activation` per grain: `ready`, `failure`, `in_flight`, `lock`, `last_used`, timers | `call`, `_dispatch_here`, `_activated`, `_make_room`, `_counted`, `_tick`, `collect`, `_sweep`, `_deactivate`, `__aexit__`, `_drain` | one activation per identity, one turn at a time, no deactivation under a call, exact counts, everything ends |
| Persistent state, `state.py` | a row and a version per grain in the store; data and version in each handle | `read`, `write`, `delete`; `save`, `reload`, `clear` | no lost update, a version names one value, a conflict is noticed and can be recovered from |
| Reminders, `reminders.py`, `runtime.py:778-826` | rows (grain, name, due, interval) in a store all nodes scan | `every`, `once`, `cancel`; `fire_due_reminders`, `_scan_reminders` | a cancelled reminder stays cancelled, a due one fires, on one node |
| Placement ring, `cluster.py` class `Ring` | sorted points and their nodes | construction, `owner` | every identity has one owner, a join moves identities only to the node that joined |
| Cluster, `cluster.py` class `Cluster`, `runtime.py:434-555` | the ring of the membership last seen | `owner_of`, `is_mine`, `_forward`, `deliver` | agreeing nodes agree on the owner, a call is forwarded at most once |
| Membership, `cluster.py`, `valkey.py` | a lease per node, the members last read | `start`, `stop`, `_beat`, `_announce`, `_refresh` | a node that lives is a member, one that died ceases to be |
| Deadlines and filters, `call.py`, `runtime.py:385-423` | the deadline of the current context | `deadline`, `remaining`, the filter chain | the earlier deadline wins, also across nodes |
| Pools, `runtime.py:591-617` | the turn of each pooled key | `_route` | every activation of a pool is reached |
| Wire codec and HTTP, `wire.py`, `http.py` | none | encode, decode, `send`, the ASGI endpoint | what was raised or returned comes back as itself |
| References, errors, conformance kit | none | proxies and assertions | out of scope, see section 7 |

How they interact: `call` asks the cluster for the owner and either forwards or calls
`_dispatch_here`, which gets the record from `_activated` and runs the method under
`_counted` and, unless the class is reentrant, under the record's lock. `_activated` attaches
the state and reminder handles before `activate()` and starts the schedules after it. Three
background tasks share the table with the callers: the sweeper, the reminder scanner (which
calls grains like anybody else) and whoever leaves the runtime. Everything runs on one event
loop, so every race is between the segments from one `await` to the next.

The hard parts are therefore the places where something is read before an `await` and used
after it, what a cancellation leaves behind at each `await`, and what the shutdown finds.
`PROJECT.json` lists them under `hazards`, each with its line and the properties about it.

## 2. The plan

Modules in the order in which they were written.

1. `GrainRuntime`, with `GrainRuntime_proofs` and `GrainRuntimeTable_proofs`: the life cycle on
   one node.
2. `GrainState`, with the abstract `AtomicState` and `GrainState_proofs`: optimistic versions.
3. `StateInMemory`, with `StateInMemory_proofs`: the objects that the in-memory store shares with the grains.
4. `Nodes`, `Ring`: placement as a function of points; proved about in `Fleet_proofs`.
5. `Membership`, the abstract port, and `LeaseMembership` with its proofs, which implements it.
6. `Fleet`, composing `Ring` and `Membership` with calls in flight, with `Fleet_proofs`.
7. `Reminders`, with its proofs: several nodes scanning one store, over `Ring`.
8. `Forward`, with its proofs: deadlines and failures along a chain of forwarded calls.
9. `VirtualActor`: the life of an identity as its grains and callers see it, which `GrainRuntime`
   without a bound implements.

How the modules depend on each other: `Fleet` extends `Membership` and `Ring`, both over `Nodes`;
`Reminders` extends `Ring` only, since all it needs of the membership is that a node's view may
change. `LeaseMembership` names `Membership` in its refinement, `GrainRuntime` names `VirtualActor`.
`Forward` stands alone: routing decides where a call goes, not what time is left when it arrives.

## 3. The modules and the code

### GrainRuntime

One action is one segment of one task. Where the code suspends only sometimes (a hook may
await nothing) the model suspends, which contains the other case.

| Variable | In the code |
|---|---|
| `activations`, `before` | the `OrderedDict` `_activations`; its order is kept only with a bound, since only `_make_room` reads it |
| `usedSince` | a history, kept with a bound only: for each identity, which others in the table were used after it |
| `grainOf` | which record is in use for which identity |
| `ready` | `ready` and `failure` of a record: pending, ready, failed, or failed with a `CancelledError` |
| `inFlight`, `lock` | `in_flight`, and the task that holds the lock |
| `idle` | records whose `last_used` is at least `idle_seconds` old |
| `timer` | the task of a grain's schedule |
| `teardown` | how far `_deactivate` has come with the record |
| `pc`, `act`, `want` | where a caller is suspended, the record it refers to, the identity it evicts for |
| `asked` | whether this caller's own cancellation was requested |
| `victim` | the record a task is deactivating |
| `sweeper`, `stale`, `closer`, `closing` | the progress and the lists of `collect` and `__aexit__` |

`Call` and `Lookup` are the first segment of a call; `Wake` is a waiter running again;
`Evict` and `Evicted` are the two sides of the `await` in `_make_room`; `Build` publishes the
record; `ActivateReturns` and `ActivateFails` end an activation; `Acquire`, `Finish` and
`Leave` are the lock, the method's return and the `finally` of `_counted`; `Cancel` is a
cancellation, or the expiry of a deadline, at each place a caller can stand. `Detach`,
`TimersGone`, `HookReturns` and `HookIsCut` are the segments of `_deactivate`, which callers,
the sweeper and the shutdown all run. `Forget` returns a record nobody refers to, which is
what the memory management of Python does to the object.

What the environment may do in an instance is the constant `Env`. `runtime_open` leaves out a
missing method and a bound, and `runtime_close` a schedule, because of what
they break (section 4); `runtime_bounded` leaves out idle sweeps to stay small, since an eviction
and a sweep deactivate alike.

`_make_room` takes the first entry of the `OrderedDict` that is not in use for the least recently
used one. What keeps that true is one `move_to_end` in `_counted`, of an identity that may have been
evicted, activated again or replaced since the call began. `usedSince` is a history that follows
`last_used` (set where a record is published, and where a counted call ends), guards nothing, and
`EvictsLeastRecentlyUsed` compares the two at every eviction. It holds while calls name methods
that exist. One that names none is not counted and moves nothing, so its fresh activation is
younger than its place says where a double activation (section 4) has replaced an entry where it
stood: with `"missing"` in `Env` and `MaxActivations = 2` TLC refutes the property.

### VirtualActor

What a caller may rely on, with no record, table, lock or waiter in it: an identity is cold, warming
or warm; a call is inside once its activation has accepted it and serves when it has its turn; a
schedule ticks while the identity is warm; and it goes cold again only with no call inside and
no tick running. `GrainRuntime` maps to it over all the records an identity ever has:

| In `VirtualActor` | In `GrainRuntime` |
|---|---|
| `phase[g]` | `Phase`: warm if a live record of g is ready, warming if one is pending, else cold |
| `inside[g]` | `Inside`: the callers that are counted on a record of g, deactivated or not |
| `serving[g]` | `Serving`: those that run its method |
| `ticking` | `Ticking`: the identities one of whose records has a tick in progress, an interrupted one included |

A call that meets a grain with no record is a `Warm`, then an `Open`; a waiter that is let in is an
`Accept`; the start of a deactivation is a `Cool`. Waiting, retrying, the sweep's list, the rest of
a deactivation and `Forget` are stutters.

### GrainState, AtomicState

The store is the port `StateStore` with the behaviour of `InMemoryStateStore`. Every
operation is awaited, so a call is suspended between `Asks` and the action that takes the
answer, and `Answers` is the instant at which the store acts. `Interrupted` is a cancellation
or a failure there: the handle stays as it was, and a write already sent joins `late` and may
still arrive (`TakesLate`) or not. `paper` is what a request is based on and, once `wire` is
"stored", what was answered. Data is the set of items added, version 0 is `None`. The calls
follow `Stubborn.add` of `tests/test_state.py`: save the data with one item more; on
`ConcurrentChange` give up, or reload and save again. Two activations may be alive at once,
and those in `Interleaved` run several calls on one handle.

`AtomicState` is what this is for: one value, each change applied once, whole, on top of all
others; a confirmed change stays until the state is cleared. `ImplementsPromise` maps
`data` to `row.data`.

### StateInMemory

`GrainState` treats data as a value. The in-memory store does not copy, and this module models
that: lists are objects with contents, the row refers to one of them, and a grain works
on the object it read (`CopiesOnRead = FALSE`, the Basket in the docstring of `state.py`) or on
a copy (`TRUE`, the Basket of the tests). No operation of this store suspends, so one call with
its recovery loop is one action.

### Nodes, Ring

`Nodes` names the nodes. `Ring` is `class Ring` with the hash as a parameter: `Place` gives the
position of each point of each node and `Where` that of an identity. `Points`, sorted by
`Precedes` (position, then name: what `sorted` does with pairs), `Bisect` and `Owner` are the
constructor and `owner`; `% Cardinality` is the wrap past the last point. A node with two points
at one position has one of them in the model, which moves no owner. `Placed` keeps the owners
per set of members, as `Cluster` keeps its ring for as long as it sees the same members.

### Membership, LeaseMembership

`Membership` is the port: who is listed, and what each node last read of it. It says what routing
relies on and no more: a listing may lapse at any moment, under a live node too, and a snapshot
is as old as its last read. A read goes through the listing while it changes, so the port only says
that it is right about every node whose listing has stayed as it was since the read before
(`unsure` are the others): the view that it brings need not have been the fleet at any instant.
`LeaseMembership` is `ValkeyMembership`:

| Variable | In the code |
|---|---|
| `pc` | where `start()` or `_beat()` stands: not running, announced and reading in `start()`, asleep, announced and reading in a beat |
| `key` | what the node's key in the store has left, in ticks, after `int(self._lease)` |
| `wait` | what is left of `asyncio.sleep(self._heartbeat)`, or of the time a read may take |
| `unread`, `seen` | `scan_iter`: the nodes whose part of the key space is still to come, and `seen` of `_refresh` |
| `view` | `_members` |
| `unsure` | history: the nodes whose keys came or went since the last read ended |
| `lost`, `blind`, `silent` | histories: rounds in a row without an announcement or a read, ticks since the node went off |

A read is a `Page` for every other node, in any order, each of which sees the keys of its own
instant: joins, departures, expiries and beats fall between pages, and time may pass, `Scan` ticks
at most. `Refresh` is its end. Every round trip may fail, and an announcement that fails may have
been carried out; a failed announcement skips the read of its beat, as the `try` of `_beat` does.
`Vanish` is a killed process or a `stop()` whose delete failed, which the code suppresses.
Everything due within a tick happens within it (`Due`), so an announcement that is late is one that
failed.

### Fleet

One identity's life inside a node is one value here: `held[n][i]` is empty, or the view that
placed the activation. `Ask` is `call` and `_dispatch` with the route taken and either served or
sent, in one step because the code does not suspend between the reading of the snapshot and the
sending; `Deliver` is `deliver`, which does not route. `Collect` is the sweep, `CloseTable` and
`Exit` are the end of `__aexit__` with what may come between them, `Dies` a crash. The remaining
actions are those of `Membership`, with one bound on starts, closings, crashes and lost leases
together. A call keeps in `by` the view it was routed by, until it is served.

### Reminders

`row` is the store: one row per grain and name, with the time it has left, so a `Tick` moves all
of them. `todo[n]` and `now[n]` are the list that `fire_due_reminders` walks on a node and the
entry whose call is awaited. The in-memory store does not suspend, so a scanner goes from the end
of one call to the beginning of the next in one step (`Walk`): it skips entries that are not its
own, drops or puts back the entry (`Rescheduled`), and calls. `Stop` is a scanner cancelled by
`__aexit__`, or its process ending, in the middle of the walk. An `ask` number tells one
request from the next of the same name; the code has no such number, and only properties read it.

### Forward

Frame 0 is the code outside any grain, frame `f` the method that frame `f - 1` called on another
node. `Ask` is `Runtime.call` under the deadline in force, tightened by a `deadline(...)` block of
the caller or not (`Tighter`); what is left travels as `carries` and becomes `limit` at the far
end (`Arrive`). `wait` is the timer around the request: `asyncio.timeout(left)`, or the
transport's own. `CutOff` and `GivesUp` are those timers firing at the two ends, `Answered` the
response winning the race. `MakeRoom` and `Room` are an eviction on the way of the method, its
own activation's or that of a grain it calls on the same node: a timer that fires while `_deactivate`
awaits a schedule is swallowed there, once, and the method goes on (`deaf`). What arrives
of a failure is what the wire makes of it, and that goes by the name of its class: `AcrossTheWire`
rebuilds a "conflict", takes a "namesake" of it, an unrelated class, for one, and loses a "kin", a
subclass. The other results are what becomes `RemoteError`, what the codec cannot render and what
httpx raises. `Seen.from` keeps how the chain below ended first of all.

## 4. The runs

| Run | Instance | Shows |
|---|---|---|
| `runtime_open` | no bound, 3 callers, a turn-based grain with a schedule and a reentrant one, 3 records; failures, cancellations, idle sweeps | the safety of an open runtime: `SingleActivation`, `NothingLost`, `ServedWhileOpen`, `OneAtATime`, `CancelIsolation`, `WaitersHaveBuilder`, `InFlightExact`, `QuietTeardown`; and `ImplementsVirtualActor`, the refinement |
| `runtime_bounded` | bound 1, 3 identities, 2 callers, 4 records; failures, cancellations | what evictions leave intact: the limit on the overshoot (`FleetBounded`), the choice of the least recently used (`EvictsLeastRecentlyUsed`); and that nothing deadlocks |
| `runtime_close` | 2 callers, 2 grains, one of them not registered; failures, missing methods, idle sweeps, shutdown with and without grace | liveness: every call ends, every idle grain is collected, leaving terminates and deactivates everything |
| `runtime_double` | bound 1, 2 callers, 2 grains | **violated** `SingleActivation` |
| `runtime_closehang` | one caller, one grain with a schedule, shutdown | **violated** `CloseTerminates` |
| `state_writers` | 2 calls, 2 activations of which one is reentrant, 2 items, interrupted calls, late writes | no lost update, a version names one value, the refinement, and the end of the recovery loop |
| `state_copies` | 2 activations, 3 items, 4 list objects, copies on read | each item is stored once |
| `lease` | 2 nodes, 3 starts, 3 faults; a second is 2 ticks, the lease 7 (stored as 6), the heartbeat 2, a read takes up to 1 | who beats stays listed, who is gone is forgotten in time, views converge, `Membership` is implemented |
| `fleet` | 3 nodes of 2 points, 4 changes (a start, closing, crash or lost lease each), one identity on a position that two nodes share, one call at a time | one view has one owner, minimal moves, the fleet settles |
| `reminders` | 2 nodes, 2 reminders, an interval of 2 ticks, 3 requests, one change of view, one stopped scanner | schedules stand, calls are paced, what is due is taken |
| `reminders_cancelled` | the same with views and scanners undisturbed | **violated** `Forgotten` |
| `forward` | 2 hops, deadlines of 0, 1 and 2 ticks, a transport timeout of 3, one tick of flight | no late work but behind an eviction, failures are caught by name, callers end |

### What the violations show

* **Two activations of one identity in one process** (`runtime_double`). `_activated` awaits
  `_make_room()` between looking an identity up and publishing its record. Two callers of a cold
  identity both pass the lookup when the first has to evict; both publish, and the first
  record is overwritten, serves its caller, and is never deactivated. The comment at
  `runtime.py:657-660` says that there is no `await` there. It happens only with `max_activations`.
* **Leaving the runtime may never end** (`runtime_closehang`). `__aexit__` cancels the sweeper
  once and awaits it. When the sweeper stands at `await timer` in `_deactivate`,
  `suppress(CancelledError)` swallows that cancellation and the sweeper returns to its loop.
* **A cancelled reminder comes back** (`reminders_cancelled`). `fire_due_reminders` walks a list
  that is as old as the calls it has made from it, and puts `replace(reminder, ...)` of the list back
  (`runtime.py:806`). A periodic reminder that was cancelled meanwhile, or replaced by a
  one-shot of the same name, is in the store again and fires for ever.

### Other disagreements

These were met while modelling and have no configuration of their own. Each is
reproduced by checking the property named with the change of a configuration given.

* **A waiter served by a deactivated grain**: `ServedWhileOpen` in `runtime_open.cfg` with
  `Env = {"missing", "idle"}`. A waiter released by `ready.set()` is not counted until it runs.
  Normally the builder, which is counted in the same segment, protects it; a builder that asked for
  a method that does not exist leaves without being counted. If the activation took longer than
  `idle_seconds`, a `collect()` that runs between the two deactivates the grain, and the waiter's
  method then runs on it. `runtime.py:839-845` says that this cannot be. Also seen in the running
  code.
* **Leaving runs `deactivate()` under `activate()`**: `NoDeactivateUnderActivate` in
  `runtime_close.cfg`. `_drain` looks at `in_flight`, which is 0 while a grain activates;
  `runtime.py:977-982` says why that should not happen.
* **Leaving may leave a grain activated**: `CloseDeactivatesAll` in `runtime_close.cfg` with
  `"cancel"` or `"late"` added to `Env`, or with a bound. `__aexit__` walks a list made once
  (`runtime.py:969`); a waiter whose builder was cancelled, a call that comes later and a
  caller back from an eviction each publish a record after it. `runtime.py:954` says
  that everything still activated is deactivated.
* **The documented recovery stores an item twice**: `AddedOnce` in `state_copies.cfg` with
  `CopiesOnRead = FALSE`. The list of the docstring's Basket (`state.py:35-47`) is the stored row,
  so the append before a conflicting save is already in what `reload()` returns, and the loop
  appends again. Also seen in the running code.
* **A node that has emptied its table fills it again**: `NothingLeftBehind` in `fleet.cfg`.
  `__aexit__` leaves the membership last (`runtime.py:969-972`), so others still route here, a
  delivered call activates a grain, and nobody deactivates it.
* **`DeadlineExceeded` without a deadline that ran out**: `BlameIsEarned` in `forward.cfg`. Under
  any deadline, a `TimeoutError` that the grain raised itself becomes `DeadlineExceeded`
  (`runtime.py:422`), which `runtime.py:407-410` describes as the time allowed having run out. Also
  seen in the running code.
* **How long the dead are routed to.** `valkey.py:15-19` says up to one lease, fifteen seconds with
  the defaults. A snapshot is read once per heartbeat, so it is a lease and a round, which is
  a heartbeat and a read, the rest of a read that was under way, and a round more for every one the
  reader loses: `GoneInTime` states that bound, which is proved, and TLC refutes it without the
  rounds.
* **A value the codec cannot render** raises at `http.py:212`, after the `except` clauses whose comment
  (206-209) says that every failure is an answer. In `Forward` it is the answer "odd", which arrives
  as "garbled".
* **A deadline that strikes an eviction is lost**: `AlwaysOnTime` in `forward.cfg`. `asyncio.timeout`
  cancels a call once. A call that awaits the timers of the grain it evicts stands under
  `suppress(CancelledError)` (`runtime.py:894-896`), which takes that cancellation for the timer's;
  the method then starts, or goes on, and works past its deadline for a caller that has long been
  told `DeadlineExceeded`. `runtime.py:397-411` says that a deadline which runs out during the call
  ends it. `NoLateWork` is what remains, and `GrainRuntime` has the same choice in `Cancel`.
* **The wire goes by names**: `LostRacesAreRaces` in `forward.cfg`, both ways. `wire.py:149` sends
  `type(exc).__name__` and `wire.py:165` looks that name up. An application's own exception called
  `ConcurrentChange` is rebuilt as the package's, so a caller retries what was no lost race; a
  subclass of the package's arrives as `RemoteError`. `wire.py:14-18` and `61-71` say that the
  package's own exceptions cross as themselves and everybody else's as `RemoteError`.
  `FailuresCross` is what remains.
* **Two lost beats may be too many**: `TwoMayBeLost` in `lease.cfg`. `valkey.py:47-50` says that a
  heartbeat of a third of the lease survives two lost beats. `valkey.py:154` stores the lease cut to
  whole seconds, so the key may be gone before the third beat; and with the defaults, where
  nothing is cut, the third beat is due in the very instant in which the key of 15 seconds expires,
  and later by what the read before and the two failed round trips took.
* **A heartbeat that fits the lease need not fit the key**: `NoneLostBetweenBeats` in `lease.cfg` with
  `Second = 3`, `Lease = 5`, `Heartbeat = 4`. `__init__` compares the heartbeat with the lease that was
  asked for and not with the one that is stored, and allows nothing for the read between two beats; so a
  lease of 1.67 seconds and a heartbeat of 1.33 are accepted, the key lives for one second, and
  the node is out of the fleet before every beat. `valkey.py:82-90` and `tests/test_valkey.py:167` say that
  the check is there to prevent it. `StaysListed` says how much of the lease it takes.
* **The fleet goes over its bound beside idle grains**: `OverOnlyWhenBusy` in `runtime_bounded.cfg`. While
  one caller awaits its eviction, the table is one short; another caller finds room and publishes,
  its call ends, and the first publishes as well, beside a grain that could have been evicted.
  `runtime.py:760-765` says that the bound is exceeded only when every grain is answering. `FleetBounded`
  is the bound that holds.
* **A grain whose owner changes is not deactivated.** `src/README.md:121-123` and `ROADMAP.md:238-242` say
  that it is, and that calls in flight fail. Nothing in the code looks at activations when the
  members change: the old one goes on serving its calls and whatever nodes with an older view send
  it, beside the new one, until it goes idle. `SettlesOnOwners` and `OneViewOneOwner` say what that leaves.
* **A reminder may fire on two nodes.** `src/README.md:228-229`, `ROADMAP.md:252-256` and
  `runtime.py:786-790` say that it fires once and that two nodes cannot disagree about whose turn it is. They
  disagree while their snapshots do, and both fire; and two nodes whose lists overlap while the
  views change each fire from their own list. `Paced` is stated for as long as the views agree.
* **The scan interval does not bound lateness.** `runtime.py:248-250` and `ROADMAP.md:252-254` say that it is
  the worst lateness of a reminder. The scanner awaits each call before it goes to the next entry of its
  list, and the next scan is an interval after the last call; one slow handler delays all reminders of
  the node. `DueIsTaken` is therefore only eventual.

### Bounds, and why they are enough

Three callers are the smallest number for a builder, a waiter and an overtaker; two suffice
where the third would only repeat a role. Two identities tell the grain in question from another
one; three are needed for an order with a middle, and for an eviction that has a choice.
A build waits for a free record, so the number of records must not hide a behaviour: one per
identity in the table, one being torn down by each task that tears down at a time, and one that
has been replaced are 3 in the open runs and 4 in the bounded one. With `max_activations = 1`
every cold call races with an eviction. One schedule stands for all those of a
grain, because `_deactivate` treats each alike and in order. In `GrainState` every item is
asked for once, so the items bound the writes and the versions; two are enough for a version
to be given, cleared and given again while a handle holds the first.

In `lease` the lease is no whole number of seconds, so the stored key is shorter than what was asked
for, and two lost beats are enough to lose it, which leaves a third fault for the reader. The views
can only converge where a key outlives a round, `Heartbeat + Scan < KeyTicks` (3 < 6 here). Two
nodes are a reader and a node that is read of. With two, a read has one page, which may still fall
before or after every step of the other node; that a view of several pages matches no instant takes
three nodes, which do not fit into a run of the leases: `Membership` allows such views, the three
nodes of `fleet` route over them, and `LeasesImplementThePort` is proved for every number of nodes.
In `fleet` three nodes are the fewest with which a change of view has somebody who stayed and must
not be disturbed; two points each make the ring interleave and wrap, and the identity lies exactly
on a position that two nodes share. With one call in flight the views still diverge between its
routing and its delivery, and calls do not otherwise meet across nodes. In `reminders` both
reminders belong to one node while both nodes are members, so one list holds two entries and the
second grows stale; three requests are ask, cancel and ask again. In `forward` two hops are a first,
and one whose deadline came over the wire; 0 is a deadline that is over before the call, and `Span`
stays below `Patience` so that the range of all timers is one.

Symmetry is used only where no liveness is checked. Deadlock is checked except where
the system may stop: a runtime that has been left, a lease store all of whose nodes have gone, a chain of
calls that has ended.

### Fairness

The event loop runs each task that can run: weak fairness of each segment. `asyncio.Lock` is
first in, first out, so a caller in its queue gets it however often others take it in between:
strong fairness of `Acquire`. What a hook, a method or a tick awaits is assumed to come, since
nothing in the runtime bounds it; a drain ends because its grace does. In `GrainState` the
store answers what is awaited; a late write need never arrive. No fairness is given to the
environment: nobody has to call, cancel, fail or go idle.

In `LeaseMembership` time passes and a beat that is due is carried out or fails, for the beat is a
task of a running loop; `ViewsConverge` holds because faults and starts are bounded, so it
says what happens after the last of them. In `Fleet` beats, reads, deliveries and ends of calls go
on, a listing of a dead node lapses, and what stays idle is swept: `Collect` is enabled for as long
as an activation has no call, and the instance's nodes stop coming and going. That callers stop asking a
stray for its identity is not assumed; it follows from the views converging. In
`Reminders` a scanner scans when something due is its own and its calls end. In `Forward` only time
and timers are fair: no method has to return, and an answer need not arrive.

`RecoveryEnds` holds because each conflict is somebody else's successful write and the
instance has finitely many items; with competitors that never stop writing, one caller may
lose for ever, as with any optimistic scheme.

## 5. Assumptions of the models

* `idle_seconds` is not negative and longer than one turn of the event loop (`GoesIdle`), so a
  record made after a sweep took its cutoff is not past it.
* Factories do not suspend. Grain code raises `CancelledError` only when its task is
  cancelled, and does not swallow a cancellation; a tick that did would keep `_deactivate`
  waiting for ever.
* The task that leaves the runtime is not cancelled while it does.
* A request to the store is carried out at most once.
* `LeaseMembership`: the store expires a key when its time is over. A scan returns the keys that are
  there for all of it, as the store promises, and may or may not return those that come or go
  meanwhile; it returns no key that was there at no time during it. A scan takes at most `Scan`
  ticks. A lease shorter than one second is refused by the store (`KeyTicks > 0`).
* `Reminders`: all nodes read one clock. The code hands readings of each process's monotonic clock
  to a store that others share, which is harmless only in one process.
* `Forward`: timers fire in the tick in which they are due. A method makes one call. An eviction may
  take any time, since a schedule that is being cancelled may.

## 6. What is proved

What the modules `*_proofs` state holds for every value of the constants: every number of
callers, grains, records, handles, items, nodes, hops, and every hash, lease and interval.

For `GrainRuntime`, `TypeCorrect`, `OwnCancellationOnly`, `NobodyWaitsInVain` and `CountIsExact`
hold for every instance, bounded or not, closing or not. The argument goes up a chain of
invariants, each using the ones before it: `Types`; the references (a record in use by the
table, a caller or a deactivation belongs to an identity, and nothing refers to a free one); the
builders (each pending record has exactly one caller that activates it); the exact count; the
lock (whoever holds it is serving under that record, and who serves a turn-based grain holds
it). `InFlightExact` alone is not inductive: that a caller gives back a count of the record it took
it from needs the references, and that a forgotten record has none needs the count itself.

`OneActivation`, `NothingIsLost` and `TeardownIsQuiet` assume `MaxActivations = None`: then no
lookup is separated from its publication, and the invariant `TableSound` says that every record that
is pending or alive is the one in the table while the runtime is open. `runtime_double` shows that
the assumption is needed. `NoDeactivationUnderACall` and `TurnsAreTaken` assume in addition that no
call names a missing method; the late waiter of section 4 shows that this is needed too. Their
invariant adds that a record whose waiters have been released is either not idle or has its builder
counted.

`OneTurnPerRecord` is what the lock alone gives, and it assumes nothing: even with a bound, a
missing method or a shutdown, one record of a turn-based grain serves one call at a time. What
those break is therefore the table and not the lock.

`GrainRuntimeTable_proofs` goes on in five parts.

*The order.* `LeastRecentlyUsedGoes` holds for every bound and assumes methods that exist. The lemma
`OrderIsTotal` is that the model keeps `before` as an `OrderedDict` is, a strict total order of what is
in the table; `StepReorders` names the four things a step may do to it. The invariant is `Recent`: of
two entries the one that stands first was used first, or is in use by a call that will move it when
it ends. The second case is the entry that was replaced where it stood, and the call that is
in use there keeps it from being evicted. A missing method ends that use without a move, hence the
assumption, which section 3 shows to be needed.

*The bound.* `BoundIsNearlyKept` holds for every bound, with and without shutdown, and assumes
that finitely many identities have a schedule, as finitely many records do.
`FleetBounded` alone is not inductive: between an eviction and the publication it was for, the table
is one short of what it will be. The invariant `Room` counts `Load`, the table and the
callers that are evicting. A step lets the load fall, trades an entry for an evictor, settles that
trade, or adds an entry (`StepLoads`); it adds one only when the table is below its bound or when
everything in it is in use. In the first case the load is below the bound and the callers
evicting; in the second every entry is pending, has a call or has a tick, so it
is charged to a caller that is not the one adding, or to a schedule (`Listed`). Hence the
two disjuncts of the property, neither of which holds alone.

*Deactivated once.* `OneDeactivates` and `DeactivationGoesForward` assume nothing. Callers, the
sweeper and the shutdown all deactivate, and what keeps two of them off one record is only that each
takes it out of the table in the segment in which it begins (`runtime.py:889-891`); `Once` says so. A double
activation (`runtime_double`) does not break it, since the record that is overwritten is
never deactivated at all.

*One life per identity.* `RuntimeIsVirtualActor` is the refinement `ImplementsVirtualActor`, for no
bound, methods that exist and a runtime that is not left; `ActorsWhileOpen` says the same of every
step up to the one that leaves. The first step of the argument is `Seen`: what the table holds for
an identity decides its phase and whether it ticks, because of `TableSound` and because no
tick is ever interrupted while the runtime is open (`Calm`: the sweep takes no record with
a tick in flight). Then there is one lemma for each action, named for it and ending in
`Acts`. Each assumption is needed. With a bound an identity has two activations.
With a missing method the builder is refused without ever having been inside,
so a sweep may cool the identity before the waiters it released are let in, which then enter a
cold one: that is the late waiter of section 4. And the shutdown deactivates under calls once
its grace is over, which it says it does.

*Shutdown.* For `NothingIsLeftActivated` the invariant `Shutdown` is about the phases after `open`:
the sweeper ends before the drain, what is in the table is on the list of the shutdown, and a
deactivation that has begun is the sweeper's or the shutdown's. It assumes no bound and callers that
are not cancelled and do not call on; section 4 shows that each of these is needed.

For `GrainState`, `TypeCorrect`, `VersionsNameData`, `NothingConfirmedIsLost` and
`KeepsThePromise`. The invariant is `Agreement`: all the values anybody holds - the row, the
handles, the requests and answers under way, the late writes - agree wherever their versions
agree, and no version is beyond the store's counter. A write is the only step that makes a new
value and it gives it a new version, so `Agreement` is kept, and a write that finds
its version in the store replaces exactly the data it was computed from. `Once` adds that an
item under way is under way once and not in the state, from which each step is a step of
`AtomicState` or none; `NoLostUpdate` is then an invariant of the abstract specification.

For `StateInMemory`, `TypeCorrect` and `EachIsStoredOnce`, the latter for grains that copy what they
read, which is what the docstring's Basket does not do. `Typed` bounds the versions by the items
added. `Copies` says who may share a list with whom: no two activations, and with the store only the
one whose save was the last, which then has its version. So a list changed before a save that
conflicts is never the stored one, and who has the stored version has the stored content.
`TypeCorrect` assumes finitely many items, for its bound on the versions is their number.

For `Ring`, `OwnerIsMember` and `RingMovesAreMinimal`, in `Fleet_proofs`. The first says that
counting the points before an entry numbers them from 0 without gaps, so the entry that `bisect` and
the remainder ask for is there, whatever ties there are. The second compares two rings: the point
that decides an owner is the least one past the position, or the least of all; removing the points
of others does not change it, and adding points changes it only to one of those added. Nothing is
assumed of the hash, so this is no statement about balance.

For `Fleet`, `TypeCorrect`, `OneOwnerForAView` and `MovesOnlyWhatItMust`. The invariant is
`WellPlaced`: every activation, and every call on its way to one, stands where the view that routed
it puts it. It is inductive because `deliver` does not route again, and because every node is in its
own view, so that no view is empty; the latter is part of the type invariant of `Membership`.
`FleetKeepsToThePort` is the link of the composition: what a fleet does to the membership is what
the port allows. With `LeasesImplementThePort` below, the same port is what the leases provide.

For `LeaseMembership`, `TypeCorrect`, `ListedWhileItBeats`, `TheDeadAreForgotten` and
`LeasesImplementThePort`. The invariant is a budget: what a key has lost since it was written (`Fresh`)
is a read, one heartbeat per failed round and the part of the current sleep that is over; what a snapshot
has aged (`Aged`) is a read, a round per failed one and the part of the current one (`Behind`); what a page
has brought is no older than its scan (`Torn`); and a key outlives its node by what it had left
(`Fading`). `TheCutIsShort`, that cutting a lease takes less than a second of it, turns the budget of the
key into one of the lease asked for. The refinement is step by step: a beat is a renewal, a tick a lapse
of the keys that reach zero, a page a stutter, everything else the action of the same name or a
stutter. For the end of a read it needs `Scanned`: what the pages have brought is right about every node
that a page has come past and whose key has neither come nor gone since the read before, so the
snapshot is wrong only about nodes in `unsure`.

For `Reminders`, `TypeCorrect`, `ScheduleIsKept` and `CallsArePaced`. A scanner writes back copies, so
the invariant says of the lists what it says of the store (`ListFits`, `ListPaced`). For the pacing, a row of
the ask that fired last has at least as much time left as is missing to an interval since; a copy
of a row that fires is always one that was due when nobody else could take it, for as long
as the views agree.

The finding `Forgotten` says that a cancelled reminder may come back; two theorems say how far that
goes. `ComesBackFromAList`: only out of the list of a scanner that still holds a periodic copy of it.
`OneShotsStayForgotten`: so what was only ever asked for with `once` does not come back, since the
scanner puts no such row back. Their invariant, `OnlyPeriodic`, is about the lists as well.

For `Forward`, `TypeCorrect`, `NobodyWorksLate` and `FailuresAreTold`. `Budget` follows the first
deadline down the chain: the age of the chain and what a hop has left are together at most the first
deadline and one flight per hop. `Deafened` says of a method whose deadline has struck in vain that it has no
time left and is not waiting for another node: whatever it asks for next is refused with `left = 0`, so it
starts nothing beyond itself. `Told` says of every answer under way what `FailuresCross` says of
those that arrived.

## 7. What is only model-checked, and what is not modelled

Only model-checked: everything about liveness (`CallsEnd`, `IdleIsCollected`, `CloseTerminates`,
`RecoveryEnds`, `ViewsConverge`, `SettlesOnOwners`, `DueIsTaken`, `CallersEnd`), which the prover has no
rules for: it has none for `ENABLED`, nor therefore for fairness. The violations are TLC's
counterexamples. Every other property that a run checks is stated by a theorem. The refinement onto
`VirtualActor` is of its safety: that specification states no fairness.

Not modelled:

* Pools (`_route`): an index is added to the key, in turn, and nothing is promised about which. The
  identities of the other modules are those after it. A call that goes through `_route` twice, as a
  reminder of a pooled activation does, makes a pool within the pool; no state depends on it.
* Filters: code of the application around the dispatch. Their order is that of a list.
* The bytes of the wire codec, and the clients, addresses and headers of HTTP: pure conversions and
  input/output. What matters of them is in `Forward`.
* `StaticMembership`, which changes when a test says so, except as `Replace` of `Reminders`; and
  the loopback transport except for its unreachable nodes in `Fleet`.
* The typed references (a proxy over `call`), the conformance kit (assertions for
  implementers of the ports) and the benchmarks.
* The counters that `Runtime` exports as statistics and the log lines: nothing reads them back.
