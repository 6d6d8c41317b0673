----------------------------- MODULE StateInMemory -----------------------------
(***************************************************************************)
(* The in-memory store of src/src/nigrains/state.py and the lists that     *)
(* grains keep in it, as OBJECTS.  InMemoryStateStore stores the object    *)
(* it is given and hands out the object it has, so a grain that goes on    *)
(* changing its list in place changes the stored row with it.              *)
(*                                                                         *)
(* No operation of this store suspends, so one call of a grain, recovery   *)
(* loop included, is one step.  The grain is the Basket whose recovery the *)
(* docstring of state.py gives; CopiesOnRead is the difference between     *)
(* that text and the Basket of tests/test_state.py.                        *)
(***************************************************************************)
EXTENDS Naturals, FiniteSets

CONSTANTS
    Handle,          \* activations of one grain that are alive at once
    Item,            \* what is added; each item is added by one call
    Object,          \* list objects
    CopiesOnRead,    \* the grain works on list(data) rather than on data
    None

ASSUME ObjectsAssumption ==
    /\ None \notin Object
    /\ CopiesOnRead \in BOOLEAN

VARIABLES
    content,         \* object -> how often each item is in it
    row,             \* the object in the store and its version; no object, 0: no row
    next,            \* _next
    items,           \* activation -> the list it works on, None while not activated
    version,         \* activation -> GrainState.version, 0 for None
    added, erased    \* history: the items added, and those that were cleared

vars == <<content, row, next, items, version, added, erased>>

Empty == [i \in Item |-> 0]

\* An object nobody refers to: its content is of no account.
Free == Object \ ({row.object} \union {items[h] : h \in Handle})

TypeOK ==
    /\ content \in [Object -> [Item -> 0..2]]
    /\ row \in [object : Object \union {None}, version : 0..Cardinality(Item)]
    /\ (row.object = None) = (row.version = 0)
    /\ next \in 0..Cardinality(Item)
    /\ items \in [Handle -> Object \union {None}]
    /\ version \in [Handle -> 0..Cardinality(Item)]
    /\ added \subseteq Item /\ erased \subseteq Item

Init ==
    /\ content = [o \in Object |-> Empty]
    /\ row = [object |-> None, version |-> 0]
    /\ next = 0
    /\ items = [h \in Handle |-> None]
    /\ version = [h \in Handle |-> 0]
    /\ added = {} /\ erased = {}

-----------------------------------------------------------------------------
\* Fault: list() is left out, and the grain works on the object the store handed out.
OpenedItself(heap) ==
    IF row.object = None
    THEN {<<o, [heap EXCEPT ![o] = Empty]>> : o \in Free}
    ELSE {<<row.object, heap>>}

\* What a read leaves the grain with, <<its list, the heap>>: a new list when nothing was
\* stored ("or []"), else the object that is stored or a copy of it.
Opened(heap) ==
    IF row.object = None
    THEN {<<o, [heap EXCEPT ![o] = Empty]>> : o \in Free}
    ELSE IF CopiesOnRead
    THEN {<<o, [heap EXCEPT ![o] = heap[row.object]]>> : o \in Free}
    ELSE {<<row.object, heap>>}

Activate(h) ==
    /\ items[h] = None
    /\ \E opened \in Opened(content) :
        /\ items' = [items EXCEPT ![h] = opened[1]]
        /\ content' = opened[2]
    /\ version' = [version EXCEPT ![h] = row.version]
    /\ UNCHANGED <<row, next, added, erased>>

Deactivate(h) ==
    /\ items[h] # None
    /\ items' = [items EXCEPT ![h] = None]
    /\ version' = [version EXCEPT ![h] = 0]
    /\ UNCHANGED <<content, row, next, added, erased>>

\* Fault: the version is given before it is counted up.
AppendAndSaveEarly(h, i, o, heap) ==
    /\ content' = [heap EXCEPT ![o][i] = @ + 1]
    /\ next' = next + 1
    /\ row' = [object |-> o, version |-> next]
    /\ items' = [items EXCEPT ![h] = o]
    /\ version' = [version EXCEPT ![h] = next]

\* i is appended to o, and saving o succeeds: the row refers to the object itself.
AppendAndSave(h, i, o, heap) ==
    /\ content' = [heap EXCEPT ![o][i] = @ + 1]
    /\ next' = next + 1
    /\ row' = [object |-> o, version |-> next + 1]
    /\ items' = [items EXCEPT ![h] = o]
    /\ version' = [version EXCEPT ![h] = next + 1]

\* Fault: the version is not compared.
AddUnchecked(h, i) ==
    /\ items[h] # None
    /\ i \notin added
    /\ AppendAndSave(h, i, items[h], content)
    /\ added' = added \union {i}
    /\ UNCHANGED erased

\* add(): the item is appended and the list saved.  On a conflict the item has been
\* appended all the same; the list is read again, the item is appended to that, and the
\* second save finds the version that was just read.
Add(h, i) ==
    /\ items[h] # None
    /\ i \notin added
    /\ \/ /\ version[h] = row.version
          /\ AppendAndSave(h, i, items[h], content)
       \/ /\ version[h] # row.version
          /\ \E opened \in Opened([content EXCEPT ![items[h]][i] = @ + 1]) :
                AppendAndSave(h, i, opened[1], opened[2])
    /\ added' = added \union {i}
    /\ UNCHANGED erased

\* forget(): the row goes and the grain starts a new list; on a conflict nothing changes.
Clear(h) ==
    /\ items[h] # None
    /\ version[h] = row.version
    /\ erased' = IF row.object = None
                 THEN erased
                 ELSE erased \union {i \in Item : content[row.object][i] > 0}
    /\ row' = [object |-> None, version |-> 0]
    /\ version' = [version EXCEPT ![h] = 0]
    /\ \E o \in Free :
        /\ items' = [items EXCEPT ![h] = o]
        /\ content' = [content EXCEPT ![o] = Empty]
    /\ UNCHANGED <<next, added>>

Next ==
    \E h \in Handle :
        \/ Activate(h)
        \/ Deactivate(h)
        \/ Clear(h)
        \/ \E i \in Item : Add(h, i)

Spec == Init /\ [][Next]_vars

-----------------------------------------------------------------------------
(****************************** Correctness ********************************)

\* An item that was added is in the state once, until it is cleared: what "reloads,
\* re-applies what it was doing, and writes again" (ConcurrentChange) comes to.
AddedOnce ==
    \A i \in added \ erased : row.object # None /\ content[row.object][i] = 1

=============================================================================
