----------------------------- MODULE UnfoldFold -----------------------------
(***************************************************************************)
(* Hierarchical events: a JUnfoldArrow takes a parent event and emits      *)
(* children that refer to it, the lower level's tap processes them, and a  *)
(* JFoldArrow takes each child's reference away and recycles the parent    *)
(* with the last one.  The topology is the one JTopologyBuilder wires up:  *)
(*                                                                         *)
(*   parent pool -> source, map -> parent_in -> unfold -> child_out ->     *)
(*   child tap -> child_in -> fold -> child pool                           *)
(*                                 -> parent_out -> parent tap -> parent pool *)
(*                                                                         *)
(* or, without processors at the parent's level, fold -> parent pool.      *)
(* Unfold and fold are sequential arrows, so each is one process here, in  *)
(* steps of one PlaceRef operation.  The arrows around them are            *)
(* JPipelineArrows (module JPipelineArrow) and appear with a pull step and *)
(* a push step only.                                                       *)
(*                                                                         *)
(* As in JScheduler, a definition that directly precedes another and       *)
(* differs from it in one place is a faulty variant no specification uses. *)
(***************************************************************************)
EXTENDS JMailbox, FiniteSets

CONSTANTS
    ParentItems,     \* the items vector of the parents' pool
    ChildItems,      \* the items vector of the children's pool
    TapWorkers,      \* the workers of the children's tap, a parallel arrow
    MaxChildren,     \* bound on the children of one parent
    None

Here == 0            \* the one location

PP == INSTANCE JPool WITH Locations <- {Here}, Items <- [l \in {Here} |-> ParentItems],
                          HeapEvents <- {}, LimitInFlight <- TRUE

CP == INSTANCE JPool WITH Locations <- {Here}, Items <- [l \in {Here} |-> ChildItems],
                          HeapEvents <- {}, LimitInFlight <- TRUE

Parents == PP!PoolEvents

Children == CP!PoolEvents

\* Each pool's items are distinct memory, and the tap has finitely many workers.
ASSUME HierarchyAssumption ==
    /\ PP!PoolAssumption /\ CP!PoolAssumption
    /\ IsFiniteSet(TapWorkers)
    /\ Parents \cap Children = {}
    /\ None \notin Parents \cup Children
    /\ MaxChildren \in Nat \ {0}

Queues == {"parent_in", "child_out", "child_in", "parent_out"}

VARIABLES
    mailbox,         \* queue -> LocalQueue
    parent_pool,
    child_pool,
    source_data,     \* the parent between pull and push of source and map, or None
    tap_data,        \* tap worker -> the child between its pull and push, or None
    parent_tap_data, \* the parent between pull and push of the parents' tap, or None
    unfold,          \* the JUnfoldArrow: its step, its Data, m_parent_event, ...
    fold,            \* the JFoldArrow: its step and its Data
    parent_of,       \* child -> mParents, a parent or None
    refs             \* parent -> mReferenceCount

vars == <<mailbox, parent_pool, child_pool, source_data, tap_data, parent_tap_data,
          unfold, fold, parent_of, refs>>

Opt(S) == S \cup {None}

UnfoldArrow ==
    [step         : {"parent_in", "child_in", "child_out", "return_parent", "return_child",
                     "unfold", "release", "push_parent", "push_out", "threw"},
     parent_in    : Opt(Parents),        \* parent_in_data.items[0]
     parent_slot  : 0 .. 1,              \* parent_in_data.reserve_count
     child        : Opt(Children),       \* the child, in child_in_data or child_out_data
     out_slot     : 0 .. 1,              \* child_out_data.reserve_count
     parent_event : Opt(Parents),        \* m_parent_event
     ready        : BOOLEAN,             \* m_ready_to_fetch_parent
     child_number : 0 .. MaxChildren,    \* m_child_number of the unfolder
     last         : BOOLEAN]             \* DoUnfold() is done with the parent

FoldArrow ==
    [step        : {"child_in", "parent_out", "release", "push_in", "push_child",
                    "push_parent", "threw"},
     child       : Opt(Children),
     child_slot  : 0 .. 1,               \* child_in_data.reserve_count
     parent      : Opt(Parents),         \* parent_out_data.items[0]
     parent_slot : 0 .. 1,               \* parent_out_data.reserve_count
     is_queue    : BOOLEAN]              \* m_parent_out.is_queue

Init ==
    /\ mailbox = [q \in Queues |-> EmptyQueue]
    /\ parent_pool = PP!InitialPool
    /\ child_pool = CP!InitialPool
    /\ source_data = None
    /\ tap_data = [w \in TapWorkers |-> None]
    /\ parent_tap_data = None
    /\ unfold = [step |-> "parent_in", parent_in |-> None, parent_slot |-> 0, child |-> None,
                 out_slot |-> 0, parent_event |-> None, ready |-> TRUE, child_number |-> 0,
                 last |-> FALSE]
    /\ \E is_queue \in BOOLEAN :
          fold = [step |-> "child_in", child |-> None, child_slot |-> 0, parent |-> None,
                  parent_slot |-> 0, is_queue |-> is_queue]
    /\ parent_of = [c \in Children |-> None]
    /\ refs = [p \in Parents |-> 1]

-----------------------------------------------------------------------------
(* JEvent's reference count and JEventPool.                                *)

\* put() on the parents' pool: release_item() resets the reference count.
Recycle(p) ==
    /\ parent_pool' = PP!put(parent_pool, Here, p)
    /\ refs' = [refs EXCEPT ![p] = 1]

SetParentUncounted(c, p) == parent_of' = [parent_of EXCEPT ![c] = p] /\ UNCHANGED refs

SetParent(c, p) ==
    /\ parent_of' = [parent_of EXCEPT ![c] = p]
    /\ refs' = [refs EXCEPT ![p] = @ + 1]

\* The value that fetch_sub() returned says that the parent is shared no more.
LastRef(p) == refs[p] = 1

\* Takes n items off the head of a queue, or no item if there are fewer.
Takes(q, n) == mailbox' = [mailbox EXCEPT ![q] = pop_and_reserve(@, n)]

Reserves(q, n) == mailbox' = [mailbox EXCEPT ![q] = reserve(@, n)]

Pushes(q, items, n) == mailbox' = [mailbox EXCEPT ![q] = push_and_unreserve(@, items, n)]

ItemsOf(e) == IF e = None THEN <<>> ELSE <<e>>

-----------------------------------------------------------------------------
(* The pipeline arrows around them.                                        *)

\* Source and map move a parent from the pool towards the unfold arrow.
SourcePull ==
    /\ source_data = None
    /\ reserve_count(mailbox["parent_in"], 1, 1) = 1
    /\ \E p \in PP!poppable(parent_pool, Here) :
          /\ source_data' = p
          /\ parent_pool' = PP!pool_pop(parent_pool, Here, p)
    /\ Reserves("parent_in", 1)
    /\ UNCHANGED <<child_pool, tap_data, parent_tap_data, unfold, fold, parent_of, refs>>

SourcePush ==
    /\ source_data # None
    /\ Pushes("parent_in", <<source_data>>, 1)
    /\ source_data' = None
    /\ UNCHANGED <<parent_pool, child_pool, tap_data, parent_tap_data, unfold, fold,
                   parent_of, refs>>

\* A worker of the children's tap.
TapPull(w) ==
    /\ tap_data[w] = None
    /\ pop_count(mailbox["child_out"], 1, 1) = 1
    /\ reserve_count(mailbox["child_in"], 1, 1) = 1
    /\ tap_data' = [tap_data EXCEPT ![w] = Head(mailbox["child_out"].queue)]
    /\ mailbox' = [mailbox EXCEPT !["child_out"] = pop_and_reserve(@, 1),
                                  !["child_in"] = reserve(@, 1)]
    /\ UNCHANGED <<parent_pool, child_pool, source_data, parent_tap_data, unfold, fold,
                   parent_of, refs>>

TapPush(w) ==
    /\ tap_data[w] # None
    /\ tap_data' = [tap_data EXCEPT ![w] = None]
    /\ mailbox' = [mailbox EXCEPT !["child_out"] = push_and_unreserve(@, <<>>, 1),
                                  !["child_in"] = push_and_unreserve(@, <<tap_data[w]>>, 1)]
    /\ UNCHANGED <<parent_pool, child_pool, source_data, parent_tap_data, unfold, fold,
                   parent_of, refs>>

ParentTapPull ==
    /\ parent_tap_data = None
    /\ pop_count(mailbox["parent_out"], 1, 1) = 1
    /\ parent_tap_data' = Head(mailbox["parent_out"].queue)
    /\ Takes("parent_out", 1)
    /\ UNCHANGED <<parent_pool, child_pool, source_data, tap_data, unfold, fold, parent_of,
                   refs>>

ParentTapPush ==
    /\ parent_tap_data # None
    /\ Pushes("parent_out", <<>>, 1)
    /\ Recycle(parent_tap_data)
    /\ parent_tap_data' = None
    /\ UNCHANGED <<child_pool, source_data, tap_data, unfold, fold, parent_of>>

-----------------------------------------------------------------------------
(* JUnfoldArrow::execute().                                                *)

aroundUnfold == <<source_data, tap_data, parent_tap_data, fold>>

\* m_parent_in.pull(): its item counts are 0 while a parent is being unfolded.
\* (Empty-handed, the arrow gives up and is back where it started.)
UnfoldPullParent ==
    /\ unfold.step = "parent_in"
    /\ LET want == IF unfold.ready THEN 1 ELSE 0
           m == mailbox["parent_in"]
       IN  /\ pop_count(m, want, want) >= want
           /\ Takes("parent_in", want)
           /\ unfold' = [unfold EXCEPT !.step = "child_in",
                                       !.parent_in = IF want = 1 THEN Head(m.queue) ELSE None,
                                       !.parent_slot = want]
    /\ UNCHANGED <<parent_pool, child_pool, parent_of, refs, aroundUnfold>>

UnfoldPullChild ==
    /\ unfold.step = "child_in"
    /\ \/ \E c \in CP!poppable(child_pool, Here) :
             /\ child_pool' = CP!pool_pop(child_pool, Here, c)
             /\ unfold' = [unfold EXCEPT !.step = "child_out", !.child = c]
       \/ /\ CP!pop_fails(child_pool, Here)
          /\ unfold' = [unfold EXCEPT !.step = "return_parent"]
          /\ UNCHANGED child_pool
    /\ UNCHANGED <<mailbox, parent_pool, parent_of, refs, aroundUnfold>>

UnfoldPullOut ==
    /\ unfold.step = "child_out"
    /\ LET n == reserve_count(mailbox["child_out"], 1, 1)
       IN  /\ Reserves("child_out", n)
           /\ unfold' = [unfold EXCEPT !.step = IF n = 1 THEN "unfold" ELSE "return_parent",
                                       !.out_slot = n]
    /\ UNCHANGED <<parent_pool, child_pool, parent_of, refs, aroundUnfold>>

\* try_pull_all() fails: m_parent_in.push() ...
UnfoldReturnParent ==
    /\ unfold.step = "return_parent"
    /\ Pushes("parent_in", ItemsOf(unfold.parent_in), unfold.parent_slot)
    /\ unfold' = [unfold EXCEPT !.step = IF unfold.child = None THEN "parent_in" ELSE "return_child",
                                !.parent_in = None, !.parent_slot = 0]
    /\ UNCHANGED <<parent_pool, child_pool, parent_of, refs, aroundUnfold>>

\* ... and m_child_in.push(), if there is a child.
UnfoldReturnChild ==
    /\ unfold.step = "return_child"
    /\ child_pool' = CP!put(child_pool, Here, unfold.child)
    /\ unfold' = [unfold EXCEPT !.step = "parent_in", !.child = None]
    /\ UNCHANGED <<mailbox, parent_pool, parent_of, refs, aroundUnfold>>

AfterReleasingLate(s) ==
    [unfold |-> "push_parent", push_parent |-> "push_out", push_out |-> "release",
     release |-> "parent_in"][s]

\* The order of the steps once everything has been pulled.
After(s) ==
    [unfold |-> "release", release |-> "push_parent", push_parent |-> "push_out",
     push_out |-> "parent_in"][s]

ChildNumberKept(last) == unfold.child_number + 1

\* m_child_number counts the children of one parent.
NextChildNumber(last) == IF last THEN 0 ELSE unfold.child_number + 1

\* DoUnfold() and SetParent().  DoUnfold() answers NextChildKeepParent, or one of
\* NextChildNextParent and KeepChildNextParent, which execute() treats alike.
Unfold(last) ==
    /\ unfold.step = "unfold"
    /\ last \/ unfold.child_number + 1 < MaxChildren
    /\ LET p == IF unfold.ready THEN unfold.parent_in ELSE unfold.parent_event
       IN  IF p # None /\ parent_of[unfold.child] = None
           THEN /\ SetParent(unfold.child, p)
                /\ unfold' = [unfold EXCEPT !.step = After("unfold"), !.parent_in = None,
                                            !.parent_event = p, !.ready = FALSE, !.last = last,
                                            !.child_number = NextChildNumber(last)]
           ELSE /\ unfold' = [unfold EXCEPT !.step = "threw"]
                /\ UNCHANGED <<parent_of, refs>>
    /\ UNCHANGED <<mailbox, parent_pool, child_pool, aroundUnfold>>

UnfoldReleaseNotReady ==
    /\ unfold.step = "release"
    /\ IF unfold.last
       THEN /\ unfold' = [unfold EXCEPT !.step = After("release"), !.parent_event = None,
                                        !.last = FALSE]
            /\ refs' = [refs EXCEPT ![unfold.parent_event] = @ - 1]
       ELSE /\ unfold' = [unfold EXCEPT !.step = After("release")]
            /\ UNCHANGED refs
    /\ UNCHANGED <<mailbox, parent_pool, child_pool, parent_of, aroundUnfold>>

UnfoldReleaseToQueue ==
    /\ unfold.step = "release"
    /\ unfold' = IF unfold.last
                 THEN [unfold EXCEPT !.step = After("release"), !.parent_event = None,
                                     !.parent_in = unfold.parent_event, !.ready = TRUE,
                                     !.last = FALSE]
                 ELSE [unfold EXCEPT !.step = After("release")]
    /\ UNCHANGED <<mailbox, parent_pool, child_pool, parent_of, refs, aroundUnfold>>

\* The unfolder is done with the parent and gives up its own reference.
UnfoldRelease ==
    /\ unfold.step = "release"
    /\ IF unfold.last
       THEN /\ unfold' = [unfold EXCEPT !.step = After("release"), !.parent_event = None,
                                        !.ready = TRUE, !.last = FALSE]
            /\ refs' = [refs EXCEPT ![unfold.parent_event] = @ - 1]
       ELSE /\ unfold' = [unfold EXCEPT !.step = After("release")]
            /\ UNCHANGED refs
    /\ UNCHANGED <<mailbox, parent_pool, child_pool, parent_of, aroundUnfold>>

UnfoldPushNoParent ==
    /\ unfold.step = "push_parent"
    /\ unfold' = [unfold EXCEPT !.step = After("push_parent"), !.parent_slot = 0]
    /\ UNCHANGED <<mailbox, parent_pool, child_pool, parent_of, refs, aroundUnfold>>

\* push_all(): the parent's Data, which has no item any more, only the slot; the
\* Data of the child's pool, which is empty; the child.
UnfoldPushParent ==
    /\ unfold.step = "push_parent"
    /\ Pushes("parent_in", ItemsOf(unfold.parent_in), unfold.parent_slot)
    /\ unfold' = [unfold EXCEPT !.step = After("push_parent"), !.parent_in = None,
                                !.parent_slot = 0]
    /\ UNCHANGED <<parent_pool, child_pool, parent_of, refs, aroundUnfold>>

UnfoldPushOut ==
    /\ unfold.step = "push_out"
    /\ Pushes("child_out", <<unfold.child>>, unfold.out_slot)
    /\ unfold' = [unfold EXCEPT !.step = After("push_out"), !.child = None, !.out_slot = 0]
    /\ UNCHANGED <<parent_pool, child_pool, parent_of, refs, aroundUnfold>>

-----------------------------------------------------------------------------
(* JFoldArrow::execute().                                                  *)

aroundFold == <<source_data, tap_data, parent_tap_data, unfold>>

\* m_child_in.pull(); then m_child_out.pull(), which needs nothing of a pool.
FoldPullChild ==
    /\ fold.step = "child_in"
    /\ pop_count(mailbox["child_in"], 1, 1) = 1
    /\ Takes("child_in", 1)
    /\ fold' = [fold EXCEPT !.step = "parent_out", !.child_slot = 1,
                            !.child = Head(mailbox["child_in"].queue)]
    /\ UNCHANGED <<parent_pool, child_pool, parent_of, refs, aroundFold>>

\* m_parent_out.pull(): when there is no slot, execute() returns, and its Data
\* goes out of scope with the child and the child's slot.
FoldPullParent ==
    /\ fold.step = "parent_out"
    /\ LET n == IF fold.is_queue THEN reserve_count(mailbox["parent_out"], 1, 1) ELSE 0
       IN  /\ Reserves("parent_out", n)
           /\ fold' = IF n = 0 /\ fold.is_queue
                      THEN [fold EXCEPT !.step = "child_in", !.child = None, !.child_slot = 0]
                      ELSE [fold EXCEPT !.step = "release", !.parent_slot = n]
    /\ UNCHANGED <<parent_pool, child_pool, parent_of, refs, aroundFold>>

\* ReleaseParent().
FoldRelease ==
    /\ fold.step = "release"
    /\ LET p == parent_of[fold.child]
       IN  IF p # None /\ refs[p] >= 1
           THEN /\ parent_of' = [parent_of EXCEPT ![fold.child] = None]
                /\ refs' = [refs EXCEPT ![p] = @ - 1]
                /\ fold' = [fold EXCEPT !.step = "push_in", !.parent = IF LastRef(p) THEN p ELSE None]
           ELSE /\ fold' = [fold EXCEPT !.step = "threw"]
                /\ UNCHANGED <<parent_of, refs>>
    /\ UNCHANGED <<mailbox, parent_pool, child_pool, aroundFold>>

FoldPushIn ==
    /\ fold.step = "push_in"
    /\ Pushes("child_in", <<>>, fold.child_slot)
    /\ fold' = [fold EXCEPT !.step = "push_child", !.child_slot = 0]
    /\ UNCHANGED <<parent_pool, child_pool, parent_of, refs, aroundFold>>

FoldPushChild ==
    /\ fold.step = "push_child"
    /\ child_pool' = CP!put(child_pool, Here, fold.child)
    /\ fold' = [fold EXCEPT !.step = "push_parent", !.child = None]
    /\ UNCHANGED <<mailbox, parent_pool, parent_of, refs, aroundFold>>

FoldPushParent ==
    /\ fold.step = "push_parent"
    /\ IF fold.is_queue
       THEN /\ Pushes("parent_out", ItemsOf(fold.parent), fold.parent_slot)
            /\ UNCHANGED <<parent_pool, refs>>
       ELSE /\ IF fold.parent = None THEN UNCHANGED <<parent_pool, refs>> ELSE Recycle(fold.parent)
            /\ UNCHANGED mailbox
    /\ fold' = [fold EXCEPT !.step = "child_in", !.parent = None, !.parent_slot = 0]
    /\ UNCHANGED <<child_pool, parent_of, aroundFold>>

Next ==
    \/ SourcePull \/ SourcePush \/ ParentTapPull \/ ParentTapPush
    \/ \E w \in TapWorkers : TapPull(w) \/ TapPush(w)
    \/ UnfoldPullParent \/ UnfoldPullChild \/ UnfoldPullOut
    \/ UnfoldReturnParent \/ UnfoldReturnChild
    \/ \E last \in BOOLEAN : Unfold(last)
    \/ UnfoldRelease \/ UnfoldPushParent \/ UnfoldPushOut
    \/ FoldPullChild \/ FoldPullParent \/ FoldRelease
    \/ FoldPushIn \/ FoldPushChild \/ FoldPushParent

Spec == Init /\ [][Next]_vars

-----------------------------------------------------------------------------
(* Properties.                                                             *)

\* Every variable keeps its type.
TypeOK ==
    /\ mailbox \in [Queues -> LocalQueue(Parents \cup Children)]
    /\ parent_pool \in PP!Pool
    /\ child_pool \in CP!Pool
    /\ source_data \in Opt(Parents)
    /\ tap_data \in [TapWorkers -> Opt(Children)]
    /\ parent_tap_data \in Opt(Parents)
    /\ unfold \in UnfoldArrow
    /\ fold \in FoldArrow
    /\ parent_of \in [Children -> Opt(Parents)]
    /\ refs \in [Parents -> Int]

In(q, e) == {i \in DOMAIN mailbox[q].queue : mailbox[q].queue[i] = e}

Kids(p) == {c \in Children : parent_of[c] = p}

\* Where a parent is while its own reference lasts.
Before(p) ==
    {<<"pool", i>> : i \in {i \in DOMAIN parent_pool.available[Here] : parent_pool.available[Here][i] = p}}
    \cup {<<"parent_in", i>> : i \in In("parent_in", p)}
    \cup {x \in {"source"} : source_data = p}
    \cup {x \in {"unfold_data"} : unfold.parent_in = p}
    \cup {x \in {"unfold"} : unfold.parent_event = p}

\* Where it is once its last child is gone.
Afterwards(p) ==
    {x \in {"fold"} : fold.parent = p}
    \cup {<<"parent_out", i>> : i \in In("parent_out", p)}
    \cup {x \in {"parent_tap"} : parent_tap_data = p}

ChildPlaces(c) ==
    {<<"pool", i>> : i \in {i \in DOMAIN child_pool.available[Here] : child_pool.available[Here][i] = c}}
    \cup {<<"child_out", i>> : i \in In("child_out", c)}
    \cup {<<"child_in", i>> : i \in In("child_in", c)}
    \cup {<<"tap", w>> : w \in {w \in TapWorkers : tap_data[w] = c}}
    \cup {x \in {"unfold"} : unfold.child = c}
    \cup {x \in {"fold"} : fold.child = c}

\* mReferenceCount is the parent's own reference, which lasts until the unfold
\* arrow releases it, and one for each child in flight.
RefCountExact ==
    \A p \in Parents :
        refs[p] = Cardinality(Kids(p)) + IF Before(p) # {} THEN 1 ELSE 0

\* No event is lost and none is in two places: a parent is upstream of the fold
\* arrow, or on its way back from it, or alive through its children only; a child
\* is in exactly one place.
FamilyConserved ==
    /\ \A p \in Parents :
          LET n == Cardinality(Before(p)) + Cardinality(Afterwards(p))
          IN  n = 1 \/ (n = 0 /\ Kids(p) # {})
    /\ \A c \in Children : Cardinality(ChildPlaces(c)) = 1

\* The exceptions in the two arrows and in JEvent never fire: no child has a
\* parent already, no child comes without one, no count goes negative.
NeverThrows == unfold.step # "threw" /\ fold.step # "threw"

\* What JMailbox::reserve() asks of its callers "to avoid a 'reservation leak'":
\* each reserved slot is one that an arrow still holds.
SlotsHeld(q) ==
    CASE q = "parent_in"  -> unfold.parent_slot + IF source_data # None THEN 1 ELSE 0
      [] q = "child_out"  -> unfold.out_slot + Cardinality({w \in TapWorkers : tap_data[w] # None})
      [] q = "child_in"   -> fold.child_slot + Cardinality({w \in TapWorkers : tap_data[w] # None})
      [] q = "parent_out" -> fold.parent_slot + IF parent_tap_data # None THEN 1 ELSE 0

NoReservationLeak == \A q \in Queues : mailbox[q].reserved_count = SlotsHeld(q)

\* Where a parent is in its life, and the children it has.
Stage == [p \in Parents |-> IF unfold.parent_event = p THEN "open"
                            ELSE IF Before(p) # {} THEN "free" ELSE "closed"]

Families == [p \in Parents |-> Kids(p)]

\* Reference counting implements the life of a family in module EventHierarchy:
\* a parent is not unfolded again, and not recycled, while a child refers to it.
H == INSTANCE EventHierarchy WITH stage <- Stage, kids <- Families

HierarchySpec == H!Spec

=============================================================================
