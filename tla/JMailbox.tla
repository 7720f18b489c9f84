------------------------------ MODULE JMailbox ------------------------------
(***************************************************************************)
(* One LocalQueue of a JMailbox: a bounded queue and the slots in it that  *)
(* its users have reserved.  Every method holds the queue's mutex from     *)
(* start to end, so each is one operator on the struct.                    *)
(***************************************************************************)
EXTENDS Integers, Sequences

CONSTANTS
    Capacity,      \* m_capacity
    SizeModulus    \* size_t arithmetic is modulo this (2^64 in the code)

ASSUME CapacityAssumption ==
    /\ Capacity \in Nat \ {0}
    /\ SizeModulus \in Nat
    /\ Capacity < SizeModulus

LocalQueue(Item) == [queue : Seq(Item), reserved_count : Nat]

EmptyQueue == [queue |-> <<>>, reserved_count |-> 0]

\* size_t subtraction.
SizeSub(x, y) == IF y <= x THEN x - y ELSE x - y + SizeModulus

\* How many items pop() and pop_and_reserve() take.
pop_count(m, min, max) ==
    IF Len(m.queue) < min THEN 0 ELSE IF Len(m.queue) < max THEN Len(m.queue) ELSE max

popped(m, n) == SubSeq(m.queue, 1, n)

\* The slots of the n items taken stay reserved, so that a revert fits.
pop_and_reserve(m, n) ==
    [queue          |-> SubSeq(m.queue, n + 1, Len(m.queue)),
     reserved_count |-> m.reserved_count + n]

AvailableIgnoringReserved(m) == SizeSub(Capacity, Len(m.queue))

available_count(m) == SizeSub(SizeSub(Capacity, Len(m.queue)), m.reserved_count)

\* What reserve(min, max) returns.
reserve_count(m, min, max) ==
    LET count == IF available_count(m) < max THEN available_count(m) ELSE max
    IN  IF count < min THEN 0 ELSE count

reserve(m, n) == [m EXCEPT !.reserved_count = @ + n]

\* The two assertions at the head of push_and_unreserve().
PushAllowed(m, count, reserved) ==
    /\ reserved <= m.reserved_count
    /\ Len(m.queue) + count <= Capacity

\* pop() without a reservation.
pop(m, n) == [m EXCEPT !.queue = SubSeq(@, n + 1, Len(@))]

PushWithoutUnreserve(m, items, reserved) == [m EXCEPT !.queue = @ \o items]

push_and_unreserve(m, items, reserved) ==
    [queue          |-> m.queue \o items,
     reserved_count |-> SizeSub(m.reserved_count, reserved)]

=============================================================================
