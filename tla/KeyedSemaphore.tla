--------------------------- MODULE KeyedSemaphore ---------------------------
(***************************************************************************)
(* The in-process counting semaphore of one key (createKeyedSemaphore): its *)
(* entry and what acquire, a release and the end of a wait make of it.  An *)
(* idle entry and one dropped from the map are the same.                   *)
(***************************************************************************)
EXTENDS Naturals, Sequences

IdleEntry == [active |-> 0, waiters |-> <<>>]

Entry(call) == [active : Nat, waiters : Seq(call)]

\* Mutant: one slot too many.
HasRoomOffByOne(e, limit) == e.active <= limit

\* acquire: a slot is free, or a place in the queue.
HasRoom(e, limit) == e.active < limit
MayQueue(e, limit, maxQueue) == ~HasRoom(e, limit) /\ Len(e.waiters) < maxQueue

Take(e) == [e EXCEPT !.active = @ + 1]

Wait(e, c) == [e EXCEPT !.waiters = Append(@, c)]

\* indexOf and splice.
Without(q, c) ==
  IF \E i \in DOMAIN q : q[i] = c
  THEN LET at == CHOOSE i \in DOMAIN q : q[i] = c
       IN  [j \in 1..(Len(q) - 1) |-> q[IF j < at THEN j ELSE j + 1]]
  ELSE q

\* fail: the waiter timed out or was aborted and leaves the queue.
Leave(e, c) == [e EXCEPT !.waiters = Without(@, c)]

\* Mutant: the latest comer is served first.
Latest(e) == e.waiters[Len(e.waiters)]

\* Whose turn it is.
First(e) == Head(e.waiters)

\* Whom a release gives its slot to.
NextUp(e) == IF e.waiters = <<>> THEN {} ELSE {First(e)}

\* A release hands its slot over and the count stays, or nobody waits and the
\* slot is free.
Handoff(e) ==
  IF e.waiters # <<>> THEN Leave(e, First(e)) ELSE [e EXCEPT !.active = @ - 1]

=============================================================================
