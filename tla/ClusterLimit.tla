---------------------------- MODULE ClusterLimit ----------------------------
(***************************************************************************)
(* What the distributed concurrency gate promises for one API key, seen    *)
(* from the whole cluster: a limit of Limit slots, each occupied by one    *)
(* call, and the calls that own a slot, that is, the calls whose work may  *)
(* go on.  How replicas, polls, heartbeats and deadlines keep the promise  *)
(* is the subject of DistributedSemaphore, which implements this module.   *)
(***************************************************************************)
EXTENDS Naturals, FiniteSets

CONSTANTS Call,   \* the calls of DistributedKeyedSemaphore.acquire
          Limit   \* the key's concurrency_limit

VARIABLES slots,  \* calls that occupy a slot of the key
          owners  \* calls allowed to work on the strength of their slot

vars == <<slots, owners>>

Init ==
  /\ slots = {}
  /\ owners = {}

\* A call takes a free slot.
Occupy(c) ==
  /\ c \notin slots
  /\ Cardinality(slots) < Limit
  /\ slots' = slots \cup {c}
  /\ UNCHANGED owners

\* A call learns that the slot is its own.
Own(c) ==
  /\ c \in slots
  /\ owners' = owners \cup {c}
  /\ UNCHANGED slots

\* Slots are given up or expire; nobody goes on owning a slot that is gone.
Vacate ==
  /\ slots' \in SUBSET slots
  /\ owners' \in SUBSET (owners \cap slots')

Next ==
  \/ \E c \in Call : Occupy(c) \/ Own(c)
  \/ Vacate

Spec == Init /\ [][Next]_vars

=============================================================================
