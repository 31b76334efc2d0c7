---------------------------- MODULE DeferredWrites ----------------------------
(***************************************************************************)
(* What the deferred write queue promises: an item is turned away when it  *)
(* is handed over, or it is accepted and then settled, once; tasks run in  *)
(* the order in which they were handed over; and who closes the queue and  *)
(* flushes it finds nothing left in it until it is opened again.  How      *)
(* buffers, batches, waiting calls and drains keep the promise is the      *)
(* subject of WriteQueue, which implements this module.                    *)
(***************************************************************************)
EXTENDS Naturals, Sequences

CONSTANTS
  Item,    \* what is handed over
  Task,    \* the items that have to run in order
  Poison   \* the items that cannot succeed

VARIABLES
  fate,    \* item -> what has become of it
  order,   \* the tasks that were accepted, in the order in which they came
  mode,    \* whether the queue is open, paused or stopped
  flushed  \* whoever closed it was told that it is empty

vars == <<fate, order, mode, flushed>>

Fate == {"new", "away", "accepted", "done", "failed"}
Over == {"done", "failed"}

Init ==
  /\ fate = [i \in Item |-> "new"]
  /\ order = <<>>
  /\ mode = "open" /\ flushed = FALSE

\* The queue is closed, or too many wait.
TurnAway(i) ==
  /\ fate[i] = "new"
  /\ fate' = [fate EXCEPT ![i] = "away"]
  /\ UNCHANGED <<order, mode, flushed>>

Accept(i) ==
  /\ fate[i] = "new" /\ mode = "open"
  /\ fate' = [fate EXCEPT ![i] = "accepted"]
  /\ order' = IF i \in Task THEN Append(order, i) ELSE order
  /\ UNCHANGED <<mode, flushed>>

\* Rows are written, in any order; only what cannot succeed fails.
Write(rows) ==
  /\ \A i \in rows : fate[i] = "accepted"
  /\ \E lost \in SUBSET (rows \cap Poison) :
       fate' = [i \in Item |-> IF i \in lost THEN "failed"
                               ELSE IF i \in rows THEN "done" ELSE fate[i]]
  /\ UNCHANGED <<order, mode, flushed>>

\* A task runs after every task that came before it.
Run(k) ==
  /\ fate[order[k]] = "accepted"
  /\ \A j \in 1..(k - 1) : fate[order[j]] \in Over
  /\ fate' = [fate EXCEPT ![order[k]] = IF order[k] \in Poison THEN "failed" ELSE "done"]
  /\ UNCHANGED <<order, mode, flushed>>

\* A maintenance pass begins or is over; the gateway shuts down.
Close(how) ==
  /\ mode = "open" \/ how = "stopped"
  /\ mode' = how
  /\ UNCHANGED <<fate, order, flushed>>

Open ==
  /\ mode = "paused"
  /\ mode' = "open" /\ flushed' = FALSE
  /\ UNCHANGED <<fate, order>>

Flush ==
  /\ mode # "open" /\ \A i \in Item : fate[i] # "accepted"
  /\ flushed' = TRUE
  /\ UNCHANGED <<fate, order, mode>>

Next ==
  \/ \E i \in Item : TurnAway(i) \/ Accept(i)
  \/ \E rows \in SUBSET (Item \ Task) : Write(rows)
  \/ \E k \in DOMAIN order : Run(k)
  \/ \E how \in {"paused", "stopped"} : Close(how)
  \/ Open \/ Flush

Spec == Init /\ [][Next]_vars

=============================================================================
