------------------------ MODULE DistributedSemaphore ------------------------
(***************************************************************************)
(* The concurrency gate of one API key when several gateway replicas share *)
(* a PostgreSQL lease table: createDistributedKeyedSemaphore on each       *)
(* replica and the rows of api_key_concurrency_leases.                     *)
(*                                                                         *)
(* A request is one call of acquire() and, at the same time, the lease id  *)
(* drawn for it.  Time is counted in ticks and every instant is kept as    *)
(* its distance from now: lease[r] is how long the row of r still has to   *)
(* live on the database's clock, left[r] how far ahead the replica's own   *)
(* monotonic deadline for r is, and an age is how long ago an operation    *)
(* was started (counted up to Ttl).  The two clocks may disagree about the *)
(* time of day; they only have to run at the same rate.  No timer is       *)
(* punctual: each may fire arbitrarily late.                               *)
(***************************************************************************)
EXTENDS Naturals, Sequences, FiniteSets

CONSTANTS Replica,   \* gateway processes
          Request,   \* calls of acquire(), each with its lease id
          Home,      \* the replica each call is made on
          Limit,     \* args.limit: the key's concurrency_limit
          MaxQueue,  \* args.maxQueue
          Ttl,       \* leaseTtlMs, in ticks
          NoRequest  \* the request of a replica that is not polling

ASSUME ConstantsAssumption ==
  /\ IsFiniteSet(Request)
  /\ Home \in [Request -> Replica]
  /\ Limit \in Nat \ {0}
  /\ MaxQueue \in Nat
  /\ Ttl \in Nat \ {0}
  /\ NoRequest \notin Request

VARIABLES
  status,   \* replica -> "up", "stopping" (shutdown called) or "down"
  queue,    \* replica -> its waiters, in the order they came (queues)
  poll,     \* replica -> the processHead run in flight, if any (polls)
  retry,    \* replicas whose poll timer is armed (pollTimers)
  result,   \* request -> what its caller was told
  holder,   \* request -> life of the holder object (holders)
  left,     \* request -> ticks until its ownership deadline is due
  renewal,  \* request -> the renew() of its heartbeat in flight, if any
  lease     \* request -> ticks its database row lives on, 0: no live row

vars == <<status, queue, poll, retry, result, holder, left, renewal, lease>>

Status == {"up", "stopping", "down"}
\* "gave_up" stands for the reasons "timeout" and "aborted", "crashed" for the
\* call that died with its process.
Answer == {"none", "pending", "ok", "queue_full", "gave_up", "unavailable", "crashed"}
Failure == Answer \ {"none", "pending", "ok"}

\* "leaked": the manager has done all it will do for this lease, and the row
\* may still be there; it goes when it expires.
HolderState == {"none", "held", "releasing", "released", "leaked"}

Poll == [phase : {"idle", "sent", "won", "refused", "orphan"},
         req : Request \cup {NoRequest}, age : 0..Ttl]
Renewal == [phase : {"none", "sent", "ok", "rejected"}, age : 0..Ttl]

IdlePoll == [phase |-> "idle", req |-> NoRequest, age |-> 0]
NoRenewal == [phase |-> "none", age |-> 0]

-----------------------------------------------------------------------------
(* The lease table.                                                        *)

\* Rows that count against the limit: an expired row is as good as deleted,
\* since every statement compares expires_at with the database's clock.
Live == {r \in Request : lease[r] > 0}

\* The holders whose work may go on: not released, not told to stop, and
\* within the ownership deadline.
Owners == {r \in Request : holder[r] = "held" /\ left[r] > 0}

-----------------------------------------------------------------------------
(* Queues and polls.                                                       *)

\* removeWaiter: splice the waiter out of the queue.
Without(q, r) ==
  IF \E i \in DOMAIN q : q[i] = r
  THEN LET i == CHOOSE j \in DOMAIN q : q[j] = r
       IN  [j \in 1..(Len(q) - 1) |-> IF j < i THEN q[j] ELSE q[j + 1]]
  ELSE q

\* Resolving a promise: only the first answer counts.
Settle(r, answer) ==
  result' = [result EXCEPT ![r] = IF @ \in {"none", "pending"} THEN answer ELSE @]

IsHead(n, r) == queue[n] # <<>> /\ Head(queue[n]) = r

\* The poll a processHead run starts when the queue of n is q.
NextPoll(n, q) ==
  IF q # <<>> /\ status[n] = "up"
  THEN [phase |-> "sent", req |-> Head(q), age |-> 0]
  ELSE IdlePoll

\* processHead: one run at a time; a run cancels the poll timer.
ProcessHead(n, q) ==
  IF poll[n].phase = "idle"
  THEN /\ poll' = [poll EXCEPT ![n] = NextPoll(n, q)]
       /\ retry' = retry \ {n}
  ELSE UNCHANGED <<poll, retry>>

\* Mutant: the next waiter is left to whoever calls processHead next.
EndRunAndRest(n, q) ==
  /\ queue' = [queue EXCEPT ![n] = q]
  /\ poll' = [poll EXCEPT ![n] = IdlePoll]

\* The end of a run that does not retry: the next waiter is polled at once.
EndRun(n, q) ==
  /\ queue' = [queue EXCEPT ![n] = q]
  /\ poll' = [poll EXCEPT ![n] = NextPoll(n, q)]

\* Mutant: only a waiter that is alone is polled again.
MayRetryAlone(n) == Len(queue[n]) = 1

\* schedulePoll: a refused head keeps its place and is polled again later, for
\* as long as anyone waits.
MayRetry(n) == queue[n] # <<>>

\* Mutant: the reply is for whoever waits, provided the replica is up.
StaleIfStopped(n) == status[n] # "up"

\* The waiter of the reply is gone, or the replica shuts down.
Stale(n) == ~IsHead(n, poll[n].req) \/ status[n] # "up"

-----------------------------------------------------------------------------
(* acquire() and the waiters.                                              *)

Acquire(r) ==
  LET n == Home[r]
      q == Append(queue[n], r)
  IN  /\ result[r] = "none"
      /\ \/ /\ status[n] = "stopping"
            /\ Settle(r, "unavailable")
            /\ UNCHANGED <<queue, poll, retry>>
         \/ /\ status[n] = "up"
            /\ Len(queue[n]) > MaxQueue
            /\ Settle(r, "queue_full")
            /\ UNCHANGED <<queue, poll, retry>>
         \/ /\ status[n] = "up"
            /\ Len(queue[n]) <= MaxQueue
            /\ Settle(r, "pending")
            /\ queue' = [queue EXCEPT ![n] = q]
            /\ IF queue[n] = <<>> THEN ProcessHead(n, q) ELSE UNCHANGED <<poll, retry>>
      /\ UNCHANGED <<status, holder, left, renewal, lease>>

\* The waiter's timeout fires or its caller's signal aborts (fail).
GiveUp(r) ==
  LET n == Home[r]
      q == Without(queue[n], r)
  IN  /\ result[r] = "pending"
      /\ Settle(r, "gave_up")
      /\ queue' = [queue EXCEPT ![n] = q]
      /\ ProcessHead(n, q)
      /\ UNCHANGED <<status, holder, left, renewal, lease>>

\* The poll timer fires.
RetryPoll(n) ==
  /\ n \in retry
  /\ ProcessHead(n, queue[n])
  /\ UNCHANGED <<status, queue, result, holder, left, renewal, lease>>

-----------------------------------------------------------------------------
(* tryAcquire() and what the run does with its reply.                      *)

\* The transaction commits: under the key's row lock it drops expired rows,
\* counts the others and inserts one if they are fewer than the limit.
PollCommit(n) ==
  LET r == poll[n].req
  IN  /\ poll[n].phase = "sent"
      /\ IF Cardinality(Live) < Limit
         THEN /\ lease' = [lease EXCEPT ![r] = Ttl]
              /\ poll' = [poll EXCEPT ![n].phase = "won"]
         ELSE /\ poll' = [poll EXCEPT ![n] = [@ EXCEPT !.phase = "refused", !.age = 0]]
              /\ UNCHANGED lease
      /\ UNCHANGED <<status, queue, retry, result, holder, left, renewal>>

\* tryAcquire() throws, before or after the transaction committed; nobody
\* then deletes a row it left.
PollError(n) ==
  LET r == poll[n].req
      head == IsHead(n, r)
  IN  /\ poll[n].phase \in {"sent", "won", "refused"}
      /\ EndRun(n, IF head THEN Without(queue[n], r) ELSE queue[n])
      /\ IF head THEN Settle(r, "unavailable") ELSE UNCHANGED result
      /\ holder' = IF poll[n].phase = "won" THEN [holder EXCEPT ![r] = "leaked"] ELSE holder
      /\ UNCHANGED <<status, retry, left, renewal, lease>>

\* The reply says that the key is at its limit.
PollRefused(n) ==
  LET r == poll[n].req
  IN  /\ poll[n].phase = "refused"
      /\ \/ /\ Stale(n)
            /\ EndRun(n, queue[n])
            /\ UNCHANGED <<retry, result>>
         \/ /\ ~Stale(n)
            /\ MaxQueue = 0
            /\ EndRun(n, Without(queue[n], r))
            /\ Settle(r, "queue_full")
            /\ UNCHANGED retry
         \/ /\ ~Stale(n)
            /\ MaxQueue # 0
            /\ poll' = [poll EXCEPT ![n] = IdlePoll]
            /\ retry' = IF MayRetry(n) THEN retry \cup {n} ELSE retry
            /\ UNCHANGED <<queue, result>>
      /\ UNCHANGED <<status, holder, left, renewal, lease>>

\* Mutant: counted from the reply.
RemainingFromReply(age) == Ttl

\* How long the caller may own a lease whose acquire or renew was started
\* `age` ticks ago: counted from the start of the operation, not its reply.
Remaining(age) == Ttl - age

\* The reply says that the lease was inserted, and the waiter is still there:
\* it becomes a holder.  If the reply took the whole Ttl, armOwnershipDeadline
\* aborts the signal and releases before the caller even sees it.
PollGranted(n) ==
  LET r == poll[n].req
      remaining == Remaining(poll[n].age)
  IN  /\ poll[n].phase = "won"
      /\ ~Stale(n)
      /\ EndRun(n, Without(queue[n], r))
      /\ Settle(r, "ok")
      /\ left' = [left EXCEPT ![r] = remaining]
      /\ holder' = [holder EXCEPT ![r] = IF remaining > 0 THEN "held" ELSE "releasing"]
      /\ UNCHANGED <<status, retry, renewal, lease>>

\* Mutant: nothing is done about the row.
PollOrphanForgotten(n) ==
  /\ poll[n].phase = "won"
  /\ Stale(n)
  /\ EndRun(n, queue[n])
  /\ UNCHANGED <<status, retry, result, holder, left, renewal, lease>>

\* The same reply for a waiter that is gone: the row is an orphan, and the run
\* goes on to delete it.
PollOrphaned(n) ==
  /\ poll[n].phase = "won"
  /\ Stale(n)
  /\ poll' = [poll EXCEPT ![n] = [@ EXCEPT !.phase = "orphan", !.age = 0]]
  /\ UNCHANGED <<status, queue, retry, result, holder, left, renewal, lease>>

\* The orphan's release() returns, or throws and is only logged.
OrphanReleased(n) ==
  LET r == poll[n].req
  IN  /\ poll[n].phase = "orphan"
      /\ \/ /\ lease' = [lease EXCEPT ![r] = 0]
            /\ holder' = [holder EXCEPT ![r] = "released"]
         \/ /\ holder' = [holder EXCEPT ![r] = "leaked"]
            /\ UNCHANGED lease
      /\ EndRun(n, queue[n])
      /\ UNCHANGED <<status, retry, result, left, renewal>>

-----------------------------------------------------------------------------
(* A holder: heartbeat, deadline, release.                                 *)

\* loseOwnership: the caller's signal aborts and the lease is released.
LoseOwnership(r) ==
  /\ holder' = [holder EXCEPT ![r] = "releasing"]
  /\ left' = [left EXCEPT ![r] = 0]

\* Mutant: the interval is not cleared when the holder is released.
HeartbeatForever(r) ==
  /\ holder[r] \in {"held", "leaked"}
  /\ renewal[r].phase = "none"
  /\ renewal' = [renewal EXCEPT ![r].phase = "sent"]
  /\ UNCHANGED <<status, queue, poll, retry, result, holder, left, lease>>

\* The heartbeat fires and no renew() is in flight.
Heartbeat(r) ==
  /\ holder[r] = "held"
  /\ renewal[r].phase = "none"
  /\ renewal' = [renewal EXCEPT ![r].phase = "sent"]
  /\ UNCHANGED <<status, queue, poll, retry, result, holder, left, lease>>

\* Mutant: the UPDATE does not look at expires_at.
RenewCommitExpired(r) ==
  /\ renewal[r].phase = "sent"
  /\ lease' = [lease EXCEPT ![r] = Ttl]
  /\ renewal' = [renewal EXCEPT ![r].phase = "ok"]
  /\ UNCHANGED <<status, queue, poll, retry, result, holder, left>>

\* The UPDATE of renew(): it finds only a row that has not expired.
RenewCommit(r) ==
  /\ renewal[r].phase = "sent"
  /\ IF lease[r] > 0
     THEN /\ lease' = [lease EXCEPT ![r] = Ttl]
          /\ renewal' = [renewal EXCEPT ![r].phase = "ok"]
     ELSE /\ renewal' = [renewal EXCEPT ![r] = [@ EXCEPT !.phase = "rejected", !.age = 0]]
          /\ UNCHANGED lease
  /\ UNCHANGED <<status, queue, poll, retry, result, holder, left>>

\* The reply of renew(); a released holder ignores it.
RenewReply(r) ==
  LET remaining == Remaining(renewal[r].age)
  IN  /\ renewal[r].phase \in {"ok", "rejected"}
      /\ renewal' = [renewal EXCEPT ![r] = NoRenewal]
      /\ \/ /\ holder[r] # "held"
            /\ UNCHANGED <<holder, left>>
         \/ /\ holder[r] = "held"
            /\ renewal[r].phase = "ok" /\ remaining > 0
            /\ left' = [left EXCEPT ![r] = remaining]
            /\ UNCHANGED <<holder>>
         \/ /\ holder[r] = "held"
            /\ ~(renewal[r].phase = "ok" /\ remaining > 0)
            /\ LoseOwnership(r)
      /\ UNCHANGED <<status, queue, poll, retry, result, lease>>

\* renew() throws, before or after the UPDATE.
RenewError(r) ==
  /\ renewal[r].phase # "none"
  /\ renewal' = [renewal EXCEPT ![r] = NoRenewal]
  /\ IF holder[r] = "held" THEN LoseOwnership(r) ELSE UNCHANGED <<holder, left>>
  /\ UNCHANGED <<status, queue, poll, retry, result, lease>>

\* The ownership deadline's timer fires.
OwnershipDeadline(r) ==
  /\ holder[r] = "held"
  /\ left[r] = 0
  /\ LoseOwnership(r)
  /\ UNCHANGED <<status, queue, poll, retry, result, renewal, lease>>

\* The caller calls release(): its work is over.
Release(r) ==
  /\ holder[r] = "held"
  /\ holder' = [holder EXCEPT ![r] = "releasing"]
  /\ left' = [left EXCEPT ![r] = 0]
  /\ UNCHANGED <<status, queue, poll, retry, result, renewal, lease>>

\* The store's release() returns, or throws and is only logged; either way the
\* holder is gone and the queue's head is polled.
ReleaseDone(r) ==
  /\ holder[r] = "releasing"
  /\ \/ /\ lease' = [lease EXCEPT ![r] = 0]
        /\ holder' = [holder EXCEPT ![r] = "released"]
     \/ /\ holder' = [holder EXCEPT ![r] = "leaked"]
        /\ UNCHANGED lease
  /\ ProcessHead(Home[r], queue[Home[r]])
  /\ UNCHANGED <<status, queue, result, left, renewal>>

-----------------------------------------------------------------------------
(* Shutdown, crash, restart, time.                                         *)

At(n) == {r \in Request : Home[r] = n}

\* shutdown(), up to its first await: every waiter is told "unavailable".
Shutdown(n) ==
  /\ status[n] = "up"
  /\ status' = [status EXCEPT ![n] = "stopping"]
  /\ retry' = retry \ {n}
  /\ result' = [r \in Request |->
                  IF r \in At(n) /\ result[r] = "pending" THEN "unavailable" ELSE result[r]]
  /\ queue' = [queue EXCEPT ![n] = <<>>]
  /\ UNCHANGED <<poll, holder, left, renewal, lease>>

\* shutdown() has awaited the run in flight and releases every holder.
ShutdownRelease(n) ==
  LET held == {r \in At(n) : holder[r] = "held"}
  IN  /\ status[n] = "stopping"
      /\ poll[n].phase = "idle"
      /\ held # {}
      /\ holder' = [r \in Request |-> IF r \in held THEN "releasing" ELSE holder[r]]
      /\ left' = [r \in Request |-> IF r \in held THEN 0 ELSE left[r]]
      /\ UNCHANGED <<status, queue, poll, retry, result, renewal, lease>>

\* The process is gone: what it was waiting for is forgotten.
Gone(n) ==
  /\ status' = [status EXCEPT ![n] = "down"]
  /\ renewal' = [r \in Request |-> IF r \in At(n) THEN NoRenewal ELSE renewal[r]]

\* shutdown() returns when all releases have returned, and the process ends.
Exit(n) ==
  /\ status[n] = "stopping"
  /\ poll[n].phase = "idle"
  /\ \A r \in At(n) : holder[r] \notin {"held", "releasing"}
  /\ Gone(n)
  /\ UNCHANGED <<queue, poll, retry, result, holder, left, lease>>

\* The process dies: its work and its calls die with it, its rows stay.
Crash(n) ==
  LET orphan == IF poll[n].phase \in {"won", "orphan"} THEN {poll[n].req} ELSE {}
  IN  /\ status[n] # "down"
      /\ Gone(n)
      /\ queue' = [queue EXCEPT ![n] = <<>>]
      /\ poll' = [poll EXCEPT ![n] = IdlePoll]
      /\ retry' = retry \ {n}
      /\ result' = [r \in Request |->
                      IF r \in At(n) /\ result[r] = "pending" THEN "crashed" ELSE result[r]]
      /\ holder' = [r \in Request |->
                      IF r \in At(n) /\ (holder[r] \in {"held", "releasing"} \/ r \in orphan)
                      THEN "leaked" ELSE holder[r]]
      /\ left' = [r \in Request |-> IF r \in At(n) THEN 0 ELSE left[r]]
      /\ UNCHANGED <<lease>>

\* A new process takes the replica's place, with nothing in memory.
Restart(n) ==
  /\ status[n] = "down"
  /\ status' = [status EXCEPT ![n] = "up"]
  /\ UNCHANGED <<queue, poll, retry, result, holder, left, renewal, lease>>

Older(age) == IF age < Ttl THEN age + 1 ELSE Ttl
Sooner(t) == IF t > 0 THEN t - 1 ELSE 0

Tick ==
  /\ lease' = [r \in Request |-> Sooner(lease[r])]
  /\ left' = [r \in Request |-> Sooner(left[r])]
  /\ poll' = [n \in Replica |->
                IF poll[n].phase \in {"sent", "won"}
                THEN [poll[n] EXCEPT !.age = Older(poll[n].age)] ELSE poll[n]]
  /\ renewal' = [r \in Request |->
                   IF renewal[r].phase \in {"sent", "ok"}
                   THEN [renewal[r] EXCEPT !.age = Older(renewal[r].age)] ELSE renewal[r]]
  /\ UNCHANGED <<status, queue, retry, result, holder>>

-----------------------------------------------------------------------------
Init ==
  /\ status = [n \in Replica |-> "up"]
  /\ queue = [n \in Replica |-> <<>>]
  /\ poll = [n \in Replica |-> IdlePoll]
  /\ retry = {}
  /\ result = [r \in Request |-> "none"]
  /\ holder = [r \in Request |-> "none"]
  /\ left = [r \in Request |-> 0]
  /\ renewal = [r \in Request |-> NoRenewal]
  /\ lease = [r \in Request |-> 0]

Next ==
  \/ \E r \in Request :
       \/ Acquire(r) \/ GiveUp(r)
       \/ Heartbeat(r) \/ RenewCommit(r) \/ RenewReply(r) \/ RenewError(r)
       \/ OwnershipDeadline(r) \/ Release(r) \/ ReleaseDone(r)
  \/ \E n \in Replica :
       \/ RetryPoll(n) \/ PollCommit(n) \/ PollError(n) \/ PollRefused(n)
       \/ PollGranted(n) \/ PollOrphaned(n) \/ OrphanReleased(n)
       \/ Shutdown(n) \/ ShutdownRelease(n) \/ Exit(n) \/ Crash(n) \/ Restart(n)
  \/ Tick

Spec == Init /\ [][Next]_vars

(* Fairness: a database call returns or throws, a timer that is due fires,  *)
(* a caller finishes its work, and time passes.  Nothing makes a waiter     *)
(* give up, a replica stop, crash or restart, or a heartbeat fire.          *)
PollStep(n) ==
  \/ PollCommit(n) \/ PollError(n) \/ PollRefused(n)
  \/ PollGranted(n) \/ PollOrphaned(n) \/ OrphanReleased(n)

Fairness ==
  /\ WF_vars(Tick)
  /\ \A n \in Replica : WF_vars(PollStep(n)) /\ WF_vars(RetryPoll(n))
  /\ \A r \in Request :
       /\ WF_vars(RenewCommit(r) \/ RenewReply(r) \/ RenewError(r))
       /\ WF_vars(OwnershipDeadline(r))
       /\ WF_vars(Release(r))
       /\ WF_vars(ReleaseDone(r))

FairSpec == Spec /\ Fairness

-----------------------------------------------------------------------------
(* Properties.                                                             *)

TypeOK ==
  /\ status \in [Replica -> Status]
  /\ queue \in [Replica -> Seq(Request)]
  /\ poll \in [Replica -> Poll]
  /\ retry \in SUBSET Replica
  /\ result \in [Request -> Answer]
  /\ holder \in [Request -> HolderState]
  /\ left \in [Request -> 0..Ttl]
  /\ renewal \in [Request -> Renewal]
  /\ lease \in [Request -> 0..Ttl]

\* The limit is cluster-wide: over all replicas, no more than Limit callers own
\* a lease they have not released, were not told to drop, and whose deadline
\* has not passed, although deadlines are kept by each replica's own clock and
\* expiry by the database's.
OwnersWithinLimit == Cardinality(Owners) <= Limit

\* A replica that has waiters never sleeps on them: its head is being polled or
\* a poll timer is armed (the stranding schedulePoll's comment warns of).
QueueServed ==
  \A n \in Replica :
    status[n] = "up" /\ queue[n] # <<>> => poll[n].phase # "idle" \/ n \in retry

\* No slot is lost silently: a live row belongs to a holder of a live process,
\* or to a run that will turn it into one or delete it, or is one that the
\* manager knowingly left to expire (the store threw, or the process died).
RowsAccountedFor ==
  \A r \in Live :
    \/ holder[r] \in {"held", "releasing"} /\ status[Home[r]] # "down"
    \/ poll[Home[r]].phase \in {"won", "orphan"} /\ poll[Home[r]].req = r
    \/ holder[r] = "leaked"

\* A call that was told it failed never becomes a holder, however late the
\* store's reply is: nobody would ever release it.
NoHolderForFailedCall ==
  \A r \in Request : result[r] \in Failure => holder[r] \notin {"held", "releasing"}

\* The replicas together implement the cluster's limit.
CL == INSTANCE ClusterLimit WITH Call <- Request, slots <- Live, owners <- Owners
ImplementsClusterLimit == CL!Spec

\* Every waiter is answered even if no wait timeout ever fires, provided the
\* callers ahead of it finish.
WaiterAnswered == \A r \in Request : result[r] = "pending" ~> result[r] # "pending"

\* No row occupies its slot for ever, whatever happened to its holder.
RowGoesAway == \A r \in Request : lease[r] > 0 ~> lease[r] = 0

=============================================================================
