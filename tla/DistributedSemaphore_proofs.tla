--------------------- MODULE DistributedSemaphore_proofs ---------------------
(***************************************************************************)
(* For every number of replicas and calls, every limit and every Ttl: the  *)
(* typing of DistributedSemaphore, its inductive invariant, and from it    *)
(* that the owners of all replicas together stay within the limit, and     *)
(* that nobody and nothing is forgotten.                                   *)
(***************************************************************************)
EXTENDS DistributedSemaphore, FiniteSetTheorems, TLAPS

-----------------------------------------------------------------------------
(* The queue operators.                                                    *)

\* splice removes one occurrence and keeps the order: the result is a sequence
\* of the same calls, one shorter when the call was there.
LEMMA WithoutType ==
  ASSUME NEW q \in Seq(Request), NEW r \in Request
  PROVE  /\ Without(q, r) \in Seq(Request)
         /\ \A k \in DOMAIN Without(q, r) : \E j \in DOMAIN q : Without(q, r)[k] = q[j]
<1>1. CASE \E i \in DOMAIN q : q[i] = r
  <2> DEFINE i == CHOOSE j \in DOMAIN q : q[j] = r
  <2>1. i \in DOMAIN q /\ q[i] = r
    BY <1>1
  <2>2. Without(q, r) = [j \in 1..(Len(q) - 1) |-> IF j < i THEN q[j] ELSE q[j + 1]]
    BY <1>1 DEF Without
  <2> HIDE DEF i
  <2>3. QED BY <2>1, <2>2
<1>2. CASE ~ \E i \in DOMAIN q : q[i] = r
  BY <1>2 DEF Without
<1>3. QED BY <1>1, <1>2

LEMMA NextPollType ==
  ASSUME TypeOK, NEW n \in Replica, NEW q \in Seq(Request)
  PROVE  NextPoll(n, q) \in Poll
<1>1. Ttl \in Nat BY ConstantsAssumption
<1>2. CASE q # <<>> /\ status[n] = "up"
  <2>1. Head(q) \in Request BY <1>2
  <2>2. QED BY <1>1, <1>2, <2>1 DEF NextPoll, Poll
<1>3. CASE ~(q # <<>> /\ status[n] = "up")
  BY <1>1, <1>3 DEF NextPoll, IdlePoll, Poll
<1>4. QED BY <1>2, <1>3

LEMMA ProcessHeadType ==
  ASSUME TypeOK, NEW n \in Replica, NEW q \in Seq(Request), ProcessHead(n, q)
  PROVE  poll' \in [Replica -> Poll] /\ retry' \in SUBSET Replica
<1>1. NextPoll(n, q) \in Poll BY NextPollType
<1>2. QED BY <1>1 DEF ProcessHead, TypeOK

LEMMA EndRunType ==
  ASSUME TypeOK, NEW n \in Replica, NEW q \in Seq(Request), EndRun(n, q)
  PROVE  queue' \in [Replica -> Seq(Request)] /\ poll' \in [Replica -> Poll]
<1>1. NextPoll(n, q) \in Poll BY NextPollType
<1>2. QED BY <1>1 DEF EndRun, TypeOK

LEMMA SettleType ==
  ASSUME TypeOK, NEW r, NEW a \in Answer, Settle(r, a)
  PROVE  result' \in [Request -> Answer]
BY DEF Settle, TypeOK

LEMMA LoseOwnershipType ==
  ASSUME TypeOK, NEW r \in Request, LoseOwnership(r)
  PROVE  holder' \in [Request -> HolderState] /\ left' \in [Request -> 0..Ttl]
<1>1. 0 \in 0..Ttl BY ConstantsAssumption
<1>2. holder' \in [Request -> HolderState]
  BY DEF LoseOwnership, TypeOK, HolderState
<1>3. left' \in [Request -> 0..Ttl]
  BY <1>1 DEF LoseOwnership, TypeOK
<1>4. QED BY <1>2, <1>3

\* Every variable keeps its type in every step.
THEOREM TypeCorrect == Spec => []TypeOK
<1>1. Init => TypeOK
  BY ConstantsAssumption DEF Init, TypeOK, Status, IdlePoll, Poll, Answer, HolderState,
     NoRenewal, Renewal
<1>2. TypeOK /\ [Next]_vars => TypeOK'
  <2> SUFFICES ASSUME TypeOK, [Next]_vars PROVE TypeOK'
    OBVIOUS
  <2> USE ConstantsAssumption
  <2>0. /\ \A r \in Request : Home[r] \in Replica /\ queue[Home[r]] \in Seq(Request)
        /\ \A n \in Replica : queue[n] \in Seq(Request) /\ poll[n] \in Poll
        /\ {"none", "pending", "ok", "queue_full", "gave_up", "unavailable", "crashed"} = Answer
        /\ 0 \in 0..Ttl /\ Ttl \in 0..Ttl
        /\ IdlePoll \in Poll /\ NoRenewal \in Renewal
    BY DEF TypeOK, Answer, IdlePoll, Poll, NoRenewal, Renewal
  <2>1. ASSUME NEW r \in Request, Acquire(r) PROVE TypeOK'
    <3>1. Append(queue[Home[r]], r) \in Seq(Request) BY <2>0
    <3>2. /\ queue' \in [Replica -> Seq(Request)]
          /\ poll' \in [Replica -> Poll] /\ retry' \in SUBSET Replica
      <4>1. CASE UNCHANGED <<queue, poll, retry>> BY <4>1 DEF TypeOK
      <4>2. CASE /\ queue' = [queue EXCEPT ![Home[r]] = Append(queue[Home[r]], r)]
                 /\ \/ ProcessHead(Home[r], Append(queue[Home[r]], r))
                    \/ UNCHANGED <<poll, retry>>
        <5>1. poll' \in [Replica -> Poll] /\ retry' \in SUBSET Replica
          <6>1. CASE ProcessHead(Home[r], Append(queue[Home[r]], r))
            BY <2>0, <3>1, <6>1, ProcessHeadType
          <6>2. CASE UNCHANGED <<poll, retry>> BY <6>2 DEF TypeOK
          <6>3. QED BY <4>2, <6>1, <6>2
        <5>2. queue' \in [Replica -> Seq(Request)] BY <2>0, <3>1, <4>2 DEF TypeOK
        <5>3. QED BY <5>1, <5>2
      <4>3. QED BY <2>1, <4>1, <4>2 DEF Acquire
    <3>3. result' \in [Request -> Answer]
      BY <2>0, <2>1, SettleType DEF Acquire
    <3>4. QED BY <2>1, <3>2, <3>3 DEF Acquire, TypeOK
  <2>2. ASSUME NEW r \in Request, GiveUp(r) PROVE TypeOK'
    <3>1. Without(queue[Home[r]], r) \in Seq(Request) BY <2>0, WithoutType
    <3>2. poll' \in [Replica -> Poll] /\ retry' \in SUBSET Replica
      BY <2>0, <2>2, <3>1, ProcessHeadType DEF GiveUp
    <3>3. result' \in [Request -> Answer]
      BY <2>0, <2>2, SettleType DEF GiveUp
    <3>4. QED BY <2>2, <3>1, <3>2, <3>3 DEF GiveUp, TypeOK
  <2>3. ASSUME NEW r \in Request, Heartbeat(r) PROVE TypeOK'
    BY <2>3 DEF Heartbeat, TypeOK, Renewal
  <2>4. ASSUME NEW r \in Request, RenewCommit(r) PROVE TypeOK'
    <3>1. lease' \in [Request -> 0..Ttl] BY <2>0, <2>4 DEF RenewCommit, TypeOK
    <3>2. renewal' \in [Request -> Renewal]
      <4>1. renewal[r] \in Renewal BY DEF TypeOK
      <4>2. /\ [renewal[r] EXCEPT !.phase = "ok"] \in Renewal
            /\ [renewal[r] EXCEPT !.phase = "rejected", !.age = 0] \in Renewal
        BY <2>0, <4>1 DEF Renewal
      <4>3. QED BY <2>4, <4>2 DEF RenewCommit, TypeOK
    <3>3. QED BY <2>4, <3>1, <3>2 DEF RenewCommit, TypeOK
  <2>5. ASSUME NEW r \in Request, RenewReply(r) PROVE TypeOK'
    <3>1. renewal' \in [Request -> Renewal] BY <2>0, <2>5 DEF RenewReply, TypeOK
    <3>2. renewal[r].age \in 0..Ttl BY DEF TypeOK, Renewal
    <3>3. Remaining(renewal[r].age) \in 0..Ttl BY <3>2 DEF Remaining
    <3>4. left' \in [Request -> 0..Ttl]
      BY <2>0, <2>5, <3>3 DEF RenewReply, TypeOK, LoseOwnership
    <3>5. holder' \in [Request -> HolderState]
      BY <2>5 DEF RenewReply, TypeOK, LoseOwnership, HolderState
    <3>6. QED BY <2>5, <3>1, <3>4, <3>5 DEF RenewReply, TypeOK
  <2>6. ASSUME NEW r \in Request, RenewError(r) PROVE TypeOK'
    <3>1. renewal' \in [Request -> Renewal] BY <2>0, <2>6 DEF RenewError, TypeOK
    <3>2. holder' \in [Request -> HolderState] /\ left' \in [Request -> 0..Ttl]
      <4>1. CASE holder[r] = "held" BY <2>6, <4>1, LoseOwnershipType DEF RenewError
      <4>2. CASE holder[r] # "held" BY <2>6, <4>2 DEF RenewError, TypeOK
      <4>3. QED BY <4>1, <4>2
    <3>3. QED BY <2>6, <3>1, <3>2 DEF RenewError, TypeOK
  <2>7. ASSUME NEW r \in Request, OwnershipDeadline(r) PROVE TypeOK'
    <3>1. holder' \in [Request -> HolderState] /\ left' \in [Request -> 0..Ttl]
      BY <2>7, LoseOwnershipType DEF OwnershipDeadline
    <3>2. QED BY <2>7, <3>1 DEF OwnershipDeadline, TypeOK
  <2>8. ASSUME NEW r \in Request, Release(r) PROVE TypeOK'
    BY <2>8 DEF Release, TypeOK, HolderState
  <2>9. ASSUME NEW r \in Request, ReleaseDone(r) PROVE TypeOK'
    <3>1. poll' \in [Replica -> Poll] /\ retry' \in SUBSET Replica
      BY <2>0, <2>9, ProcessHeadType DEF ReleaseDone
    <3>2. lease' \in [Request -> 0..Ttl] BY <2>0, <2>9 DEF ReleaseDone, TypeOK
    <3>3. holder' \in [Request -> HolderState] BY <2>9 DEF ReleaseDone, TypeOK, HolderState
    <3>4. QED BY <2>9, <3>1, <3>2, <3>3 DEF ReleaseDone, TypeOK
  <2>10. ASSUME NEW n \in Replica, RetryPoll(n) PROVE TypeOK'
    <3>1. poll' \in [Replica -> Poll] /\ retry' \in SUBSET Replica
      BY <2>0, <2>10, ProcessHeadType DEF RetryPoll
    <3>2. QED BY <2>10, <3>1 DEF RetryPoll, TypeOK
  <2>11. ASSUME NEW n \in Replica, PollCommit(n) PROVE TypeOK'
    <3>1. lease' \in [Request -> 0..Ttl] BY <2>0, <2>11 DEF PollCommit, TypeOK
    <3>2. poll' \in [Replica -> Poll]
      <4>1. /\ [poll[n] EXCEPT !.phase = "won"] \in Poll
            /\ [poll[n] EXCEPT !.phase = "refused", !.age = 0] \in Poll
        BY <2>0 DEF Poll
      <4>2. QED BY <2>11, <4>1 DEF PollCommit, TypeOK
    <3>3. QED BY <2>11, <3>1, <3>2 DEF PollCommit, TypeOK
  <2>12. ASSUME NEW n \in Replica, PollError(n) PROVE TypeOK'
    <3> DEFINE q == IF IsHead(n, poll[n].req) THEN Without(queue[n], poll[n].req) ELSE queue[n]
    <3>1. IsHead(n, poll[n].req) => poll[n].req \in Request
      BY <2>0 DEF IsHead
    <3>2. q \in Seq(Request) BY <2>0, <3>1, WithoutType
    <3>3. EndRun(n, q) BY <2>12 DEF PollError
    <3>4. queue' \in [Replica -> Seq(Request)] /\ poll' \in [Replica -> Poll]
      BY <3>2, <3>3, EndRunType
    <3>5. result' \in [Request -> Answer]
      BY <2>0, <2>12, SettleType DEF PollError, TypeOK
    <3>6. QED BY <2>12, <3>4, <3>5 DEF PollError, TypeOK, HolderState
  <2>13. ASSUME NEW n \in Replica, PollRefused(n) PROVE TypeOK'
    <3>1. ~Stale(n) => poll[n].req \in Request
      BY <2>0 DEF Stale, IsHead
    <3>2. ~Stale(n) => Without(queue[n], poll[n].req) \in Seq(Request)
      BY <2>0, <3>1, WithoutType
    <3>3. retry' \in SUBSET Replica BY <2>13 DEF PollRefused, TypeOK
    <3>4. queue' \in [Replica -> Seq(Request)] /\ poll' \in [Replica -> Poll]
      <4>1. CASE Stale(n) /\ EndRun(n, queue[n]) BY <2>0, <4>1, EndRunType
      <4>2. CASE ~Stale(n) /\ EndRun(n, Without(queue[n], poll[n].req))
        BY <3>2, <4>2, EndRunType
      <4>3. CASE poll' = [poll EXCEPT ![n] = IdlePoll] /\ UNCHANGED queue
        BY <2>0, <4>3 DEF TypeOK
      <4>4. QED BY <2>13, <4>1, <4>2, <4>3 DEF PollRefused
    <3>5. result' \in [Request -> Answer]
      BY <2>0, <2>13, SettleType DEF PollRefused, TypeOK
    <3>6. QED BY <2>13, <3>3, <3>4, <3>5 DEF PollRefused, TypeOK
  <2>14. ASSUME NEW n \in Replica, PollGranted(n) PROVE TypeOK'
    <3>1. poll[n].req \in Request
      BY <2>0, <2>14 DEF PollGranted, Stale, IsHead
    <3>2. Without(queue[n], poll[n].req) \in Seq(Request)
      BY <2>0, <3>1, WithoutType
    <3>3. queue' \in [Replica -> Seq(Request)] /\ poll' \in [Replica -> Poll]
      BY <2>14, <3>2, EndRunType DEF PollGranted
    <3>4. result' \in [Request -> Answer]
      BY <2>0, <2>14, SettleType DEF PollGranted
    <3>5. Remaining(poll[n].age) \in 0..Ttl
      BY <2>0 DEF Remaining, Poll
    <3>6. QED BY <2>14, <3>3, <3>4, <3>5 DEF PollGranted, TypeOK, HolderState
  <2>15. ASSUME NEW n \in Replica, PollOrphaned(n) PROVE TypeOK'
    <3>1. poll' \in [Replica -> Poll] BY <2>0, <2>15 DEF PollOrphaned, TypeOK, Poll
    <3>2. QED BY <2>15, <3>1 DEF PollOrphaned, TypeOK
  <2>16. ASSUME NEW n \in Replica, OrphanReleased(n) PROVE TypeOK'
    <3>1. queue' \in [Replica -> Seq(Request)] /\ poll' \in [Replica -> Poll]
      BY <2>0, <2>16, EndRunType DEF OrphanReleased
    <3>2. lease' \in [Request -> 0..Ttl] BY <2>0, <2>16 DEF OrphanReleased, TypeOK
    <3>3. holder' \in [Request -> HolderState]
      BY <2>16 DEF OrphanReleased, TypeOK, HolderState
    <3>4. QED BY <2>16, <3>1, <3>2, <3>3 DEF OrphanReleased, TypeOK
  <2>17. ASSUME NEW n \in Replica, Shutdown(n) PROVE TypeOK'
    BY <2>0, <2>17 DEF Shutdown, TypeOK, Status
  <2>18. ASSUME NEW n \in Replica, ShutdownRelease(n) PROVE TypeOK'
    BY <2>18 DEF ShutdownRelease, TypeOK, HolderState
  <2>19. ASSUME NEW n \in Replica, Exit(n) PROVE TypeOK'
    BY <2>19 DEF Exit, Gone, TypeOK, Status, NoRenewal, Renewal
  <2>20. ASSUME NEW n \in Replica, Crash(n) PROVE TypeOK'
    BY <2>0, <2>20 DEF Crash, Gone, TypeOK, Status, NoRenewal, Renewal, IdlePoll, Poll, HolderState
  <2>21. ASSUME NEW n \in Replica, Restart(n) PROVE TypeOK'
    BY <2>21 DEF Restart, TypeOK, Status
  <2>22. CASE Tick
    <3>1. \A t \in 0..Ttl : Sooner(t) \in 0..Ttl /\ Older(t) \in 0..Ttl
      BY DEF Sooner, Older
    <3>2. /\ lease' \in [Request -> 0..Ttl] /\ left' \in [Request -> 0..Ttl]
      BY <2>22, <3>1 DEF Tick, TypeOK
    <3>3. poll' \in [Replica -> Poll]
      BY <2>0, <2>22, <3>1 DEF Tick, TypeOK, Poll
    <3>4. renewal' \in [Request -> Renewal]
      BY <2>22, <3>1 DEF Tick, TypeOK, Renewal
    <3>5. QED BY <2>22, <3>2, <3>3, <3>4 DEF Tick, TypeOK
  <2>23. CASE UNCHANGED vars
    BY <2>23 DEF vars, TypeOK
  <2>24. QED
    BY <2>1, <2>2, <2>3, <2>4, <2>5, <2>6, <2>7, <2>8, <2>9, <2>10, <2>11, <2>12, <2>13,
       <2>14, <2>15, <2>16, <2>17, <2>18, <2>19, <2>20, <2>21, <2>22, <2>23 DEF Next
<1>3. QED BY <1>1, <1>2, PTL DEF Spec

-----------------------------------------------------------------------------
(* Who waits and who is polled.  A call that has not become a holder yet    *)
(* stands at most once in its own replica's queue, and a run in flight      *)
(* polls for such a call: the head of the queue, or one that has left it.   *)

GoodQueue(n, q, h, res) ==
  /\ \A i \in DOMAIN q : Home[q[i]] = n /\ h[q[i]] = "none" /\ res[q[i]] # "none"
  /\ \A i, j \in DOMAIN q : q[i] = q[j] => i = j

GoodPoll(n, p, q, h, res) ==
  p.phase # "idle" =>
    /\ p.req \in Request
    /\ Home[p.req] = n /\ h[p.req] = "none" /\ res[p.req] # "none"
    /\ \A i \in DOMAIN q : q[i] = p.req => i = 1 /\ p.phase # "orphan"

Structure ==
  /\ \A n \in Replica :
       /\ GoodQueue(n, queue[n], holder, result)
       /\ GoodPoll(n, poll[n], queue[n], holder, result)
       /\ status[n] # "up" => queue[n] = <<>>
  /\ \A r \in Request : result[r] = "none" => holder[r] = "none"

\* Splicing a call out of a queue without duplicates leaves such a queue, from
\* which the call is absent and in which no call has moved to another's place.
LEMMA WithoutGood ==
  ASSUME NEW n \in Replica, NEW q \in Seq(Request), NEW r \in Request, NEW h, NEW res,
         GoodQueue(n, q, h, res)
  PROVE  /\ GoodQueue(n, Without(q, r), h, res)
         /\ \A k \in DOMAIN Without(q, r) : Without(q, r)[k] # r
         /\ \A x : (\A i \in DOMAIN q : q[i] = x => i = 1)
                   => \A k \in DOMAIN Without(q, r) : Without(q, r)[k] = x => k = 1
<1>1. CASE \E i \in DOMAIN q : q[i] = r
  <2> DEFINE i == CHOOSE j \in DOMAIN q : q[j] = r
             w == [j \in 1..(Len(q) - 1) |-> IF j < i THEN q[j] ELSE q[j + 1]]
  <2>1. i \in DOMAIN q /\ q[i] = r
    BY <1>1
  <2>2. Without(q, r) = w
    BY <1>1 DEF Without
  <2> HIDE DEF i
  <2>3. \A j, k \in DOMAIN q : q[j] = q[k] => j = k
    BY DEF GoodQueue
  <2>4. DOMAIN q = 1..Len(q) /\ Len(q) \in Nat /\ DOMAIN w = 1..(Len(q) - 1)
    OBVIOUS
  <2>5. \A k \in DOMAIN w : w[k] # r
    BY <2>1, <2>3, <2>4
  <2>6. \A j, k \in DOMAIN w : w[j] = w[k] => j = k
    BY <2>1, <2>3, <2>4
  <2>7. \A k \in DOMAIN w : \E j \in DOMAIN q : w[k] = q[j]
    BY <2>1, <2>4
  <2>8. GoodQueue(n, w, h, res)
    BY <2>6, <2>7 DEF GoodQueue
  <2>9. ASSUME NEW x, \A j \in DOMAIN q : q[j] = x => j = 1,
               NEW k \in DOMAIN w, w[k] = x
        PROVE  k = 1
    BY <2>1, <2>4, <2>9
  <2>10. QED BY <2>2, <2>5, <2>8, <2>9
<1>2. CASE ~ \E i \in DOMAIN q : q[i] = r
  BY <1>2 DEF Without
<1>3. QED BY <1>1, <1>2

\* The run a processHead call starts polls for the head of the queue.
LEMMA NextPollGood ==
  ASSUME NEW n \in Replica, NEW q \in Seq(Request), NEW h, NEW res, GoodQueue(n, q, h, res)
  PROVE  GoodPoll(n, NextPoll(n, q), q, h, res)
<1>1. CASE q # <<>> /\ status[n] = "up"
  <2>1. 1 \in DOMAIN q /\ Head(q) = q[1] /\ Head(q) \in Request BY <1>1
  <2>2. NextPoll(n, q).req = Head(q) /\ NextPoll(n, q).phase = "sent" BY <1>1 DEF NextPoll
  <2>3. QED BY <2>1, <2>2 DEF GoodPoll, GoodQueue
<1>2. CASE ~(q # <<>> /\ status[n] = "up")
  BY <1>2 DEF NextPoll, IdlePoll, GoodPoll
<1>3. QED BY <1>1, <1>2

\* An answered call stays answered, and nobody else is told anything.
LEMMA SettleKeeps ==
  ASSUME TypeOK, NEW r \in Request, NEW a \in Answer \ {"none"}, Settle(r, a)
  PROVE  /\ \A x \in Request : result[x] # "none" => result'[x] # "none"
         /\ \A x \in Request \ {r} : result'[x] = result[x]
         /\ result'[r] # "none"
BY DEF Settle, TypeOK

\* A step at one replica leaves the others' queues and polls in order.
LEMMA Elsewhere ==
  ASSUME TypeOK, Structure, NEW n \in Replica, NEW m \in Replica \ {n},
         queue'[m] = queue[m], poll'[m] = poll[m],
         \A r \in Request : Home[r] # n => holder'[r] = holder[r] /\ result'[r] = result[r]
  PROVE  /\ GoodQueue(m, queue'[m], holder', result')
         /\ GoodPoll(m, poll'[m], queue'[m], holder', result')
<1>1. queue[m] \in Seq(Request) BY DEF TypeOK
<1>2. \A i \in DOMAIN queue[m] : queue[m][i] \in Request BY <1>1
<1>3. QED BY <1>1, <1>2 DEF Structure, GoodQueue, GoodPoll

\* What remains to be shown of a step at replica n.
LEMMA StructureByReplica ==
  ASSUME TypeOK, Structure, NEW n \in Replica,
         \A m \in Replica \ {n} : queue'[m] = queue[m] /\ poll'[m] = poll[m] /\ status'[m] = status[m],
         \A r \in Request : Home[r] # n => holder'[r] = holder[r] /\ result'[r] = result[r],
         GoodQueue(n, queue'[n], holder', result'),
         GoodPoll(n, poll'[n], queue'[n], holder', result'),
         status'[n] # "up" => queue'[n] = <<>>,
         \A r \in Request : Home[r] = n /\ result'[r] = "none" => holder'[r] = "none"
  PROVE  Structure'
<1>1. \A m \in Replica : /\ GoodQueue(m, queue'[m], holder', result')
                        /\ GoodPoll(m, poll'[m], queue'[m], holder', result')
  BY Elsewhere
<1>2. \A m \in Replica : status'[m] # "up" => queue'[m] = <<>> BY DEF Structure
<1>3. \A r \in Request : result'[r] = "none" => holder'[r] = "none" BY DEF Structure
<1>4. QED BY <1>1, <1>2, <1>3 DEF Structure

\* ProcessHead on a queue in order leaves the poll in order, whether or not a
\* run was in flight.
LEMMA ProcessHeadGood ==
  ASSUME TypeOK, NEW n \in Replica, NEW q \in Seq(Request), NEW h, NEW res,
         GoodQueue(n, q, h, res), GoodPoll(n, poll[n], q, h, res), ProcessHead(n, q)
  PROVE  /\ GoodPoll(n, poll'[n], q, h, res)
         /\ \A m \in Replica \ {n} : poll'[m] = poll[m]
<1>1. GoodPoll(n, NextPoll(n, q), q, h, res) BY NextPollGood
<1>2. QED BY <1>1 DEF ProcessHead, TypeOK

LEMMA EndRunGood ==
  ASSUME TypeOK, NEW n \in Replica, NEW q \in Seq(Request), NEW h, NEW res,
         GoodQueue(n, q, h, res), EndRun(n, q)
  PROVE  /\ queue'[n] = q
         /\ GoodPoll(n, poll'[n], q, h, res)
         /\ \A m \in Replica \ {n} : queue'[m] = queue[m] /\ poll'[m] = poll[m]
<1>1. GoodPoll(n, NextPoll(n, q), q, h, res) BY NextPollGood
<1>2. QED BY <1>1 DEF EndRun, TypeOK

LEMMA StructureInit == Init => Structure
BY ConstantsAssumption DEF Init, Structure, GoodQueue, GoodPoll, IdlePoll

\* The calls' own steps.
LEMMA StructureCalls ==
  ASSUME TypeOK, Structure, NEW r \in Request,
         \/ Acquire(r) \/ GiveUp(r) \/ Heartbeat(r) \/ RenewCommit(r) \/ RenewReply(r)
         \/ RenewError(r) \/ OwnershipDeadline(r) \/ Release(r) \/ ReleaseDone(r)
  PROVE  Structure'
<1> DEFINE n == Home[r]
<1>0. /\ n \in Replica /\ queue[n] \in Seq(Request)
      /\ GoodQueue(n, queue[n], holder, result) /\ GoodPoll(n, poll[n], queue[n], holder, result)
      /\ status[n] # "up" => queue[n] = <<>>
      /\ \A x \in Request : result[x] = "none" => holder[x] = "none"
      /\ Answer \ {"none"} = {"pending", "ok", "queue_full", "gave_up", "unavailable", "crashed"}
  BY ConstantsAssumption DEF TypeOK, Structure, Answer
<1>1. CASE Acquire(r)
  <2> DEFINE q == Append(queue[n], r)
  <2>1. /\ \A x \in Request : result[x] # "none" => result'[x] # "none"
        /\ \A x \in Request \ {r} : result'[x] = result[x]
        /\ result'[r] # "none"
    BY <1>0, <1>1, SettleKeeps DEF Acquire
  <2>2. holder' = holder /\ status' = status /\ result[r] = "none" /\ holder[r] = "none"
    BY <1>0, <1>1 DEF Acquire
  <2>3. /\ GoodQueue(n, queue[n], holder', result')
        /\ GoodPoll(n, poll[n], queue[n], holder', result')
    <3>1. \A i \in DOMAIN queue[n] : queue[n][i] \in Request BY <1>0
    <3>2. QED BY <1>0, <2>1, <2>2, <3>1 DEF GoodQueue, GoodPoll
  <2>4. CASE UNCHANGED <<queue, poll>>
    BY <1>0, <2>1, <2>2, <2>3, <2>4, StructureByReplica
  <2>5. CASE /\ status[n] = "up" /\ queue' = [queue EXCEPT ![n] = q]
             /\ IF queue[n] = <<>> THEN ProcessHead(n, q) ELSE UNCHANGED <<poll, retry>>
    <3>1. q \in Seq(Request) /\ DOMAIN q = 1..(Len(queue[n]) + 1) /\ Len(queue[n]) \in Nat
          /\ DOMAIN queue[n] = 1..Len(queue[n])
          /\ (\A i \in DOMAIN queue[n] : q[i] = queue[n][i]) /\ q[Len(queue[n]) + 1] = r
      BY <1>0
    <3>2. \A i \in DOMAIN queue[n] : queue[n][i] # r
      BY <1>0, <2>2 DEF GoodQueue
    <3>3. GoodQueue(n, q, holder', result')
      BY <2>1, <2>2, <2>3, <3>1, <3>2 DEF GoodQueue
    <3>4. poll[n].phase # "idle" => poll[n].req # r
      BY <1>0, <2>2 DEF GoodPoll
    <3>5. GoodPoll(n, poll[n], q, holder', result')
      <4>1. SUFFICES ASSUME poll[n].phase # "idle" PROVE GoodPoll(n, poll[n], q, holder', result')
        BY DEF GoodPoll
      <4>2. ASSUME NEW i \in DOMAIN q, q[i] = poll[n].req
            PROVE  i = 1 /\ poll[n].phase # "orphan"
        <5>1. i \in DOMAIN queue[n] BY <3>1, <3>4, <4>1, <4>2
        <5>2. QED BY <2>3, <3>1, <4>1, <4>2, <5>1 DEF GoodPoll
      <4>3. QED BY <2>3, <4>1, <4>2 DEF GoodPoll
    <3>6. queue'[n] = q /\ \A m \in Replica \ {n} : queue'[m] = queue[m]
      BY <1>0, <2>5 DEF TypeOK
    <3>7. /\ GoodPoll(n, poll'[n], q, holder', result')
          /\ \A m \in Replica \ {n} : poll'[m] = poll[m]
      <4>1. CASE ProcessHead(n, q)
        BY <1>0, <3>1, <3>3, <3>5, <4>1, ProcessHeadGood
      <4>2. CASE poll' = poll BY <3>5, <4>2
      <4>3. QED BY <2>5, <4>1, <4>2
    <3>8. \A x \in Request : Home[x] # n => holder'[x] = holder[x] /\ result'[x] = result[x]
      BY <2>1, <2>2
    <3>9. \A x \in Request : result'[x] = "none" => holder'[x] = "none"
      BY <1>0, <2>1, <2>2
    <3>10. status'[n] = "up" /\ \A m \in Replica \ {n} : status'[m] = status[m]
      BY <2>2, <2>5
    <3>11. /\ GoodQueue(n, queue'[n], holder', result')
           /\ GoodPoll(n, poll'[n], queue'[n], holder', result')
      BY <3>3, <3>6, <3>7
    <3> HIDE DEF q
    <3>12. QED BY <1>0, <3>6, <3>7, <3>8, <3>9, <3>10, <3>11, StructureByReplica
  <2>6. QED BY <1>1, <2>4, <2>5 DEF Acquire
<1>2. CASE GiveUp(r)
  <2> DEFINE q == Without(queue[n], r)
  <2>1. /\ \A x \in Request : result[x] # "none" => result'[x] # "none"
        /\ \A x \in Request \ {r} : result'[x] = result[x]
        /\ result'[r] # "none"
    BY <1>0, <1>2, SettleKeeps DEF GiveUp
  <2>2. holder' = holder /\ status' = status
    BY <1>2 DEF GiveUp
  <2>3. /\ GoodQueue(n, queue[n], holder', result')
        /\ GoodPoll(n, poll[n], queue[n], holder', result')
    <3>1. \A i \in DOMAIN queue[n] : queue[n][i] \in Request BY <1>0
    <3>2. QED BY <1>0, <2>1, <2>2, <3>1 DEF GoodQueue, GoodPoll
  <2>4. q \in Seq(Request) /\ GoodQueue(n, q, holder', result') BY <1>0, <2>3, WithoutType, WithoutGood
  <2>5. GoodPoll(n, poll[n], q, holder', result')
    <3>1. \A x : (\A i \in DOMAIN queue[n] : queue[n][i] = x => i = 1)
                 => \A k \in DOMAIN q : q[k] = x => k = 1
      BY <1>0, <2>3, WithoutGood
    <3>2. \A k \in DOMAIN q : \E j \in DOMAIN queue[n] : q[k] = queue[n][j]
      BY <1>0, WithoutType
    <3>3. QED BY <2>3, <3>1, <3>2 DEF GoodPoll
  <2>6. /\ GoodPoll(n, poll'[n], q, holder', result')
        /\ \A m \in Replica \ {n} : poll'[m] = poll[m]
    BY <1>0, <1>2, <2>4, <2>5, ProcessHeadGood DEF GiveUp
  <2>7. queue'[n] = q /\ \A m \in Replica \ {n} : queue'[m] = queue[m]
    BY <1>0, <1>2 DEF GiveUp, TypeOK
  <2>8. queue[n] = <<>> => q = <<>> BY DEF Without
  <2>9. QED BY <1>0, <2>1, <2>2, <2>4, <2>6, <2>7, <2>8, StructureByReplica
<1>3. CASE Heartbeat(r) \/ RenewCommit(r)
  BY <1>3 DEF Heartbeat, RenewCommit, Structure
<1>4. CASE RenewReply(r) \/ RenewError(r) \/ OwnershipDeadline(r) \/ Release(r) \/ ReleaseDone(r)
  <2>1. /\ UNCHANGED <<queue, status, result>>
        /\ UNCHANGED poll \/ ProcessHead(n, queue[n])
        /\ UNCHANGED holder \/ (/\ holder[r] \in {"held", "releasing"}
                                /\ \E s : holder' = [holder EXCEPT ![r] = s])
    BY <1>4 DEF RenewReply, RenewError, OwnershipDeadline, Release, ReleaseDone, LoseOwnership
  <2>2. \A x \in Request : holder[x] = "none" => holder'[x] = "none"
    BY <2>1 DEF TypeOK
  <2>3. \A x \in Request : Home[x] # n => holder'[x] = holder[x]
    BY <2>1 DEF TypeOK
  <2>4. /\ GoodQueue(n, queue[n], holder', result')
        /\ GoodPoll(n, poll[n], queue[n], holder', result')
    <3>1. \A i \in DOMAIN queue[n] : queue[n][i] \in Request BY <1>0
    <3>2. QED BY <1>0, <2>1, <2>2, <3>1 DEF GoodQueue, GoodPoll
  <2>5. /\ GoodPoll(n, poll'[n], queue[n], holder', result')
        /\ \A m \in Replica \ {n} : poll'[m] = poll[m]
    <3>1. CASE ProcessHead(n, queue[n]) BY <1>0, <2>4, <3>1, ProcessHeadGood
    <3>2. CASE UNCHANGED poll BY <2>4, <3>2
    <3>3. QED BY <2>1, <3>1, <3>2
  <2>6. QED BY <1>0, <2>1, <2>2, <2>3, <2>4, <2>5, StructureByReplica
<1>5. QED BY <1>1, <1>2, <1>3, <1>4

\* The replicas' steps.
LEMMA StructureReplicas ==
  ASSUME TypeOK, Structure, NEW n \in Replica,
         \/ RetryPoll(n) \/ PollCommit(n) \/ PollError(n) \/ PollRefused(n)
         \/ PollGranted(n) \/ PollOrphaned(n) \/ OrphanReleased(n)
         \/ Shutdown(n) \/ ShutdownRelease(n) \/ Exit(n) \/ Crash(n) \/ Restart(n)
  PROVE  Structure'
<1> DEFINE p == poll[n]
           r == poll[n].req
           w == Without(queue[n], r)
<1>0. /\ queue[n] \in Seq(Request) /\ p \in Poll /\ poll \in [Replica -> Poll]
      /\ GoodQueue(n, queue[n], holder, result) /\ GoodPoll(n, p, queue[n], holder, result)
      /\ status[n] # "up" => queue[n] = <<>>
      /\ \A x \in Request : result[x] = "none" => holder[x] = "none"
      /\ \A i \in DOMAIN queue[n] : queue[n][i] \in Request
      /\ Answer \ {"none"} = {"pending", "ok", "queue_full", "gave_up", "unavailable", "crashed"}
  BY DEF TypeOK, Structure, Answer
<1>1. p.phase # "idle" => w \in Seq(Request) /\ GoodQueue(n, w, holder, result)
                          /\ \A k \in DOMAIN w : w[k] # r
  BY <1>0, WithoutType, WithoutGood DEF GoodPoll
<1>2. queue[n] = <<>> => w = <<>> BY DEF Without
<1>3. ASSUME IsHead(n, r) PROVE r \in Request /\ Home[r] = n
  BY <1>0, <1>3 DEF IsHead, GoodQueue
<1>4. CASE RetryPoll(n)
  <2>1. UNCHANGED <<queue, status, result, holder>> /\ ProcessHead(n, queue[n])
    BY <1>4 DEF RetryPoll
  <2>2. /\ GoodPoll(n, poll'[n], queue[n], holder, result)
        /\ \A m \in Replica \ {n} : poll'[m] = poll[m]
    BY <1>0, <2>1, ProcessHeadGood
  <2>3. QED BY <1>0, <2>1, <2>2, StructureByReplica
<1>5. CASE PollCommit(n) \/ PollOrphaned(n)
  <2>1. /\ UNCHANGED <<queue, status, result, holder>> /\ p.phase # "idle"
        /\ \A m \in Replica \ {n} : poll'[m] = poll[m]
        /\ poll'[n].req = r
        /\ poll'[n].phase # "orphan" \/ Stale(n)
    <3>1. CASE PollCommit(n)
      <4>1. \/ poll' = [poll EXCEPT ![n] = [p EXCEPT !.phase = "won"]]
            \/ poll' = [poll EXCEPT ![n] = [p EXCEPT !.phase = "refused", !.age = 0]]
        BY <3>1 DEF PollCommit
      <4>2. \A m \in Replica \ {n} : poll'[m] = poll[m] BY <1>0, <4>1
      <4>3. poll'[n].req = r /\ poll'[n].phase # "orphan"
        <5>1. /\ [p EXCEPT !.phase = "won"].req = r
              /\ [p EXCEPT !.phase = "won"].phase = "won"
              /\ [p EXCEPT !.phase = "refused", !.age = 0].req = r
              /\ [p EXCEPT !.phase = "refused", !.age = 0].phase = "refused"
          BY <1>0 DEF Poll
        <5>2. QED BY <1>0, <4>1, <5>1
      <4>4. QED BY <3>1, <4>2, <4>3 DEF PollCommit
    <3>2. CASE PollOrphaned(n) BY <1>0, <3>2 DEF PollOrphaned, Poll
    <3>3. QED BY <1>5, <3>1, <3>2
  <2>2. Stale(n) => \A i \in DOMAIN queue[n] : queue[n][i] # r
    BY <1>0, <2>1 DEF Stale, IsHead, GoodPoll
  <2>3. GoodPoll(n, poll'[n], queue[n], holder, result)
    BY <1>0, <2>1, <2>2 DEF GoodPoll
  <2>4. QED BY <1>0, <2>1, <2>3, StructureByReplica
<1>6. CASE PollError(n) \/ PollRefused(n) \/ PollGranted(n) \/ OrphanReleased(n)
  <2>1. p.phase # "idle" /\ status' = status
    BY <1>6 DEF PollError, PollRefused, PollGranted, OrphanReleased
  <2>2. /\ \A x \in Request : result[x] # "none" => result'[x] # "none"
        /\ \A x \in Request : Home[x] # n => result'[x] = result[x]
    <3>1. \A x \in Request : Home[x] # n => x # r BY <1>0, <2>1 DEF GoodPoll
    <3>2. CASE UNCHANGED result BY <3>2
    <3>3. CASE \E a \in {"unavailable", "queue_full", "ok"} : Settle(r, a)
      BY <1>0, <2>1, <3>1, <3>3, SettleKeeps DEF GoodPoll
    <3>4. QED BY <1>6, <3>2, <3>3 DEF PollError, PollRefused, PollGranted, OrphanReleased
  <2>3. \A x \in Request \ {r} : holder'[x] = holder[x]
    BY <1>6 DEF PollError, PollRefused, PollGranted, OrphanReleased, TypeOK
  <2>4. CASE UNCHANGED holder /\ poll' = [poll EXCEPT ![n] = IdlePoll] /\ UNCHANGED queue
    <3>1. GoodQueue(n, queue[n], holder', result') BY <1>0, <2>2, <2>4 DEF GoodQueue
    <3>2. poll'[n] = IdlePoll /\ \A m \in Replica \ {n} : poll'[m] = poll[m] BY <1>0, <2>4
    <3>3. GoodPoll(n, poll'[n], queue[n], holder', result') BY <3>2 DEF GoodPoll, IdlePoll
    <3>4. QED BY <1>0, <2>1, <2>2, <2>4, <3>1, <3>2, <3>3, StructureByReplica
  <2>5. CASE \E q \in {w, queue[n]} :
               /\ EndRun(n, q) /\ (q = w \/ UNCHANGED holder \/ p.phase = "orphan" \/ ~IsHead(n, r))
    <3>1. PICK q \in {w, queue[n]} :
               /\ EndRun(n, q) /\ (q = w \/ UNCHANGED holder \/ p.phase = "orphan" \/ ~IsHead(n, r))
      BY <2>5
    <3>2. q \in Seq(Request) /\ GoodQueue(n, q, holder, result) BY <1>0, <1>1, <2>1
    <3>3. (\A k \in DOMAIN q : q[k] # r) \/ UNCHANGED holder
      BY <1>0, <1>1, <2>1, <3>1 DEF GoodPoll, IsHead
    <3>4. \A k \in DOMAIN q : q[k] \in Request BY <3>2
    <3>5. GoodQueue(n, q, holder', result')
      BY <2>2, <2>3, <3>2, <3>3, <3>4 DEF GoodQueue
    <3>6. /\ queue'[n] = q
          /\ GoodPoll(n, poll'[n], q, holder', result')
          /\ \A m \in Replica \ {n} : queue'[m] = queue[m] /\ poll'[m] = poll[m]
      BY <3>1, <3>2, <3>5, EndRunGood
    <3>7. \A x \in Request : Home[x] # n => holder'[x] = holder[x]
      BY <1>0, <2>1, <2>3 DEF GoodPoll
    <3>8. \A x \in Request : result'[x] = "none" => holder'[x] = "none"
      BY <1>0, <2>1, <2>2, <2>3 DEF GoodPoll
    <3>9. status'[n] # "up" => queue'[n] = <<>> BY <1>0, <1>2, <2>1, <3>1, <3>6
    <3>10. QED BY <2>1, <2>2, <3>5, <3>6, <3>7, <3>8, <3>9, StructureByReplica
  <2>6. CASE PollError(n)
    <3>1. CASE IsHead(n, r) BY <2>5, <2>6, <3>1 DEF PollError
    <3>2. CASE ~IsHead(n, r) BY <2>5, <2>6, <3>2 DEF PollError
    <3>3. QED BY <3>1, <3>2
  <2>7. CASE PollRefused(n) BY <2>4, <2>5, <2>7 DEF PollRefused
  <2>8. CASE PollGranted(n) BY <2>5, <2>8 DEF PollGranted
  <2>9. CASE OrphanReleased(n) BY <2>5, <2>9 DEF OrphanReleased
  <2>10. QED BY <1>6, <2>6, <2>7, <2>8, <2>9
<1>7. CASE Shutdown(n) \/ ShutdownRelease(n) \/ Exit(n) \/ Crash(n)
  <2>1. /\ \A x \in Request : result[x] # "none" => result'[x] # "none"
        /\ \A x \in Request : Home[x] # n => result'[x] = result[x] /\ holder'[x] = holder[x]
        /\ \A m \in Replica \ {n} : queue'[m] = queue[m] /\ status'[m] = status[m] /\ poll'[m] = poll[m]
    BY <1>7 DEF Shutdown, ShutdownRelease, Exit, Crash, Gone, At, TypeOK
  <2>2. queue'[n] = <<>>
    BY <1>0, <1>7 DEF Shutdown, ShutdownRelease, Exit, Crash, Gone, TypeOK
  <2>3. poll'[n] = p \/ poll'[n] = IdlePoll
    BY <1>7 DEF Shutdown, ShutdownRelease, Exit, Crash, Gone, TypeOK
  <2>4. poll'[n] # IdlePoll => \A x \in Request : holder[x] = "none" => holder'[x] = "none"
    BY <1>7 DEF Shutdown, ShutdownRelease, Exit, Crash, Gone, TypeOK
  <2>5. GoodQueue(n, queue'[n], holder', result') BY <2>2 DEF GoodQueue
  <2>6. GoodPoll(n, poll'[n], queue'[n], holder', result')
    BY <1>0, <2>1, <2>2, <2>3, <2>4 DEF GoodPoll, IdlePoll
  <2>7. \A x \in Request : result'[x] = "none" => holder'[x] = "none"
    <3>1. \A x \in Request : result'[x] = "none" => result[x] = "none" /\ holder[x] = "none"
      BY <1>0, <2>1
    <3>2. p.phase \in {"won", "orphan"} => r \in Request /\ result[r] # "none"
      BY <1>0 DEF GoodPoll
    <3>3. \A x \in Request : holder[x] = "none" /\ result[x] = "none" => holder'[x] = "none"
      BY <1>7, <3>2 DEF Shutdown, ShutdownRelease, Exit, Crash, Gone, TypeOK
    <3>4. QED BY <3>1, <3>3
  <2>8. QED BY <2>1, <2>2, <2>5, <2>6, <2>7, StructureByReplica
<1>8. CASE Restart(n)
  BY <1>8 DEF Restart, Structure, TypeOK
<1>9. QED BY <1>4, <1>5, <1>6, <1>7, <1>8

\* Structure is inductive, given the types.
LEMMA StructureStep == TypeOK /\ Structure /\ [Next]_vars => Structure'
<1> SUFFICES ASSUME TypeOK, Structure, [Next]_vars PROVE Structure'
  OBVIOUS
<1>1. CASE Tick
  <2>1. UNCHANGED <<status, queue, result, holder>>
    BY <1>1 DEF Tick
  <2>2. \A n \in Replica : poll'[n].phase = poll[n].phase /\ poll'[n].req = poll[n].req
    BY <1>1 DEF Tick, TypeOK, Poll
  <2>3. QED BY <2>1, <2>2 DEF Structure, GoodPoll
<1>2. CASE UNCHANGED vars
  BY <1>2 DEF vars, Structure
<1>3. QED BY <1>1, <1>2, StructureCalls, StructureReplicas DEF Next

-----------------------------------------------------------------------------
(* Deadlines against expiry.  Every deadline is counted from the start of   *)
(* the operation that wrote the row, hence from before the row was written: *)
(* the row outlives the ownership that rests on it.                         *)

Timing ==
  /\ \A r \in Request :
       /\ holder[r] = "none" => renewal[r].phase = "none"
       /\ holder[r] = "held" => left[r] <= lease[r]
       /\ holder[r] = "held" /\ renewal[r].phase = "ok" => Ttl <= lease[r] + renewal[r].age
  /\ \A n \in Replica :
       poll[n].phase = "won" => Ttl <= lease[poll[n].req] + poll[n].age

Capacity == Cardinality(Live) <= Limit

\* The inductive invariant.
Inv == TypeOK /\ Structure /\ Timing /\ Capacity

\* Timing survives a step that leaves rows, deadlines and renewals alone,
\* makes nobody a holder and no poll a winner.
LEMMA TimingUntouched ==
  ASSUME TypeOK, Timing, UNCHANGED <<left, lease>>,
         \A r \in Request : /\ renewal'[r] = renewal[r] \/ renewal'[r].phase \notin {"ok"}
                            /\ holder'[r] = "none" => holder[r] = "none" /\ renewal'[r] = renewal[r]
                            /\ holder'[r] = "held" => holder[r] = "held",
         \A n \in Replica : poll'[n] = poll[n] \/ poll'[n].phase # "won"
  PROVE  Timing'
BY DEF Timing

\* A new run has not won yet.
LEMMA NextPollNotWon ==
  ASSUME NEW n, NEW q
  PROVE  NextPoll(n, q).phase # "won"
BY DEF NextPoll, IdlePoll

LEMMA TimingCalls ==
  ASSUME TypeOK, Structure, Timing, NEW r \in Request,
         \/ Acquire(r) \/ GiveUp(r) \/ Heartbeat(r) \/ RenewCommit(r) \/ RenewReply(r)
         \/ RenewError(r) \/ OwnershipDeadline(r) \/ Release(r) \/ ReleaseDone(r)
  PROVE  Timing'
<1>0. /\ Ttl \in Nat \ {0} /\ Home[r] \in Replica
      /\ \A x \in Request : /\ left[x] \in 0..Ttl /\ lease[x] \in 0..Ttl
                            /\ renewal[x] \in Renewal /\ renewal[x].age \in 0..Ttl
      /\ \A n \in Replica : poll[n] \in Poll /\ poll[n].age \in 0..Ttl
  BY ConstantsAssumption DEF TypeOK, Poll, Renewal
<1>1. ASSUME NEW q, ProcessHead(Home[r], q)
      PROVE  \A n \in Replica : poll'[n] = poll[n] \/ poll'[n].phase # "won"
  BY <1>1, NextPollNotWon DEF ProcessHead, TypeOK
<1>2. CASE Acquire(r)
  BY <1>1, <1>2, TimingUntouched DEF Acquire
<1>3. CASE GiveUp(r)
  BY <1>1, <1>3, TimingUntouched DEF GiveUp
<1>4. CASE Heartbeat(r)
  BY <1>4, TimingUntouched DEF Heartbeat, TypeOK
<1>5. CASE RenewCommit(r)
  <2>1. CASE lease[r] > 0
    <3>1. /\ lease' = [lease EXCEPT ![r] = Ttl]
          /\ renewal' = [renewal EXCEPT ![r] = [renewal[r] EXCEPT !.phase = "ok"]]
          /\ renewal[r].phase = "sent" /\ UNCHANGED <<holder, left, poll>>
      BY <1>5, <2>1 DEF RenewCommit
    <3>2. \A x \in Request : lease'[x] = IF x = r THEN Ttl ELSE lease[x]
      BY <3>1 DEF TypeOK
    <3>3. \A x \in Request : lease'[x] \in 0..Ttl /\ lease[x] <= lease'[x] BY <1>0, <3>2
    <3>4. renewal'[r].phase = "ok" /\ renewal'[r].age = renewal[r].age
      BY <1>0, <3>1 DEF TypeOK, Renewal
    <3>5. \A x \in Request \ {r} : renewal'[x] = renewal[x]
      BY <3>1 DEF TypeOK
    <3>6. holder[r] # "none" BY <3>1 DEF Timing
    <3>7. \A x \in Request :
            /\ holder'[x] = "none" => renewal'[x].phase = "none"
            /\ holder'[x] = "held" => left'[x] <= lease'[x]
            /\ holder'[x] = "held" /\ renewal'[x].phase = "ok" => Ttl <= lease'[x] + renewal'[x].age
      BY <1>0, <3>1, <3>2, <3>3, <3>4, <3>5, <3>6 DEF Timing
    <3>8. ASSUME NEW n \in Replica, poll'[n].phase = "won"
          PROVE  Ttl <= lease'[poll'[n].req] + poll'[n].age
      <4>1. poll[n].req \in Request BY <3>1, <3>8 DEF Structure, GoodPoll
      <4>2. QED BY <1>0, <3>1, <3>3, <3>8, <4>1 DEF Timing
    <3>9. QED BY <3>7, <3>8 DEF Timing
  <2>2. CASE ~(lease[r] > 0)
    <3>1. /\ renewal' = [renewal EXCEPT ![r] = [renewal[r] EXCEPT !.phase = "rejected", !.age = 0]]
          /\ renewal[r].phase = "sent" /\ UNCHANGED <<holder, left, poll, lease>>
      BY <1>5, <2>2 DEF RenewCommit
    <3>2. renewal'[r].phase = "rejected" BY <1>0, <3>1 DEF TypeOK, Renewal
    <3>3. \A x \in Request \ {r} : renewal'[x] = renewal[x] BY <3>1 DEF TypeOK
    <3>4. holder[r] # "none" BY <3>1 DEF Timing
    <3>5. QED BY <3>1, <3>2, <3>3, <3>4, TimingUntouched
  <2>3. QED BY <2>1, <2>2
<1>6. CASE RenewReply(r) \/ RenewError(r) \/ OwnershipDeadline(r) \/ Release(r)
  <2>1. /\ UNCHANGED <<lease, poll>> /\ holder[r] # "none"
        /\ \/ UNCHANGED renewal
           \/ renewal' = [renewal EXCEPT ![r] = NoRenewal]
    BY <1>6 DEF RenewReply, RenewError, OwnershipDeadline, Release, Timing
  <2>2. \A x \in Request : renewal'[x] = renewal[x] \/ (x = r /\ renewal'[x].phase = "none")
    BY <2>1 DEF TypeOK, NoRenewal
  <2>3. /\ \A x \in Request \ {r} : left'[x] = left[x] /\ holder'[x] = holder[x]
        /\ holder'[r] # "none"
    BY <1>6, <2>1 DEF RenewReply, RenewError, OwnershipDeadline, Release, LoseOwnership, TypeOK
  <2>4. holder'[r] = "held" => left'[r] <= lease[r]
    <3>1. CASE RenewReply(r)
      <4>1. CASE holder[r] = "held" /\ renewal[r].phase = "ok"
                 /\ left' = [left EXCEPT ![r] = Remaining(renewal[r].age)]
        <5>1. left'[r] = Ttl - renewal[r].age BY <4>1 DEF TypeOK, Remaining
        <5>2. Ttl <= lease[r] + renewal[r].age BY <4>1 DEF Timing
        <5>3. QED BY <1>0, <5>1, <5>2
      <4>2. CASE UNCHANGED <<holder, left>> BY <4>2 DEF Timing
      <4>3. CASE LoseOwnership(r) BY <4>3 DEF LoseOwnership, TypeOK
      <4>4. QED BY <3>1, <4>1, <4>2, <4>3 DEF RenewReply
    <3>2. CASE RenewError(r)
      BY <3>2 DEF RenewError, LoseOwnership, TypeOK, Timing
    <3>3. CASE OwnershipDeadline(r) \/ Release(r)
      BY <3>3 DEF OwnershipDeadline, Release, LoseOwnership, TypeOK
    <3>4. QED BY <1>6, <3>1, <3>2, <3>3
  <2>5. holder'[r] = "held" => holder[r] = "held"
    BY <1>6 DEF RenewReply, RenewError, OwnershipDeadline, Release, LoseOwnership, TypeOK
  <2>6. QED BY <2>1, <2>2, <2>3, <2>4, <2>5 DEF Timing
<1>7. CASE ReleaseDone(r)
  <2>1. /\ holder[r] = "releasing" /\ UNCHANGED <<left, renewal>>
        /\ holder'[r] \in {"released", "leaked"}
        /\ \A x \in Request \ {r} : holder'[x] = holder[x] /\ lease'[x] = lease[x]
    BY <1>7 DEF ReleaseDone, TypeOK
  <2>2. \A n \in Replica : poll'[n] = poll[n] \/ poll'[n].phase # "won"
    BY <1>1, <1>7 DEF ReleaseDone
  <2>3. \A n \in Replica : poll[n].phase = "won" => poll[n].req \in Request \ {r}
    BY <2>1 DEF Structure, GoodPoll
  <2>4. QED BY <2>1, <2>2, <2>3 DEF Timing
<1>8. QED BY <1>2, <1>3, <1>4, <1>5, <1>6, <1>7

LEMMA TimingReplicas ==
  ASSUME TypeOK, Structure, Timing, NEW n \in Replica,
         \/ RetryPoll(n) \/ PollCommit(n) \/ PollError(n) \/ PollRefused(n)
         \/ PollGranted(n) \/ PollOrphaned(n) \/ OrphanReleased(n)
         \/ Shutdown(n) \/ ShutdownRelease(n) \/ Exit(n) \/ Crash(n) \/ Restart(n)
  PROVE  Timing'
<1> DEFINE r == poll[n].req
<1>0. /\ Ttl \in Nat \ {0}
      /\ \A x \in Request : /\ left[x] \in 0..Ttl /\ lease[x] \in 0..Ttl
                            /\ renewal[x] \in Renewal /\ renewal[x].age \in 0..Ttl
      /\ \A m \in Replica : poll[m] \in Poll /\ poll[m].age \in 0..Ttl
      /\ poll \in [Replica -> Poll]
      /\ poll[n].phase # "idle" => r \in Request /\ Home[r] = n /\ holder[r] = "none"
  BY ConstantsAssumption DEF TypeOK, Poll, Renewal, Structure, GoodPoll
<1>1. ASSUME NEW q, ProcessHead(n, q) \/ EndRun(n, q) \/ poll' = [poll EXCEPT ![n] = IdlePoll]
      PROVE  \A m \in Replica : poll'[m] = poll[m] \/ poll'[m].phase # "won"
  BY <1>0, <1>1, NextPollNotWon DEF ProcessHead, EndRun, IdlePoll
<1>2. CASE RetryPoll(n)
  BY <1>1, <1>2, TimingUntouched DEF RetryPoll
<1>3. CASE PollCommit(n)
  <2>1. UNCHANGED <<holder, left, renewal>> /\ r \in Request /\ holder[r] = "none"
    BY <1>0, <1>3 DEF PollCommit
  <2>2. CASE Cardinality(Live) < Limit
    <3>1. /\ lease' = [lease EXCEPT ![r] = Ttl]
          /\ poll' = [poll EXCEPT ![n] = [poll[n] EXCEPT !.phase = "won"]]
      BY <1>3, <2>2 DEF PollCommit
    <3>2. /\ lease'[r] = Ttl /\ \A x \in Request \ {r} : lease'[x] = lease[x]
          /\ poll'[n].req = r /\ poll'[n].age = poll[n].age
          /\ \A m \in Replica \ {n} : poll'[m] = poll[m]
      BY <1>0, <2>1, <3>1 DEF TypeOK, Poll
    <3>3. ASSUME NEW m \in Replica, poll'[m].phase = "won"
          PROVE  Ttl <= lease'[poll'[m].req] + poll'[m].age
      <4>1. CASE m = n BY <1>0, <3>2, <4>1
      <4>2. CASE m # n
        <5>1. poll[m].phase = "won" /\ poll'[m] = poll[m] BY <3>2, <3>3, <4>2
        <5>2. poll[m].req \in Request /\ Home[poll[m].req] = m
          BY <5>1 DEF Structure, GoodPoll
        <5>3. poll[m].req # r BY <1>0, <1>3, <4>2, <5>2 DEF PollCommit
        <5>4. QED BY <3>2, <5>1, <5>2, <5>3 DEF Timing
      <4>3. QED BY <4>1, <4>2
    <3>4. QED BY <2>1, <3>2, <3>3 DEF Timing
  <2>3. CASE ~(Cardinality(Live) < Limit)
    <3>1. /\ UNCHANGED lease
          /\ poll' = [poll EXCEPT ![n] = [poll[n] EXCEPT !.phase = "refused", !.age = 0]]
      BY <1>3, <2>3 DEF PollCommit
    <3>2. \A m \in Replica : poll'[m] = poll[m] \/ poll'[m].phase # "won"
      BY <1>0, <3>1 DEF Poll
    <3>3. QED BY <2>1, <3>1, <3>2, TimingUntouched
  <2>4. QED BY <2>2, <2>3
<1>4. CASE PollError(n)
  BY <1>0, <1>1, <1>4, TimingUntouched DEF PollError, TypeOK
<1>5. CASE PollRefused(n)
  <2>1. \A m \in Replica : poll'[m] = poll[m] \/ poll'[m].phase # "won"
    BY <1>1, <1>5 DEF PollRefused
  <2>2. QED BY <1>5, <2>1, TimingUntouched DEF PollRefused
<1>6. CASE PollGranted(n)
  <2>1. /\ poll[n].phase = "won" /\ UNCHANGED <<renewal, lease>>
        /\ left' = [left EXCEPT ![r] = Remaining(poll[n].age)]
        /\ \E s \in {"held", "releasing"} : holder' = [holder EXCEPT ![r] = s]
    BY <1>6 DEF PollGranted
  <2>2. r \in Request /\ holder[r] = "none" /\ renewal[r].phase = "none"
    BY <1>0, <2>1 DEF Timing
  <2>3. left'[r] = Ttl - poll[n].age /\ \A x \in Request \ {r} : left'[x] = left[x]
    BY <2>1, <2>2 DEF TypeOK, Remaining
  <2>4. \A x \in Request \ {r} : holder'[x] = holder[x] BY <2>1 DEF TypeOK
  <2>5. left'[r] <= lease[r]
    <3>1. Ttl <= lease[r] + poll[n].age BY <2>1 DEF Timing
    <3>2. QED BY <1>0, <2>2, <2>3, <3>1
  <2>6. \A m \in Replica : poll'[m] = poll[m] \/ poll'[m].phase # "won"
    BY <1>1, <1>6 DEF PollGranted
  <2>7. holder'[r] # "none" BY <2>1, <2>2 DEF TypeOK
  <2>8. QED BY <2>1, <2>2, <2>3, <2>4, <2>5, <2>6, <2>7 DEF Timing
<1>7. CASE PollOrphaned(n)
  <2>1. \A m \in Replica : poll'[m] = poll[m] \/ poll'[m].phase # "won"
    BY <1>0, <1>7 DEF PollOrphaned, Poll
  <2>2. QED BY <1>7, <2>1, TimingUntouched DEF PollOrphaned
<1>8. CASE OrphanReleased(n)
  <2>1. /\ poll[n].phase = "orphan" /\ UNCHANGED <<left, renewal>>
        /\ \A x \in Request \ {r} : holder'[x] = holder[x] /\ lease'[x] = lease[x]
    BY <1>8 DEF OrphanReleased, TypeOK
  <2>2. r \in Request /\ holder'[r] \in {"released", "leaked"}
    BY <1>0, <1>8 DEF OrphanReleased, TypeOK
  <2>3. \A m \in Replica : poll'[m] = poll[m] \/ poll'[m].phase # "won"
    BY <1>1, <1>8 DEF OrphanReleased
  <2>4. \A m \in Replica : poll[m].phase = "won" => poll[m].req \in Request \ {r}
    <3>1. ASSUME NEW m \in Replica, poll[m].phase = "won" PROVE poll[m].req \in Request \ {r}
      <4>1. poll[m].req \in Request /\ Home[poll[m].req] = m BY <3>1 DEF Structure, GoodPoll
      <4>2. QED BY <1>0, <2>1, <3>1, <4>1
    <3>2. QED BY <3>1
  <2>5. QED BY <2>1, <2>2, <2>3, <2>4 DEF Timing
<1>9. CASE Shutdown(n) \/ Restart(n)
  BY <1>9, TimingUntouched DEF Shutdown, Restart
<1>10. CASE ShutdownRelease(n) \/ Exit(n) \/ Crash(n)
  <2>1. /\ UNCHANGED lease
        /\ \A x \in Request : \/ renewal'[x] = renewal[x]
                              \/ renewal'[x].phase = "none"
    BY <1>10 DEF ShutdownRelease, Exit, Crash, Gone, TypeOK, NoRenewal
  <2>2. \A m \in Replica : poll'[m] = poll[m] \/ poll'[m].phase # "won"
    BY <1>10 DEF ShutdownRelease, Exit, Crash, Gone, TypeOK, IdlePoll
  <2>3. \A x \in Request : /\ holder'[x] = "none" => holder[x] = "none"
                           /\ holder'[x] = "held" => holder[x] = "held" /\ left'[x] = left[x]
    BY <1>10 DEF ShutdownRelease, Exit, Crash, Gone, TypeOK
  <2>4. QED BY <2>1, <2>2, <2>3 DEF Timing
<1>11. QED BY <1>2, <1>3, <1>4, <1>5, <1>6, <1>7, <1>8, <1>9, <1>10

\* Rows and deadlines count down together, and ages up as rows count down.
LEMMA TimingTick ==
  ASSUME TypeOK, Structure, Timing, Tick
  PROVE  Timing'
<1>0. /\ Ttl \in Nat \ {0}
      /\ \A x \in Request : /\ left[x] \in 0..Ttl /\ lease[x] \in 0..Ttl
                            /\ renewal[x] \in Renewal /\ renewal[x].age \in 0..Ttl
      /\ \A n \in Replica : poll[n] \in Poll /\ poll[n].age \in 0..Ttl
  BY ConstantsAssumption DEF TypeOK, Poll, Renewal
<1>1. /\ \A t, u \in 0..Ttl : t <= u => Sooner(t) <= Sooner(u)
      /\ \A t, a \in 0..Ttl : Ttl <= t + a => Ttl <= Sooner(t) + Older(a)
  BY <1>0 DEF Sooner, Older
<1>2. /\ UNCHANGED holder
      /\ \A x \in Request : lease'[x] = Sooner(lease[x]) /\ left'[x] = Sooner(left[x])
  BY DEF Tick
<1>3. \A x \in Request : /\ renewal'[x].phase = renewal[x].phase
                         /\ renewal[x].phase = "ok" => renewal'[x].age = Older(renewal[x].age)
  BY <1>0 DEF Tick, Renewal
<1>4. \A n \in Replica : /\ poll'[n].phase = poll[n].phase /\ poll'[n].req = poll[n].req
                         /\ poll[n].phase = "won" => poll'[n].age = Older(poll[n].age)
  BY <1>0 DEF Tick, Poll
<1>5. \A n \in Replica : poll[n].phase = "won" => poll[n].req \in Request
  BY DEF Structure, GoodPoll
<1>6. QED BY <1>0, <1>1, <1>2, <1>3, <1>4, <1>5 DEF Timing

\* No step adds a live row but PollCommit, which has counted them first.
LEMMA CapacityStep ==
  ASSUME TypeOK, Structure, Capacity, [Next]_vars
  PROVE  Capacity'
<1>0. /\ Limit \in Nat \ {0} /\ Ttl \in Nat \ {0} /\ IsFiniteSet(Request)
      /\ \A x \in Request : lease[x] \in 0..Ttl
  BY ConstantsAssumption DEF TypeOK
<1>1. IsFiniteSet(Live) /\ Cardinality(Live) \in Nat
  BY <1>0, FS_Subset, FS_CardinalityType DEF Live
<1>2. ASSUME Live' \subseteq Live PROVE Capacity'
  <2>1. Cardinality(Live') <= Cardinality(Live) /\ IsFiniteSet(Live') BY <1>1, <1>2, FS_Subset
  <2>2. Cardinality(Live') \in Nat BY <2>1, FS_CardinalityType
  <2>3. QED BY <1>0, <1>1, <2>1, <2>2 DEF Capacity
<1>3. ASSUME UNCHANGED lease PROVE Capacity'
  BY <1>2, <1>3 DEF Live
<1>4. ASSUME NEW r \in Request, RenewCommit(r) PROVE Capacity'
  <2>1. Live' \subseteq Live BY <1>0, <1>4 DEF RenewCommit, Live, TypeOK
  <2>2. QED BY <1>2, <2>1
<1>5. ASSUME NEW r \in Request, ReleaseDone(r) PROVE Capacity'
  <2>1. \A x \in Request : lease'[x] = lease[x] \/ lease'[x] = 0
    BY <1>5 DEF ReleaseDone, TypeOK
  <2>2. Live' \subseteq Live BY <1>0, <2>1 DEF Live
  <2>3. QED BY <1>2, <2>2
<1>6. ASSUME NEW n \in Replica, OrphanReleased(n) PROVE Capacity'
  <2>1. \A x \in Request : lease'[x] = lease[x] \/ lease'[x] = 0
    BY <1>6 DEF OrphanReleased, TypeOK
  <2>2. Live' \subseteq Live BY <1>0, <2>1 DEF Live
  <2>3. QED BY <1>2, <2>2
<1>7. ASSUME NEW n \in Replica, PollCommit(n) PROVE Capacity'
  <2>1. CASE Cardinality(Live) < Limit /\ lease' = [lease EXCEPT ![poll[n].req] = Ttl]
    <3>1. Live' \subseteq Live \cup {poll[n].req}
      BY <2>1 DEF Live, TypeOK
    <3>2. /\ IsFiniteSet(Live \cup {poll[n].req})
          /\ Cardinality(Live \cup {poll[n].req}) <= Cardinality(Live) + 1
          /\ Cardinality(Live \cup {poll[n].req}) \in Nat
      <4>1. IsFiniteSet(Live \cup {poll[n].req})
            /\ Cardinality(Live \cup {poll[n].req}) =
                 IF poll[n].req \in Live THEN Cardinality(Live) ELSE Cardinality(Live) + 1
        BY <1>1, FS_AddElement
      <4>2. QED BY <1>1, <4>1
    <3>3. Cardinality(Live') <= Cardinality(Live \cup {poll[n].req}) /\ IsFiniteSet(Live')
      BY <3>1, <3>2, FS_Subset
    <3>4. Cardinality(Live') \in Nat BY <3>3, FS_CardinalityType
    <3>5. QED BY <1>0, <1>1, <2>1, <3>2, <3>3, <3>4 DEF Capacity
  <2>2. CASE UNCHANGED lease BY <1>3, <2>2
  <2>3. QED BY <1>7, <2>1, <2>2 DEF PollCommit
<1>8. CASE Tick
  <2>1. Live' \subseteq Live BY <1>0, <1>8 DEF Tick, Live, Sooner
  <2>2. QED BY <1>2, <2>1
<1>9. CASE UNCHANGED vars
  BY <1>3, <1>9 DEF vars
<1>10. ASSUME NEW r \in Request,
              \/ Acquire(r) \/ GiveUp(r) \/ Heartbeat(r) \/ RenewReply(r) \/ RenewError(r)
              \/ OwnershipDeadline(r) \/ Release(r)
       PROVE  Capacity'
  BY <1>3, <1>10 DEF Acquire, GiveUp, Heartbeat, RenewReply, RenewError, OwnershipDeadline, Release
<1>11. ASSUME NEW n \in Replica,
              \/ RetryPoll(n) \/ PollError(n) \/ PollRefused(n) \/ PollGranted(n) \/ PollOrphaned(n)
              \/ Shutdown(n) \/ ShutdownRelease(n) \/ Exit(n) \/ Crash(n) \/ Restart(n)
       PROVE  Capacity'
  BY <1>3, <1>11 DEF RetryPoll, PollError, PollRefused, PollGranted, PollOrphaned, Shutdown,
     ShutdownRelease, Exit, Crash, Restart
<1>12. QED BY <1>4, <1>5, <1>6, <1>7, <1>8, <1>9, <1>10, <1>11 DEF Next

\* The invariant of every behaviour.
THEOREM Invariant == Spec => []Inv
<1>1. Init => Structure /\ Timing /\ Capacity
  <2>1. Init => Timing BY DEF Init, Timing, NoRenewal, IdlePoll
  <2>2. Init => Capacity
    <3>1. Init => Live = {} BY DEF Init, Live
    <3>2. QED BY <3>1, ConstantsAssumption, FS_EmptySet DEF Capacity
  <2>3. QED BY <2>1, <2>2, StructureInit
<1>2. TypeOK /\ TypeOK' /\ Structure /\ Timing /\ Capacity /\ [Next]_vars
        => Structure' /\ Timing' /\ Capacity'
  <2> SUFFICES ASSUME TypeOK, Structure, Timing, Capacity, [Next]_vars
               PROVE  Structure' /\ Timing' /\ Capacity'
    OBVIOUS
  <2>1. Timing'
    <3>1. CASE UNCHANGED vars BY <3>1 DEF vars, Timing
    <3>2. QED BY <3>1, TimingCalls, TimingReplicas, TimingTick DEF Next
  <2>2. QED BY <2>1, StructureStep, CapacityStep
<1>3. QED BY <1>1, <1>2, TypeCorrect, PTL DEF Spec, Inv

\* A row outlives the ownership that rests on it.
LEMMA OwnersAreLive == Inv => Owners \subseteq Live
<1> SUFFICES ASSUME Inv PROVE Owners \subseteq Live
  OBVIOUS
<1>1. \A r \in Request : left[r] \in 0..Ttl /\ lease[r] \in 0..Ttl
  BY DEF Inv, TypeOK
<1>2. QED BY <1>1, ConstantsAssumption DEF Inv, Timing, Owners, Live

\* However many replicas share the key, the callers that own a lease, each by
\* its own replica's clock, stay within the limit.
THEOREM LimitHolds == Spec => []OwnersWithinLimit
<1>1. Inv => OwnersWithinLimit
  <2> SUFFICES ASSUME Inv PROVE OwnersWithinLimit
    OBVIOUS
  <2>2. Owners \subseteq Live
    BY OwnersAreLive
  <2>3. IsFiniteSet(Live) /\ IsFiniteSet(Owners) /\ Cardinality(Owners) <= Cardinality(Live)
    BY <2>2, ConstantsAssumption, FS_Subset DEF Live
  <2>4. Cardinality(Live) \in Nat /\ Cardinality(Owners) \in Nat
    BY <2>3, FS_CardinalityType
  <2>5. QED BY <2>3, <2>4, ConstantsAssumption DEF Inv, Capacity, OwnersWithinLimit
<1>2. QED BY <1>1, Invariant, PTL

-----------------------------------------------------------------------------
(* The refinement of ClusterLimit.                                          *)

\* Rows and owners only fall away in every step but PollCommit, which takes a
\* free slot, and the two replies that make a call the owner of its slot.
LEMMA StepOfLimit == Inv /\ Inv' /\ [Next]_vars => [CL!Next]_<<Live, Owners>>
<1> SUFFICES ASSUME Inv, Inv', [Next]_vars PROVE [CL!Next]_<<Live, Owners>>
  OBVIOUS
<1>0. /\ Ttl \in Nat \ {0}
      /\ \A x \in Request : left[x] \in 0..Ttl /\ lease[x] \in 0..Ttl
  BY ConstantsAssumption DEF Inv, TypeOK
<1>00. (Owners \subseteq Live)'
  BY OwnersAreLive, PTL
<1>1. ASSUME Live' \subseteq Live, Owners' \subseteq Owners PROVE CL!Next
  <2>1. CL!Vacate BY <1>00, <1>1 DEF CL!Vacate
  <2>2. QED BY <2>1 DEF CL!Next
<1>2. ASSUME UNCHANGED <<lease, left, holder>> PROVE UNCHANGED <<Live, Owners>>
  BY <1>2 DEF Live, Owners
<1>3. ASSUME NEW n \in Replica, PollCommit(n) PROVE [CL!Next]_<<Live, Owners>>
  <2> DEFINE r == poll[n].req
  <2>1. r \in Request BY <1>3 DEF PollCommit, Inv, Structure, GoodPoll
  <2>2. UNCHANGED Owners BY <1>3 DEF PollCommit, Owners
  <2>3. CASE UNCHANGED lease BY <2>2, <2>3 DEF Live
  <2>4. CASE Cardinality(Live) < Limit /\ lease' = [lease EXCEPT ![r] = Ttl]
    <3>1. Live' = Live \cup {r} BY <1>0, <2>1, <2>4 DEF Live, Inv, TypeOK
    <3>2. CASE r \in Live BY <2>2, <3>1, <3>2
    <3>3. CASE r \notin Live
      <4>1. CL!Cardinality(Live) = Cardinality(Live)
        BY DEF CL!Cardinality, Cardinality
      <4>2. CL!Occupy(r) BY <2>2, <2>4, <3>1, <3>3, <4>1 DEF CL!Occupy
      <4>3. QED BY <2>1, <4>2 DEF CL!Next
    <3>4. QED BY <3>2, <3>3
  <2>5. QED BY <1>3, <2>3, <2>4 DEF PollCommit
<1>4. ASSUME NEW r \in Request, UNCHANGED lease,
             \A x \in Request \ {r} : left'[x] = left[x] /\ holder'[x] = holder[x]
      PROVE  [CL!Next]_<<Live, Owners>>
  <2>1. UNCHANGED Live BY <1>4 DEF Live
  <2>2. CASE r \in Owners'
    <3>1. Owners' = Owners \cup {r} BY <1>4, <2>2 DEF Owners
    <3>2. CL!Own(r) BY <1>00, <2>1, <2>2, <3>1 DEF CL!Own
    <3>3. QED BY <3>2 DEF CL!Next
  <2>3. CASE r \notin Owners'
    <3>1. Owners' \subseteq Owners BY <1>4, <2>3 DEF Owners
    <3>2. QED BY <1>1, <2>1, <3>1
  <2>4. QED BY <2>2, <2>3
<1>5. ASSUME NEW r \in Request,
             RenewReply(r) \/ RenewError(r) \/ OwnershipDeadline(r) \/ Release(r)
      PROVE  [CL!Next]_<<Live, Owners>>
  <2>1. /\ UNCHANGED lease
        /\ \A x \in Request \ {r} : left'[x] = left[x] /\ holder'[x] = holder[x]
    BY <1>5 DEF RenewReply, RenewError, OwnershipDeadline, Release, LoseOwnership, Inv, TypeOK
  <2>2. QED BY <1>4, <2>1
<1>6. ASSUME NEW n \in Replica, PollGranted(n) PROVE [CL!Next]_<<Live, Owners>>
  <2>1. poll[n].req \in Request BY <1>6 DEF PollGranted, Inv, Structure, GoodPoll
  <2>2. /\ UNCHANGED lease
        /\ \A x \in Request \ {poll[n].req} : left'[x] = left[x] /\ holder'[x] = holder[x]
    BY <1>6 DEF PollGranted, Inv, TypeOK
  <2>3. QED BY <1>4, <2>1, <2>2
<1>7. ASSUME NEW r \in Request, RenewCommit(r) PROVE UNCHANGED <<Live, Owners>>
  <2>1. UNCHANGED Owners BY <1>7 DEF RenewCommit, Owners
  <2>2. \A x \in Request : lease'[x] = lease[x] \/ (lease[x] > 0 /\ lease'[x] = Ttl)
    BY <1>7 DEF RenewCommit, Inv, TypeOK
  <2>3. UNCHANGED Live BY <1>0, <2>2 DEF Live
  <2>4. QED BY <2>1, <2>3
<1>8. ASSUME NEW r \in Request, ReleaseDone(r) PROVE CL!Next
  <2>1. \A x \in Request : lease'[x] = lease[x] \/ lease'[x] = 0
    BY <1>8 DEF ReleaseDone, Inv, TypeOK
  <2>2. \A x \in Request : holder'[x] = "held" => holder[x] = "held"
    BY <1>8 DEF ReleaseDone, Inv, TypeOK
  <2>3. left' = left BY <1>8 DEF ReleaseDone
  <2>4. Live' \subseteq Live BY <1>0, <2>1 DEF Live
  <2>5. Owners' \subseteq Owners BY <2>2, <2>3 DEF Owners
  <2>6. QED BY <1>1, <2>4, <2>5
<1>9. ASSUME NEW n \in Replica, PollError(n) \/ OrphanReleased(n) PROVE CL!Next
  <2>1. \A x \in Request : lease'[x] = lease[x] \/ lease'[x] = 0
    BY <1>9 DEF PollError, OrphanReleased, Inv, TypeOK
  <2>2. \A x \in Request : holder'[x] = "held" => holder[x] = "held"
    BY <1>9 DEF PollError, OrphanReleased, Inv, TypeOK
  <2>3. left' = left BY <1>9 DEF PollError, OrphanReleased
  <2>4. Live' \subseteq Live BY <1>0, <2>1 DEF Live
  <2>5. Owners' \subseteq Owners BY <2>2, <2>3 DEF Owners
  <2>6. QED BY <1>1, <2>4, <2>5
<1>10. ASSUME NEW n \in Replica, ShutdownRelease(n) \/ Crash(n) PROVE CL!Next
  <2>1. UNCHANGED lease BY <1>10 DEF ShutdownRelease, Crash
  <2>2. \A x \in Request : holder'[x] = "held" => holder[x] = "held" /\ left'[x] \in {left[x], 0}
    BY <1>10 DEF ShutdownRelease, Crash, Inv, TypeOK
  <2>3. Live' \subseteq Live BY <2>1 DEF Live
  <2>4. Owners' \subseteq Owners BY <1>0, <2>2 DEF Owners
  <2>5. QED BY <1>1, <2>3, <2>4
<1>11. CASE Tick
  <2>1. Live' \subseteq Live BY <1>0, <1>11 DEF Tick, Live, Sooner
  <2>2. Owners' \subseteq Owners BY <1>0, <1>11 DEF Tick, Owners, Sooner
  <2>3. QED BY <1>1, <2>1, <2>2
<1>12. ASSUME NEW r \in Request, Acquire(r) \/ GiveUp(r) \/ Heartbeat(r)
       PROVE  UNCHANGED <<lease, left, holder>>
  BY <1>12 DEF Acquire, GiveUp, Heartbeat
<1>13. ASSUME NEW n \in Replica,
              \/ RetryPoll(n) \/ PollRefused(n) \/ PollOrphaned(n)
              \/ Shutdown(n) \/ Exit(n) \/ Restart(n)
       PROVE  UNCHANGED <<lease, left, holder>>
  BY <1>13 DEF RetryPoll, PollRefused, PollOrphaned, Shutdown, Exit, Restart
<1>14. CASE UNCHANGED vars
  BY <1>2, <1>14 DEF vars
<1>15. QED
  BY <1>2, <1>3, <1>5, <1>6, <1>7, <1>8, <1>9, <1>10, <1>11, <1>12, <1>13, <1>14 DEF Next

\* The replicas together implement the cluster's limit: seen as slots and
\* owners, every step takes a free slot, owns one, or gives some up.
THEOREM ClusterLimitImplemented == Spec => ImplementsClusterLimit
<1>1. Init => CL!Init
  BY DEF Init, CL!Init, Live, Owners
<1>2. QED BY <1>1, StepOfLimit, Invariant, PTL DEF Spec, CL!Spec, CL!vars, ImplementsClusterLimit

-----------------------------------------------------------------------------
(***************************************************************************)
(* Nobody and nothing is forgotten: a queue with somebody in it is polled, *)
(* a call that failed never holds, and a live row has somebody who answers *)
(* for it.                                                                 *)
(* All three rest on the invariant Structure: who may stand in a queue,    *)
(* and whom a run may poll for.                                            *)
(***************************************************************************)

-----------------------------------------------------------------------------
(* Queues.                                                                 *)

\* With q as its queue, replica n is not asleep.
Awake(n, q) == status[n] = "up" /\ q # <<>> => poll'[n].phase # "idle" \/ n \in retry'

\* Whoever calls processHead leaves the replica awake.
LEMMA ProcessHeadServes ==
  ASSUME TypeOK, NEW n \in Replica, NEW q \in Seq(Request), ProcessHead(n, q)
  PROVE  /\ Awake(n, q)
         /\ \A m \in Replica \ {n} : poll'[m] = poll[m] /\ (m \in retry => m \in retry')
<1>1. NextPoll(n, q).phase = "sent" \/ ~(status[n] = "up" /\ q # <<>>)
  BY DEF NextPoll
<1>2. QED BY <1>1 DEF ProcessHead, Awake, TypeOK

\* So does the end of a run that does not retry.
LEMMA EndRunServes ==
  ASSUME TypeOK, NEW n \in Replica, NEW q \in Seq(Request), EndRun(n, q)
  PROVE  /\ Awake(n, q)
         /\ queue' = [queue EXCEPT ![n] = q]
         /\ \A m \in Replica \ {n} : poll'[m] = poll[m]
<1>1. NextPoll(n, q).phase = "sent" \/ ~(status[n] = "up" /\ q # <<>>)
  BY DEF NextPoll
<1>2. QED BY <1>1 DEF EndRun, Awake, TypeOK

\* What remains to be shown of a step at replica n.
LEMMA ServedByReplica ==
  ASSUME QueueServed, NEW n \in Replica,
         \A m \in Replica \ {n} :
           /\ queue'[m] = queue[m] /\ poll'[m] = poll[m] /\ status'[m] = status[m]
           /\ m \in retry => m \in retry',
         status'[n] = "up" /\ queue'[n] # <<>> => poll'[n].phase # "idle" \/ n \in retry'
  PROVE  QueueServed'
BY DEF QueueServed

\* The calls' steps that touch a queue.
LEMMA ServedCalls ==
  ASSUME TypeOK, QueueServed, NEW r \in Request,
         Acquire(r) \/ GiveUp(r) \/ ReleaseDone(r)
  PROVE  QueueServed'
<1> DEFINE n == Home[r]
<1>0. n \in Replica /\ queue[n] \in Seq(Request)
  BY ConstantsAssumption DEF TypeOK
<1>1. CASE Acquire(r)
  <2> DEFINE q == Append(queue[n], r)
  <2>1. CASE UNCHANGED <<queue, poll, retry>>
    BY <1>1, <2>1 DEF Acquire, QueueServed
  <2>2. CASE queue' = [queue EXCEPT ![n] = q] /\ queue[n] = <<>> /\ ProcessHead(n, q)
    <3>1. q \in Seq(Request) BY <1>0
    <3>2. /\ Awake(n, q)
          /\ \A m \in Replica \ {n} : poll'[m] = poll[m] /\ (m \in retry => m \in retry')
      BY <1>0, <2>2, <3>1, ProcessHeadServes
    <3>3. status' = status BY <1>1 DEF Acquire
    <3>4. QED BY <1>0, <2>2, <3>2, <3>3, ServedByReplica DEF Awake, TypeOK
  <2>3. CASE queue' = [queue EXCEPT ![n] = q] /\ queue[n] # <<>> /\ UNCHANGED <<poll, retry>>
    <3>1. status' = status BY <1>1 DEF Acquire
    <3>2. QED BY <1>0, <2>3, <3>1 DEF QueueServed, TypeOK
  <2>4. QED BY <1>1, <2>1, <2>2, <2>3 DEF Acquire
<1>2. CASE GiveUp(r)
  <2> DEFINE q == Without(queue[n], r)
  <2>1. q \in Seq(Request) BY <1>0, WithoutType
  <2>2. ProcessHead(n, q) /\ queue' = [queue EXCEPT ![n] = q] /\ status' = status
    BY <1>2 DEF GiveUp
  <2>3. /\ Awake(n, q)
        /\ \A m \in Replica \ {n} : poll'[m] = poll[m] /\ (m \in retry => m \in retry')
    BY <1>0, <2>1, <2>2, ProcessHeadServes
  <2>4. QED BY <1>0, <2>2, <2>3, ServedByReplica DEF Awake, TypeOK
<1>3. CASE ReleaseDone(r)
  <2>1. ProcessHead(n, queue[n]) /\ queue' = queue /\ status' = status
    BY <1>3 DEF ReleaseDone
  <2>2. /\ Awake(n, queue[n])
        /\ \A m \in Replica \ {n} : poll'[m] = poll[m] /\ (m \in retry => m \in retry')
    BY <1>0, <2>1, ProcessHeadServes
  <2>3. QED BY <1>0, <2>1, <2>2, ServedByReplica DEF Awake
<1>4. QED BY <1>1, <1>2, <1>3

\* The replicas' steps: a refused run arms the timer, any other polls on.
LEMMA ServedReplicas ==
  ASSUME TypeOK, Structure, QueueServed, NEW n \in Replica,
         \/ RetryPoll(n) \/ PollCommit(n) \/ PollError(n) \/ PollRefused(n)
         \/ PollGranted(n) \/ PollOrphaned(n) \/ OrphanReleased(n)
         \/ Shutdown(n) \/ ShutdownRelease(n) \/ Exit(n) \/ Crash(n) \/ Restart(n)
  PROVE  QueueServed'
<1>0. queue[n] \in Seq(Request) BY DEF TypeOK
<1>1. ASSUME NEW q \in Seq(Request), EndRun(n, q), UNCHANGED <<status, retry>>
      PROVE  QueueServed'
  <2>1. /\ Awake(n, q) /\ queue' = [queue EXCEPT ![n] = q]
        /\ \A m \in Replica \ {n} : poll'[m] = poll[m]
    BY <1>1, EndRunServes
  <2>2. QED BY <1>1, <2>1, ServedByReplica DEF Awake, TypeOK
<1>2. CASE RetryPoll(n)
  <2>1. ProcessHead(n, queue[n]) /\ queue' = queue /\ status' = status
    BY <1>2 DEF RetryPoll
  <2>2. /\ Awake(n, queue[n])
        /\ \A m \in Replica \ {n} : poll'[m] = poll[m] /\ (m \in retry => m \in retry')
    BY <1>0, <2>1, ProcessHeadServes
  <2>3. QED BY <2>1, <2>2, ServedByReplica DEF Awake
<1>3. CASE PollCommit(n)
  <2>1. poll'[n].phase # "idle" /\ UNCHANGED <<queue, status, retry>>
    BY <1>3 DEF PollCommit, TypeOK, Poll
  <2>2. \A m \in Replica \ {n} : poll'[m] = poll[m]
    BY <1>3 DEF PollCommit, TypeOK
  <2>3. QED BY <2>1, <2>2, ServedByReplica
<1>4. CASE PollOrphaned(n)
  <2>1. poll'[n].phase # "idle" /\ UNCHANGED <<queue, status, retry>>
    BY <1>4 DEF PollOrphaned, TypeOK, Poll
  <2>2. \A m \in Replica \ {n} : poll'[m] = poll[m]
    BY <1>4 DEF PollOrphaned, TypeOK
  <2>3. QED BY <2>1, <2>2, ServedByReplica
<1>5. CASE OrphanReleased(n)
  BY <1>0, <1>1, <1>5 DEF OrphanReleased
<1>6. CASE PollError(n) \/ PollGranted(n)
  <2>1. CASE poll[n].req \in Request
    <3>1. Without(queue[n], poll[n].req) \in Seq(Request) BY <1>0, <2>1, WithoutType
    <3>2. \E q \in Seq(Request) : EndRun(n, q) /\ UNCHANGED <<status, retry>>
      BY <1>0, <1>6, <3>1 DEF PollError, PollGranted
    <3>3. QED BY <1>1, <3>2
  <2>2. poll[n].req \in Request
    BY <1>6 DEF PollError, PollGranted, Structure, GoodPoll
  <2>3. QED BY <2>1, <2>2
<1>7. CASE PollRefused(n)
  <2>1. CASE EndRun(n, queue[n]) /\ UNCHANGED <<status, retry>>
    BY <1>0, <1>1, <2>1
  <2>2. CASE EndRun(n, Without(queue[n], poll[n].req)) /\ UNCHANGED <<status, retry>>
    <3>1. poll[n].req \in Request
      BY <1>7 DEF PollRefused, Structure, GoodPoll
    <3>2. Without(queue[n], poll[n].req) \in Seq(Request) BY <1>0, <3>1, WithoutType
    <3>3. QED BY <1>1, <2>2, <3>2
  <2>3. CASE /\ poll' = [poll EXCEPT ![n] = IdlePoll]
             /\ retry' = IF MayRetry(n) THEN retry \cup {n} ELSE retry
             /\ UNCHANGED <<queue, status>>
    <3>1. queue'[n] # <<>> => n \in retry' BY <2>3 DEF MayRetry
    <3>2. \A m \in Replica \ {n} : poll'[m] = poll[m] /\ (m \in retry => m \in retry')
      BY <2>3 DEF TypeOK
    <3>3. QED BY <2>3, <3>1, <3>2, ServedByReplica
  <2>4. QED BY <1>7, <2>1, <2>2, <2>3 DEF PollRefused
<1>8. CASE Shutdown(n)
  BY <1>8, ServedByReplica DEF Shutdown, TypeOK
<1>9. CASE ShutdownRelease(n)
  BY <1>9 DEF ShutdownRelease, QueueServed
<1>10. CASE Exit(n)
  BY <1>10, ServedByReplica DEF Exit, Gone, TypeOK
<1>11. CASE Crash(n)
  BY <1>11, ServedByReplica DEF Crash, Gone, TypeOK
<1>12. CASE Restart(n)
  <2>1. queue[n] = <<>> BY <1>12 DEF Restart, Structure
  <2>2. QED BY <1>12, <2>1, ServedByReplica DEF Restart, TypeOK
<1>13. QED BY <1>2, <1>3, <1>4, <1>5, <1>6, <1>7, <1>8, <1>9, <1>10, <1>11, <1>12

\* A replica with a waiter is polling for its head or has a poll timer armed,
\* after every step of every behaviour.
THEOREM QueueAlwaysServed == Spec => []QueueServed
<1>1. Init => QueueServed BY DEF Init, QueueServed
<1>2. Inv /\ QueueServed /\ [Next]_vars => QueueServed'
  <2> SUFFICES ASSUME Inv, QueueServed, [Next]_vars PROVE QueueServed'
    OBVIOUS
  <2>1. TypeOK /\ Structure BY DEF Inv
  <2>2. ASSUME NEW r \in Request,
               \/ Heartbeat(r) \/ RenewCommit(r) \/ RenewReply(r) \/ RenewError(r)
               \/ OwnershipDeadline(r) \/ Release(r)
        PROVE  QueueServed'
    BY <2>2 DEF Heartbeat, RenewCommit, RenewReply, RenewError, OwnershipDeadline, Release,
       QueueServed
  <2>3. CASE Tick
    <3>1. \A n \in Replica : poll'[n].phase = poll[n].phase BY <2>1, <2>3 DEF Tick, TypeOK, Poll
    <3>2. QED BY <2>3, <3>1 DEF Tick, QueueServed
  <2>4. CASE UNCHANGED vars BY <2>4 DEF vars, QueueServed
  <2>5. QED BY <2>1, <2>2, <2>3, <2>4, ServedCalls, ServedReplicas DEF Next
<1>3. QED BY <1>1, <1>2, Invariant, PTL DEF Spec

-----------------------------------------------------------------------------
(* Answers.  Only a waiter becomes a holder, and it is told so in the same  *)
(* step; an answer is never taken back.                                     *)

Told ==
  /\ \A n \in Replica : \A i \in DOMAIN queue[n] : result[queue[n][i]] = "pending"
  /\ \A r \in Request : holder[r] \in {"held", "releasing"} => result[r] = "ok"

\* A queue of which a call was taken out, and answered or not, is as good.
LEMMA ToldWithout ==
  ASSUME TypeOK, Structure, Told, NEW n \in Replica, NEW r \in Request,
         \A x \in Request \ {r} : result'[x] = result[x]
  PROVE  \A k \in DOMAIN Without(queue[n], r) : result'[Without(queue[n], r)[k]] = "pending"
<1>1. queue[n] \in Seq(Request) /\ Without(queue[n], r) \in Seq(Request)
  BY WithoutType DEF TypeOK
<1>2. \A k \in DOMAIN Without(queue[n], r) : Without(queue[n], r)[k] # r
  BY <1>1, WithoutGood DEF Structure
<1>3. ASSUME NEW k \in DOMAIN Without(queue[n], r)
      PROVE  result'[Without(queue[n], r)[k]] = "pending"
  <2>1. PICK j \in DOMAIN queue[n] : Without(queue[n], r)[k] = queue[n][j]
    BY <1>1, WithoutType
  <2>2. queue[n][j] \in Request \ {r} BY <1>1, <1>2, <2>1
  <2>3. QED BY <2>1, <2>2 DEF Told
<1>4. QED BY <1>3

\* What remains to be shown of a step at replica n that answers only r.
LEMMA ToldByReplica ==
  ASSUME TypeOK, Structure, Told, NEW n \in Replica, NEW r \in Request, Home[r] = n,
         \A m \in Replica \ {n} : queue'[m] = queue[m],
         \A x \in Request \ {r} : result'[x] = result[x] /\ holder'[x] = holder[x],
         \A k \in DOMAIN queue'[n] : result'[queue'[n][k]] = "pending",
         holder'[r] \in {"held", "releasing"} => result'[r] = "ok"
  PROVE  Told'
<1>1. \A m \in Replica \ {n} : \A i \in DOMAIN queue[m] : queue[m][i] \in Request \ {r}
  BY DEF Structure, GoodQueue, TypeOK
<1>2. QED BY <1>1 DEF Told

\* A caller that gives up was no holder, and one that comes is told to wait.
LEMMA ToldCalls ==
  ASSUME TypeOK, Structure, Told, NEW r \in Request,
         \/ Acquire(r) \/ GiveUp(r) \/ Heartbeat(r) \/ RenewCommit(r) \/ RenewReply(r)
         \/ RenewError(r) \/ OwnershipDeadline(r) \/ Release(r) \/ ReleaseDone(r)
  PROVE  Told'
<1> DEFINE n == Home[r]
<1>0. n \in Replica /\ queue[n] \in Seq(Request) /\ result[r] \in Answer
  BY ConstantsAssumption DEF TypeOK
<1>1. CASE Acquire(r)
  <2>1. /\ result[r] = "none" /\ holder[r] = "none" /\ holder' = holder
        /\ \A x \in Request \ {r} : result'[x] = result[x]
    BY <1>1 DEF Acquire, Settle, Structure, TypeOK
  <2>2. CASE queue' = queue
    <3>1. \A i \in DOMAIN queue[n] : queue[n][i] \in Request \ {r}
      BY <1>0, <2>1 DEF Told
    <3>2. QED BY <1>0, <2>1, <2>2, <3>1, ToldByReplica DEF Told
  <2>3. CASE queue' = [queue EXCEPT ![n] = Append(queue[n], r)] /\ Settle(r, "pending")
    <3>1. queue'[n] = Append(queue[n], r) /\ \A m \in Replica \ {n} : queue'[m] = queue[m]
      BY <1>0, <2>3 DEF TypeOK
    <3>2. result'[r] = "pending" BY <2>1, <2>3 DEF Settle, TypeOK
    <3>3. \A k \in DOMAIN queue'[n] : result'[queue'[n][k]] = "pending"
      BY <1>0, <2>1, <3>1, <3>2 DEF Told
    <3>4. QED BY <1>0, <2>1, <3>1, <3>3, ToldByReplica
  <2>4. QED BY <1>1, <2>2, <2>3 DEF Acquire
<1>2. CASE GiveUp(r)
  <2>1. /\ holder' = holder /\ \A x \in Request \ {r} : result'[x] = result[x]
        /\ queue' = [queue EXCEPT ![n] = Without(queue[n], r)]
    BY <1>2 DEF GiveUp, Settle, TypeOK
  <2>2. holder[r] \notin {"held", "releasing"} BY <1>2 DEF GiveUp, Told
  <2>3. /\ queue'[n] = Without(queue[n], r)
        /\ \A m \in Replica \ {n} : queue'[m] = queue[m]
    BY <1>0, <2>1 DEF TypeOK
  <2>4. \A k \in DOMAIN queue'[n] : result'[queue'[n][k]] = "pending"
    <3>1. \A k \in DOMAIN Without(queue[n], r) : result'[Without(queue[n], r)[k]] = "pending"
      BY <1>0, <2>1, ToldWithout
    <3>2. QED BY <2>3, <3>1
  <2>5. QED BY <1>0, <2>1, <2>2, <2>3, <2>4, ToldByReplica
<1>3. CASE \/ Heartbeat(r) \/ RenewCommit(r) \/ RenewReply(r) \/ RenewError(r)
           \/ OwnershipDeadline(r) \/ Release(r) \/ ReleaseDone(r)
  <2>1. UNCHANGED <<queue, result>>
    BY <1>3 DEF Heartbeat, RenewCommit, RenewReply, RenewError, OwnershipDeadline, Release,
       ReleaseDone
  <2>2. \A x \in Request : holder'[x] \in {"held", "releasing"}
                           => holder[x] \in {"held", "releasing"}
    BY <1>3 DEF Heartbeat, RenewCommit, RenewReply, RenewError, OwnershipDeadline, Release,
       ReleaseDone, LoseOwnership, TypeOK
  <2>3. QED BY <2>1, <2>2 DEF Told
<1>4. QED BY <1>1, <1>2, <1>3

\* Whoever a reply makes a holder was still waiting, and is told so.
LEMMA ToldReplicas ==
  ASSUME TypeOK, Structure, Told, NEW n \in Replica,
         \/ RetryPoll(n) \/ PollCommit(n) \/ PollError(n) \/ PollRefused(n)
         \/ PollGranted(n) \/ PollOrphaned(n) \/ OrphanReleased(n)
         \/ Shutdown(n) \/ ShutdownRelease(n) \/ Exit(n) \/ Crash(n) \/ Restart(n)
  PROVE  Told'
<1> DEFINE r == poll[n].req
<1>0. queue[n] \in Seq(Request) BY DEF TypeOK
<1>1. poll[n].phase # "idle" => r \in Request /\ Home[r] = n /\ holder[r] = "none"
  BY DEF Structure, GoodPoll
<1>2. CASE \/ RetryPoll(n) \/ PollCommit(n) \/ PollOrphaned(n) \/ ShutdownRelease(n)
           \/ Exit(n) \/ Restart(n) \/ OrphanReleased(n)
  <2>1. result' = result
    BY <1>2 DEF RetryPoll, PollCommit, PollOrphaned, ShutdownRelease, Exit, Restart,
       OrphanReleased
  <2>2. queue' = queue
    BY <1>2 DEF RetryPoll, PollCommit, PollOrphaned, ShutdownRelease, Exit, Restart,
       OrphanReleased, EndRun, TypeOK
  <2>3. \A x \in Request : holder'[x] \in {"held", "releasing"}
                           => holder[x] \in {"held", "releasing"}
    BY <1>2 DEF RetryPoll, PollCommit, PollOrphaned, ShutdownRelease, Exit, Restart,
       OrphanReleased, TypeOK
  <2>4. QED BY <2>1, <2>2, <2>3 DEF Told
<1>3. CASE PollError(n)
  <2>1. /\ r \in Request /\ Home[r] = n /\ holder[r] = "none"
    BY <1>1, <1>3 DEF PollError
  <2>2. /\ \A x \in Request \ {r} : result'[x] = result[x] /\ holder'[x] = holder[x]
        /\ holder'[r] \in {"none", "leaked"}
    BY <1>3, <2>1 DEF PollError, Settle, TypeOK
  <2>3. CASE queue' = [queue EXCEPT ![n] = Without(queue[n], r)]
    <3>1. /\ queue'[n] = Without(queue[n], r)
          /\ \A m \in Replica \ {n} : queue'[m] = queue[m]
      BY <2>3 DEF TypeOK
    <3>2. \A k \in DOMAIN queue'[n] : result'[queue'[n][k]] = "pending"
      BY <2>1, <2>2, <3>1, ToldWithout
    <3>3. QED BY <2>1, <2>2, <3>1, <3>2, ToldByReplica
  <2>4. CASE queue' = [queue EXCEPT ![n] = queue[n]] /\ result' = result
    BY <2>1, <2>2, <2>4, ToldByReplica DEF Told, TypeOK
  <2>5. QED BY <1>3, <2>3, <2>4 DEF PollError, EndRun
<1>4. CASE PollRefused(n)
  <2>1. r \in Request /\ Home[r] = n /\ holder[r] = "none" /\ holder' = holder
    BY <1>1, <1>4 DEF PollRefused
  <2>2. CASE result' = result /\ queue' = [queue EXCEPT ![n] = queue[n]]
    BY <2>1, <2>2 DEF Told, TypeOK
  <2>3. CASE result' = result /\ queue' = queue
    BY <2>1, <2>3 DEF Told
  <2>4. CASE Settle(r, "queue_full") /\ queue' = [queue EXCEPT ![n] = Without(queue[n], r)]
    <3>1. \A x \in Request \ {r} : result'[x] = result[x] BY <2>1, <2>4, SettleKeeps DEF Answer
    <3>2. /\ queue'[n] = Without(queue[n], r)
          /\ \A m \in Replica \ {n} : queue'[m] = queue[m]
      BY <2>4 DEF TypeOK
    <3>3. \A k \in DOMAIN queue'[n] : result'[queue'[n][k]] = "pending"
      BY <2>1, <3>1, <3>2, ToldWithout
    <3>4. QED BY <2>1, <3>1, <3>2, <3>3, ToldByReplica
  <2>5. QED BY <1>4, <2>2, <2>3, <2>4 DEF PollRefused, EndRun
<1>5. CASE PollGranted(n)
  <2>1. r \in Request /\ Home[r] = n /\ 1 \in DOMAIN queue[n] /\ queue[n][1] = r
    BY <1>0, <1>1, <1>5 DEF PollGranted, Stale, IsHead
  <2>2. result[r] = "pending" BY <2>1 DEF Told
  <2>3. /\ result'[r] = "ok"
        /\ \A x \in Request \ {r} : result'[x] = result[x] /\ holder'[x] = holder[x]
    BY <1>5, <2>1, <2>2 DEF PollGranted, Settle, TypeOK
  <2>4. queue' = [queue EXCEPT ![n] = Without(queue[n], r)]
    BY <1>5 DEF PollGranted, EndRun
  <2>5. /\ queue'[n] = Without(queue[n], r)
        /\ \A m \in Replica \ {n} : queue'[m] = queue[m]
    BY <2>4 DEF TypeOK
  <2>6. \A k \in DOMAIN queue'[n] : result'[queue'[n][k]] = "pending"
    BY <2>1, <2>3, <2>5, ToldWithout
  <2>7. QED BY <2>1, <2>3, <2>5, <2>6, ToldByReplica
<1>6. CASE Shutdown(n) \/ Crash(n)
  <2>1. /\ queue' = [queue EXCEPT ![n] = <<>>]
        /\ \A x \in Request : Home[x] # n => result'[x] = result[x]
        /\ \A x \in Request : result[x] = "ok" => result'[x] = "ok"
    BY <1>6 DEF Shutdown, Crash, At, TypeOK
  <2>2. \A x \in Request : holder'[x] \in {"held", "releasing"}
                           => holder[x] \in {"held", "releasing"}
    BY <1>6 DEF Shutdown, Crash, TypeOK
  <2>3. \A m \in Replica \ {n} : \A i \in DOMAIN queue[m] :
          queue[m][i] \in Request /\ Home[queue[m][i]] # n
    BY DEF Structure, GoodQueue, TypeOK
  <2>4. \A m \in Replica : \A i \in DOMAIN queue'[m] : result'[queue'[m][i]] = "pending"
    <3>1. queue'[n] = <<>> /\ \A m \in Replica \ {n} : queue'[m] = queue[m]
      BY <2>1 DEF TypeOK
    <3>2. DOMAIN queue'[n] = {} BY <3>1
    <3>3. QED BY <2>1, <2>3, <3>1, <3>2 DEF Told
  <2>5. QED BY <2>1, <2>2, <2>4 DEF Told
<1>7. QED BY <1>2, <1>3, <1>4, <1>5, <1>6

\* A call that was told it failed never holds a lease, however late the reply
\* of the store comes.
THEOREM FailedCallsHoldNothing == Spec => []NoHolderForFailedCall
<1>1. Init => Told BY DEF Init, Told
<1>2. Inv /\ Told /\ [Next]_vars => Told'
  <2> SUFFICES ASSUME Inv, Told, [Next]_vars PROVE Told'
    OBVIOUS
  <2>1. TypeOK /\ Structure BY DEF Inv
  <2>2. CASE Tick BY <2>2 DEF Tick, Told
  <2>3. CASE UNCHANGED vars BY <2>3 DEF vars, Told
  <2>4. QED BY <2>1, <2>2, <2>3, ToldCalls, ToldReplicas DEF Next
<1>3. Told => NoHolderForFailedCall BY DEF Told, NoHolderForFailedCall, Failure
<1>4. QED BY <1>1, <1>2, <1>3, Invariant, PTL DEF Spec

-----------------------------------------------------------------------------
(* Rows.                                                                    *)

\* A holder that lets go is releasing, then its row is deleted or given up.
LEMMA RowsCalls ==
  ASSUME TypeOK, Structure, RowsAccountedFor, NEW r \in Request,
         \/ Acquire(r) \/ GiveUp(r) \/ Heartbeat(r) \/ RenewCommit(r) \/ RenewReply(r)
         \/ RenewError(r) \/ OwnershipDeadline(r) \/ Release(r) \/ ReleaseDone(r)
  PROVE  RowsAccountedFor'
<1>1. status' = status
  BY DEF Acquire, GiveUp, Heartbeat, RenewCommit, RenewReply, RenewError, OwnershipDeadline,
     Release, ReleaseDone
<1>2. \A n \in Replica : poll[n].phase \in {"won", "orphan"} => poll'[n] = poll[n]
  BY DEF Acquire, GiveUp, Heartbeat, RenewCommit, RenewReply, RenewError, OwnershipDeadline,
     Release, ReleaseDone, ProcessHead, TypeOK
<1>3. Live' \subseteq Live
  <2>1. CASE RenewCommit(r) \/ ReleaseDone(r)
    <3>1. \/ lease' = lease \/ lease' = [lease EXCEPT ![r] = 0]
          \/ lease[r] > 0 /\ lease' = [lease EXCEPT ![r] = Ttl]
      BY <2>1 DEF RenewCommit, ReleaseDone
    <3>2. CASE lease[r] > 0 /\ lease' = [lease EXCEPT ![r] = Ttl]
      BY <3>2 DEF Live, TypeOK
    <3>3. CASE lease' = lease \/ lease' = [lease EXCEPT ![r] = 0]
      <4>1. \A x \in Request : lease'[x] = lease[x] \/ lease'[x] = 0 BY <3>3 DEF TypeOK
      <4>2. QED BY <4>1 DEF Live
    <3>4. QED BY <3>1, <3>2, <3>3
  <2>2. CASE ~(RenewCommit(r) \/ ReleaseDone(r))
    BY <2>2 DEF Live, Acquire, GiveUp, Heartbeat, RenewReply, RenewError, OwnershipDeadline,
       Release
  <2>3. QED BY <2>1, <2>2
<1>4. \A x \in Live' : /\ holder[x] \in {"held", "releasing"}
                           => holder'[x] \in {"held", "releasing", "leaked"}
                       /\ holder[x] = "leaked" => holder'[x] = "leaked"
  BY DEF Live, Acquire, GiveUp, Heartbeat, RenewCommit, RenewReply, RenewError,
         OwnershipDeadline, Release, ReleaseDone, LoseOwnership, TypeOK
<1>5. \A x \in Request : Home[x] \in Replica BY ConstantsAssumption
<1>6. QED BY <1>1, <1>2, <1>3, <1>4, <1>5 DEF RowsAccountedFor, Live

\* A run that won a row turns it into a holder, deletes it or gives it up, and
\* so does the death of the process.
LEMMA RowsReplicas ==
  ASSUME TypeOK, Structure, RowsAccountedFor, NEW n \in Replica,
         \/ RetryPoll(n) \/ PollCommit(n) \/ PollError(n) \/ PollRefused(n)
         \/ PollGranted(n) \/ PollOrphaned(n) \/ OrphanReleased(n)
         \/ Shutdown(n) \/ ShutdownRelease(n) \/ Exit(n) \/ Crash(n) \/ Restart(n)
  PROVE  RowsAccountedFor'
<1> DEFINE r == poll[n].req
<1>0. \A x \in Request : Home[x] \in Replica BY ConstantsAssumption
<1>1. poll[n].phase # "idle" => r \in Request /\ Home[r] = n /\ holder[r] = "none"
  BY DEF Structure, GoodPoll
<1>2. CASE RetryPoll(n) \/ PollRefused(n) \/ Shutdown(n)
  <2>1. UNCHANGED <<holder, lease>> BY <1>2 DEF RetryPoll, PollRefused, Shutdown
  <2>2. \A m \in Replica : status'[m] = "down" => status[m] = "down"
    BY <1>2 DEF RetryPoll, PollRefused, Shutdown, TypeOK
  <2>3. \A m \in Replica : poll[m].phase \in {"won", "orphan"} => poll'[m] = poll[m]
    BY <1>2 DEF RetryPoll, PollRefused, Shutdown, ProcessHead, EndRun, TypeOK
  <2>4. QED BY <1>0, <2>1, <2>2, <2>3 DEF RowsAccountedFor, Live
<1>3. CASE PollCommit(n)
  <2>1. UNCHANGED <<holder, status>> /\ \A m \in Replica \ {n} : poll'[m] = poll[m]
    BY <1>3 DEF PollCommit, TypeOK
  <2>2. r \in Request /\ poll[n].phase = "sent" BY <1>1, <1>3 DEF PollCommit
  <2>3. CASE /\ lease' = [lease EXCEPT ![r] = Ttl]
             /\ poll' = [poll EXCEPT ![n].phase = "won"]
    <3>1. poll'[n].phase = "won" /\ poll'[n].req = r BY <2>3 DEF TypeOK, Poll
    <3>2. \A x \in Request \ {r} : lease'[x] = lease[x] BY <2>3 DEF TypeOK
    <3>3. QED BY <1>0, <1>1, <2>1, <2>2, <3>1, <3>2 DEF RowsAccountedFor, Live
  <2>4. CASE UNCHANGED lease
    BY <1>0, <2>1, <2>2, <2>4 DEF RowsAccountedFor, Live
  <2>5. QED BY <1>3, <2>3, <2>4 DEF PollCommit
<1>4. CASE PollError(n) \/ PollGranted(n) \/ OrphanReleased(n)
  <2>1. r \in Request /\ Home[r] = n
    BY <1>1, <1>4 DEF PollError, PollGranted, OrphanReleased
  <2>2. /\ status' = status /\ \A m \in Replica \ {n} : poll'[m] = poll[m]
        /\ \A x \in Request \ {r} : holder'[x] = holder[x] /\ lease'[x] = lease[x]
    BY <1>4, <2>1 DEF PollError, PollGranted, OrphanReleased, EndRun, TypeOK
  <2>3. r \in Live' =>
          \/ holder'[r] \in {"held", "releasing"} /\ status[n] # "down"
          \/ holder'[r] = "leaked"
    <3>1. CASE PollGranted(n)
      BY <2>1, <3>1 DEF PollGranted, Stale, TypeOK
    <3>2. CASE OrphanReleased(n)
      BY <2>1, <3>2 DEF OrphanReleased, Live, TypeOK
    <3>3. CASE PollError(n) /\ poll[n].phase = "won"
      BY <2>1, <3>3 DEF PollError, TypeOK
    <3>4. CASE PollError(n) /\ poll[n].phase # "won"
      <4>1. holder' = holder /\ lease' = lease /\ poll[n].phase \in {"sent", "refused"}
        BY <3>4 DEF PollError
      <4>2. QED BY <2>1, <4>1 DEF RowsAccountedFor, Live
    <3>5. QED BY <1>4, <3>1, <3>2, <3>3, <3>4
  <2>4. QED BY <1>0, <2>1, <2>2, <2>3 DEF RowsAccountedFor, Live
<1>5. CASE PollOrphaned(n)
  <2>1. /\ UNCHANGED <<holder, status, lease>> /\ \A m \in Replica \ {n} : poll'[m] = poll[m]
        /\ poll'[n].phase = "orphan" /\ poll'[n].req = poll[n].req
    BY <1>5 DEF PollOrphaned, TypeOK, Poll
  <2>2. QED BY <1>0, <2>1 DEF RowsAccountedFor, Live
<1>6. CASE ShutdownRelease(n) \/ Restart(n)
  <2>1. UNCHANGED <<poll, lease>> BY <1>6 DEF ShutdownRelease, Restart
  <2>2. \A x \in Request :
          /\ holder[x] \in {"held", "releasing"} => holder'[x] \in {"held", "releasing"}
          /\ holder[x] = "leaked" => holder'[x] = "leaked"
          /\ status[Home[x]] # "down" => status'[Home[x]] # "down"
    BY <1>0, <1>6 DEF ShutdownRelease, Restart, TypeOK
  <2>3. QED BY <2>1, <2>2 DEF RowsAccountedFor, Live
<1>7. CASE Exit(n)
  <2>1. /\ UNCHANGED <<poll, lease, holder>> /\ poll[n].phase = "idle"
        /\ \A x \in Request : Home[x] = n => holder[x] \notin {"held", "releasing"}
        /\ \A m \in Replica \ {n} : status'[m] = status[m]
    BY <1>7 DEF Exit, Gone, At, TypeOK
  <2>2. QED BY <1>0, <2>1 DEF RowsAccountedFor, Live
<1>8. CASE Crash(n)
  <2>1. UNCHANGED lease /\ \A m \in Replica \ {n} : status'[m] = status[m] /\ poll'[m] = poll[m]
    BY <1>8 DEF Crash, Gone, TypeOK
  <2>2. \A x \in Request : Home[x] # n => holder'[x] = holder[x]
    BY <1>1, <1>8 DEF Crash, At, TypeOK
  <2>3. \A x \in Request :
          /\ Home[x] = n /\ holder[x] \in {"held", "releasing", "leaked"} => holder'[x] = "leaked"
          /\ poll[n].phase \in {"won", "orphan"} /\ x = r => holder'[x] = "leaked"
    BY <1>1, <1>8 DEF Crash, At, TypeOK
  <2>4. QED BY <1>0, <2>1, <2>2, <2>3 DEF RowsAccountedFor, Live
<1>9. QED BY <1>2, <1>3, <1>4, <1>5, <1>6, <1>7, <1>8

\* Behind every live row there is a holder, a run that will hold or delete it,
\* or the knowledge that it must expire.
THEOREM RowsAlwaysAccountedFor == Spec => []RowsAccountedFor
<1>1. Init => RowsAccountedFor BY DEF Init, RowsAccountedFor, Live
<1>2. Inv /\ RowsAccountedFor /\ [Next]_vars => RowsAccountedFor'
  <2> SUFFICES ASSUME Inv, RowsAccountedFor, [Next]_vars PROVE RowsAccountedFor'
    OBVIOUS
  <2>1. TypeOK /\ Structure BY DEF Inv
  <2>2. CASE Tick
    <3>1. \A n \in Replica : poll'[n].phase = poll[n].phase /\ poll'[n].req = poll[n].req
      BY <2>1, <2>2 DEF Tick, TypeOK, Poll
    <3>2. Live' \subseteq Live BY <2>1, <2>2, ConstantsAssumption DEF Tick, TypeOK, Live, Sooner
    <3>3. \A x \in Request : Home[x] \in Replica BY ConstantsAssumption
    <3>4. QED BY <2>2, <3>1, <3>2, <3>3 DEF Tick, RowsAccountedFor, Live
  <2>3. CASE UNCHANGED vars BY <2>3 DEF vars, RowsAccountedFor, Live
  <2>4. QED BY <2>1, <2>2, <2>3, RowsCalls, RowsReplicas DEF Next
<1>3. QED BY <1>1, <1>2, Invariant, PTL DEF Spec

=============================================================================
