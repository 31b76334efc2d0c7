------------------------------ MODULE WriteQueue ------------------------------
(***************************************************************************)
(* The deferred write queue (createWriteQueue): telemetry rows and payload *)
(* rows are buffered and written in batches on one serial chain, other     *)
(* side effects run one after another on a second chain.  A call that      *)
(* finds no room waits its turn in front of the queue; a maintenance pass  *)
(* pauses the queue and drains it, a shutdown stops it and drains it.      *)
(*                                                                         *)
(* An item is the argument of one enqueue call.                            *)
(***************************************************************************)
EXTENDS Naturals, Sequences, FiniteSets, FiniteSetsExt, SequencesExt

CONSTANTS
  Item,             \* the rows and tasks that are enqueued
  Kind,             \* item -> "telemetry", "payload" or "task"
  Cost,             \* item -> its retained bytes
  Poison,           \* items that the store refuses or whose task throws
  MaxDepth,         \* maxDepth
  MaxBytes,         \* maxBytes
  MaxBatch,         \* maxBatch
  FlushBytes,       \* flushBytes
  MaxPending,       \* maxPendingAdmissions
  MaxPendingBytes,  \* maxPendingAdmissionBytes
  Pause,            \* calls of pauseAndFlush()
  Stop              \* calls of stop()

ASSUME WriteQueueAssumption ==
  /\ IsFiniteSet(Item)
  /\ Kind \in [Item -> {"telemetry", "payload", "task"}]
  /\ Cost \in [Item -> Nat]
  /\ Poison \subseteq Item
  /\ {MaxDepth, MaxBatch} \subseteq Nat \ {0}
  /\ {MaxBytes, FlushBytes, MaxPending, MaxPendingBytes} \subseteq Nat
  /\ Pause \cap Stop = {}

VARIABLES
  stage,      \* item -> where it is
  calls,      \* the tasks whose calls were not turned away, in the order of the calls
  admission,  \* the calls waiting for capacity, in order (admissionTail)
  blockers,   \* what the first of them waits for before it looks again
  chain,      \* the batches of writeChain
  tasks,      \* the tasks of taskChain
  timer,      \* the idle flush is scheduled
  pausedBy,   \* the pause in force; {} when not paused
  stopped,    \* stopped
  barrier     \* drain call -> how far it is and what it waits for

wqVars == <<stage, calls, admission, blockers, chain, tasks, timer, pausedBy, stopped, barrier>>

Stage == {"new", "waiting", "buffered", "inflight", "queued",
          "written", "failed", "skipped", "dropped", "refused"}
Settled == {"written", "failed", "skipped"}
Phase == {"new", "admission", "batch", "writes", "tasks", "done"}

-----------------------------------------------------------------------------
At(where, st) == {i \in Item : st[i] \in where}
CostOf(items) == MapThenSumSet(LAMBDA i : Cost[i], items)

\* What counts against maxDepth and maxBytes: what is buffered, what is on its
\* way to the store, and the tasks.
Backlog == At({"buffered", "inflight", "queued"}, stage)
Depth == Cardinality(Backlog)

\* Mutant: batches on their way to the store are not counted.
OverBudgetBuffered(i) ==
  LET held == At({"buffered", "queued"}, stage)
  IN  Cardinality(held) >= MaxDepth \/ CostOf(held) + Cost[i] > MaxBytes

OverBudget(i) == Depth >= MaxDepth \/ CostOf(Backlog) + Cost[i] > MaxBytes

PendingCost(i) == IF Cost[i] < MaxPendingBytes THEN Cost[i] ELSE MaxPendingBytes
PendingBytes == FoldLeft(LAMBDA sum, i : sum + PendingCost(i), 0, admission)

\* doFlush, when the items are at st: everything buffered becomes one batch.
DoFlush(st) ==
  LET batch == At({"buffered"}, st)
  IN  /\ stage' = [i \in Item |-> IF i \in batch THEN "inflight" ELSE st[i]]
      /\ chain' = IF batch = {} THEN chain ELSE Append(chain, batch)
      /\ timer' = FALSE

\* Mutant: no timer is needed while a batch is being written.
ScheduleTimerIdle == timer' = (timer \/ (~stopped /\ chain = <<>>))

ScheduleTimer == timer' = (timer \/ ~stopped)

\* The append of each enqueue call: a row is buffered and flushed eagerly when
\* its buffer or the buffered bytes reach their thresholds, a task is queued.
Admit(i) ==
  LET st == [stage EXCEPT ![i] = "buffered"]
      rows == At({"buffered"}, st)
      full == \/ Cardinality({r \in rows : Kind[r] = Kind[i]}) >= MaxBatch
              \/ CostOf(rows) >= FlushBytes
  IN  \/ /\ Kind[i] = "task"
         /\ stage' = [stage EXCEPT ![i] = "queued"]
         /\ tasks' = Append(tasks, i)
         /\ UNCHANGED <<chain, timer>>
      \/ /\ Kind[i] # "task" /\ full
         /\ DoFlush(st)
         /\ UNCHANGED tasks
      \/ /\ Kind[i] # "task" /\ ~full
         /\ stage' = st
         /\ ScheduleTimer
         /\ UNCHANGED <<chain, tasks>>

-----------------------------------------------------------------------------
WQInit ==
  /\ stage = [i \in Item |-> "new"]
  /\ calls = <<>> /\ admission = <<>> /\ blockers = {}
  /\ chain = <<>> /\ tasks = <<>>
  /\ timer = FALSE /\ pausedBy = {} /\ stopped = FALSE
  /\ barrier = [b \in Pause \cup Stop |-> [phase |-> "new", awaits |-> {}]]

\* Mutant: a call that finds room does not look at those who wait.
OvertakingAdmission(i) == ~OverBudget(i) \/ Depth = 0

\* The call may append in its own turn: nobody waits, and there is room.
Uncontended(i) == admission = <<>> /\ (~OverBudget(i) \/ Depth = 0)

Called(i) == IF Kind[i] = "task" THEN Append(calls, i) ELSE calls

\* A closed queue takes nothing.
Refuses == stopped \/ pausedBy # {}

\* enqueueTelemetry, enqueuePayload, enqueueSession, enqueueTask.
Enqueue(i) ==
  /\ stage[i] = "new"
  /\ \/ /\ Refuses
        /\ stage' = [stage EXCEPT ![i] = "refused"]
        /\ UNCHANGED <<calls, admission, chain, tasks, timer>>
     \/ /\ ~Refuses
        /\ Uncontended(i)
        /\ Admit(i)
        /\ calls' = Called(i)
        /\ UNCHANGED admission
     \/ /\ ~Refuses
        /\ ~Uncontended(i)
        /\ IF \/ Len(admission) >= MaxPending
              \/ PendingBytes + PendingCost(i) > MaxPendingBytes
           THEN /\ stage' = [stage EXCEPT ![i] = "dropped"]
                /\ UNCHANGED <<calls, admission>>
           ELSE /\ stage' = [stage EXCEPT ![i] = "waiting"]
                /\ calls' = Called(i)
                /\ admission' = Append(admission, i)
        /\ UNCHANGED <<chain, tasks, timer>>
  /\ UNCHANGED <<blockers, pausedBy, stopped, barrier>>

\* The first waiting call looks at the budget (again): it appends, or flushes
\* and waits for the ends of both chains (waitForCapacity).
AdmitHead ==
  /\ admission # <<>>
  /\ blockers \cap At({"inflight", "queued"}, stage) = {}
  /\ LET i == Head(admission)
     IN  IF OverBudget(i) /\ Depth > 0
         THEN /\ DoFlush(stage)
              /\ blockers' = Backlog
              /\ UNCHANGED <<admission, tasks>>
         ELSE /\ Admit(i)
              /\ admission' = Tail(admission)
              /\ blockers' = {}
  /\ UNCHANGED <<calls, pausedBy, stopped, barrier>>

\* scheduleTimer's timer fires.
TimerFires ==
  /\ timer
  /\ DoFlush(stage)
  /\ UNCHANGED <<calls, admission, blockers, tasks, pausedBy, stopped, barrier>>

\* Mutant: a batch that the store refuses is given up.
RefusedWhole(batch) == IF batch \cap Poison = {} THEN {} ELSE batch

\* writeTelemetry and writePayloads: a batch that the store refuses is written
\* row by row.
Refused(batch) == batch \cap Poison

\* The first batch is committed: the telemetry rows, then the payload rows whose
\* capture is still wanted (isCurrent).
BatchSettles ==
  /\ chain # <<>>
  /\ \E stale \in SUBSET {i \in Head(chain) : Kind[i] = "payload"} :
       LET rows == Head(chain) \ stale
           of(kind) == {i \in rows : Kind[i] = kind}
           lost == Refused(of("telemetry")) \cup Refused(of("payload"))
       IN  stage' = [i \in Item |-> IF i \in stale THEN "skipped"
                                    ELSE IF i \in lost THEN "failed"
                                    ELSE IF i \in rows THEN "written" ELSE stage[i]]
  /\ chain' = Tail(chain)
  /\ UNCHANGED <<calls, admission, blockers, tasks, timer, pausedBy, stopped, barrier>>

\* The first task of taskChain has run.
TaskSettles ==
  /\ tasks # <<>>
  /\ stage' = [stage EXCEPT ![Head(tasks)] =
                  IF Head(tasks) \in Poison THEN "failed" ELSE "written"]
  /\ tasks' = Tail(tasks)
  /\ UNCHANGED <<calls, admission, blockers, chain, timer, pausedBy, stopped, barrier>>

\* Mutant: the calls that wait for capacity are not awaited.
DrainAdmitted(b) ==
  /\ barrier[b].phase = "new"
  /\ IF b \in Pause
     THEN pausedBy = {} /\ pausedBy' = {b} /\ UNCHANGED stopped
     ELSE stopped' = TRUE /\ UNCHANGED pausedBy
  /\ timer' = FALSE
  /\ barrier' = [barrier EXCEPT ![b] = [phase |-> "admission", awaits |-> {}]]
  /\ UNCHANGED <<stage, calls, admission, blockers, chain, tasks>>

\* pauseAndFlush() and stop(): up to the first await, which is for the calls
\* that were waiting (admissionTail).
Drain(b) ==
  /\ barrier[b].phase = "new"
  /\ IF b \in Pause
     THEN pausedBy = {} /\ pausedBy' = {b} /\ UNCHANGED stopped
     ELSE stopped' = TRUE /\ UNCHANGED pausedBy
  /\ timer' = FALSE
  /\ barrier' = [barrier EXCEPT ![b] = [phase |-> "admission", awaits |-> ToSet(admission)]]
  /\ UNCHANGED <<stage, calls, admission, blockers, chain, tasks>>

\* What it waited for is over; it flushes, then waits for the end of writeChain,
\* for the end of writeChain as it is then, and for the end of taskChain.
DrainStep(b) ==
  LET phase == barrier[b].phase
      pending == IF phase = "admission" THEN {"waiting"} ELSE {"inflight", "queued"}
      next == [admission |-> "batch", batch |-> "writes", writes |-> "tasks", tasks |-> "done"]
  IN  /\ phase \in DOMAIN next
      /\ barrier[b].awaits \cap At(pending, stage) = {}
      /\ IF phase = "admission" THEN DoFlush(stage) ELSE UNCHANGED <<stage, chain, timer>>
      /\ barrier' = [barrier EXCEPT ![b] =
           [phase |-> next[phase],
            awaits |-> CASE phase = "admission" -> At({"buffered", "inflight"}, stage)
                         [] phase = "batch"     -> At({"inflight"}, stage)
                         [] phase = "writes"    -> At({"queued"}, stage)
                         [] phase = "tasks"     -> {}]]
      /\ UNCHANGED <<calls, admission, blockers, tasks, pausedBy, stopped>>

\* resume(): the maintenance pass is over or gave up waiting.
Resume ==
  /\ pausedBy # {}
  /\ ~stopped
  /\ pausedBy' = {}
  /\ UNCHANGED <<stage, calls, admission, blockers, chain, tasks, timer, stopped, barrier>>

-----------------------------------------------------------------------------
Next ==
  \/ \E i \in Item : Enqueue(i)
  \/ AdmitHead \/ TimerFires \/ BatchSettles \/ TaskSettles \/ Resume
  \/ \E b \in Pause \cup Stop : Drain(b) \/ DrainStep(b)

\* The store answers, tasks end, timers fire and promises that are settled let
\* their waiters go on.  Nobody has to enqueue, pause or resume.
WQFairness ==
  /\ WF_wqVars(AdmitHead) /\ WF_wqVars(TimerFires)
  /\ WF_wqVars(BatchSettles) /\ WF_wqVars(TaskSettles)
  /\ \A b \in Pause \cup Stop : WF_wqVars(DrainStep(b))

Spec == WQInit /\ [][Next]_wqVars /\ WQFairness

-----------------------------------------------------------------------------
WQTypeOK ==
  /\ stage \in [Item -> Stage]
  /\ {calls, admission, tasks} \subseteq Seq(Item)
  /\ blockers \subseteq Item
  /\ chain \in Seq(SUBSET Item)
  /\ {timer, stopped} \subseteq BOOLEAN
  /\ pausedBy \in SUBSET Pause
  /\ barrier \in [Pause \cup Stop -> [phase : Phase, awaits : SUBSET Item]]
  \* Each queue holds what is in its stage, once.
  /\ ToSet(admission) = At({"waiting"}, stage) /\ Len(admission) = Cardinality(ToSet(admission))
  /\ ToSet(tasks) = At({"queued"}, stage) /\ Len(tasks) = Cardinality(ToSet(tasks))
  /\ UNION ToSet(chain) = At({"inflight"}, stage)

\* However many calls wait and however slow the store is, the queue holds at most
\* maxDepth items and maxBytes bytes; an item larger than that is alone
\* (write-queue.ts:276 says so).
BacklogBounded ==
  /\ Depth <= MaxDepth
  /\ CostOf(Backlog) <= MaxBytes \/ Depth = 1

\* Side effects take place in the order in which they were enqueued, waiting for
\* capacity included: the inbound message of a turn before its outbound one.
TasksInOrder ==
  \A j, k \in DOMAIN calls :
    j < k /\ stage[calls[k]] \in Settled => stage[calls[j]] \in Settled

\* Once a drain has ended nothing that was accepted is left outside the store,
\* as long as the pause stands, and for ever after stop(): VACUUM and the close of
\* the store rely on it.
DrainedMeansEmpty ==
  \A b \in Pause \cup Stop :
    barrier[b].phase = "done" /\ (b \in Stop \/ pausedBy = {b})
      => Backlog = {} /\ admission = <<>>

\* A row that the store refuses takes no other row of its batch with it.
NoCollateralLoss == At({"failed"}, stage) \subseteq Poison

\* A call that was accepted reaches the store, whatever pauses, gives up its
\* pause or stops meanwhile; and every drain ends.
AcceptedIsSettled ==
  /\ \A i \in Item : stage[i] \in {"waiting", "buffered", "inflight", "queued"}
                       ~> stage[i] \in Settled
  /\ \A b \in Pause \cup Stop : barrier[b].phase # "new" ~> barrier[b].phase = "done"

-----------------------------------------------------------------------------
\* What has become of an item at the stage st, for those who handed it over.
Fate(st) ==
  CASE st = "new"                    -> "new"
    [] st \in {"refused", "dropped"} -> "away"
    [] st = "failed"                 -> "failed"
    [] st \in {"written", "skipped"} -> "done"
    [] OTHER                         -> "accepted"

Fates == [i \in Item |-> Fate(stage[i])]
Tasks == {i \in Item : Kind[i] = "task"}
Mode == IF stopped THEN "stopped" ELSE IF pausedBy # {} THEN "paused" ELSE "open"
Flushed == \E b \in Pause \cup Stop :
             barrier[b].phase = "done" /\ (b \in Stop \/ pausedBy = {b})

\* The queue keeps its promise, whatever its buffers and drains do: an item that
\* was accepted is settled once, tasks in their order, and a drained queue is empty
\* until it is resumed.
DW == INSTANCE DeferredWrites WITH
        Task <- Tasks, fate <- Fates, order <- calls, mode <- Mode, flushed <- Flushed
ImplementsDeferredWrites == DW!Spec

=============================================================================
