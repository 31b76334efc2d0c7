------------------------------ MODULE Maintenance ------------------------------
(***************************************************************************)
(* Database maintenance in a running gateway: a VACUUM, asked for by an    *)
(* admin request or by the off-hours scheduler, first pauses and drains    *)
(* everything that uses the store - the HTTP requests, the leases of       *)
(* request bodies, the memory worker, the signal scheduler, the background *)
(* tasks and at last the deferred write queue (module WriteQueue) - and    *)
(* resumes it all whatever happens.  Passes run one at a time; a shutdown  *)
(* may come at any point of one.                                           *)
(***************************************************************************)
EXTENDS WriteQueue

CONSTANTS
  Request,    \* HTTP requests
  Vacuum,     \* those that ask for a VACUUM
  Cleanup,    \* those that ask for a cleanup pass
  AutoVacuum, \* ticks of the off-hours VACUUM
  CleanTick,  \* ticks of the cleanup scheduler
  Job,        \* detached background tasks
  MaxJobs,    \* maxTasks
  QueueDepth  \* maxDepth of the maintenance queue

Tick == AutoVacuum \cup CleanTick
Owner == Request \cup Tick

ASSUME MaintenanceAssumption ==
  /\ Vacuum \cup Cleanup \subseteq Request
  /\ Vacuum \cap Cleanup = {} /\ Request \cap Tick = {} /\ AutoVacuum \cap CleanTick = {}
  /\ Pause = Vacuum \cup AutoVacuum
  /\ MaxJobs \in Nat /\ QueueDepth \in Nat \ {0}

VARIABLES
  gatePaused,  \* paused of the activity gate
  active,      \* the activities of the gate: requests whose responses are not over
  work,        \* request or tick -> how far it is
  queue,       \* the maintenance queue, the pass that runs first
  closed,      \* the maintenance queue takes no more
  step,        \* of the pass: 0 none, 1..6 draining that activity, 7 at work
  side,        \* body leases, memory worker, signal scheduler: what each does
  sidePaused,  \* those that are paused
  bgState,     \* state of the tracked background tasks
  jobs,        \* background task -> whether it runs
  shutdown     \* how far the shutdown is

mVars == <<gatePaused, active, work, queue, closed, step, side, sidePaused, bgState, jobs, shutdown>>
vars == <<wqVars, mVars>>

Side == {"admission", "worker", "signals"}
\* The activities of executeVacuum, in the order in which they are paused.
Activities == <<"gate", "admission", "worker", "signals", "background", "writes">>
AtWork == Len(Activities) + 1

Running == {j \in Job : jobs[j] = "active"}

-----------------------------------------------------------------------------
Init ==
  /\ WQInit
  /\ gatePaused = FALSE /\ active = {}
  /\ work = [o \in Owner |-> "new"]
  /\ queue = <<>> /\ closed = FALSE /\ step = 0
  /\ side = [s \in Side |-> "idle"] /\ sidePaused = {}
  /\ bgState = "open" /\ jobs = [j \in Job |-> "new"]
  /\ shutdown = "no"

(***************************************************************************)
(* Those that use the store.                                               *)
(***************************************************************************)
\* maintenanceActivityMiddleware on the way in: enter(), or 503.
Enter(r) ==
  /\ work[r] = "new" /\ shutdown = "no"
  /\ work' = [work EXCEPT ![r] = IF gatePaused THEN "ended" ELSE "active"]
  /\ active' = IF gatePaused THEN active ELSE active \cup {r}
  /\ UNCHANGED <<wqVars, gatePaused, queue, closed, step, side, sidePaused, bgState, jobs, shutdown>>

\* The response, streamed or not, is over; an admin request that is refused
\* ends so too.
Leave(r) ==
  /\ work[r] = "active"
  /\ work' = [work EXCEPT ![r] = "ended"]
  /\ active' = active \ {r}
  /\ UNCHANGED <<wqVars, gatePaused, queue, closed, step, side, sidePaused, bgState, jobs, shutdown>>

\* A body lease is taken, the memory worker's timer or the signal scheduler's
\* fires.  The worker first asks whether resources allow it.
Begin(s) ==
  /\ side[s] = "idle" /\ s \notin sidePaused /\ shutdown = "no"
  /\ side' = [side EXCEPT ![s] = IF s = "worker" THEN "checking" ELSE "active"]
  /\ UNCHANGED <<wqVars, gatePaused, active, work, queue, closed, step, sidePaused, bgState, jobs, shutdown>>

\* Mutant: the worker does not look again after its question was answered.
WorkerRuns(allowed) == allowed

\* runWhileActive after shouldRun(): paused and stopped are looked at again.
WorkerMayRun(allowed) == allowed /\ "worker" \notin sidePaused /\ shutdown = "no"

WorkerChecked ==
  /\ side["worker"] = "checking"
  /\ \E allowed \in BOOLEAN :
       side' = [side EXCEPT !["worker"] = IF WorkerMayRun(allowed) THEN "active" ELSE "idle"]
  /\ UNCHANGED <<wqVars, gatePaused, active, work, queue, closed, step, sidePaused, bgState, jobs, shutdown>>

Finish(s) ==
  /\ side[s] = "active"
  /\ side' = [side EXCEPT ![s] = "idle"]
  /\ UNCHANGED <<wqVars, gatePaused, active, work, queue, closed, step, sidePaused, bgState, jobs, shutdown>>

\* run() of the tracked tasks: refused when they are paused or closed, unless a
\* task that still runs starts it.
Spawn(j) ==
  /\ jobs[j] = "new"
  /\ bgState = "open" \/ Running # {}
  /\ Cardinality(Running) < MaxJobs
  /\ jobs' = [jobs EXCEPT ![j] = "active"]
  /\ UNCHANGED <<wqVars, gatePaused, active, work, queue, closed, step, side, sidePaused, bgState, shutdown>>

JobEnds(j) ==
  /\ jobs[j] = "active"
  /\ jobs' = [jobs EXCEPT ![j] = "done"]
  /\ UNCHANGED <<wqVars, gatePaused, active, work, queue, closed, step, side, sidePaused, bgState, shutdown>>

\* Requests, tasks and the tails of responses that are over write at any time.
Write(i) == Enqueue(i) /\ UNCHANGED mVars

(***************************************************************************)
(* The passes.                                                             *)
(***************************************************************************)
\* run() of the maintenance queue: neither closed nor full.
QueueTakes == ~closed /\ Len(queue) < QueueDepth

\* The requests whose activity is released before they queue (runVacuumNow).
ReleasedFirst == Vacuum

\* The admin's request queues its pass, or is told that the queue is full.
Ask(r) ==
  /\ work[r] = "active" /\ r \in Vacuum \cup Cleanup
  /\ IF QueueTakes
     THEN /\ queue' = Append(queue, r)
          /\ work' = [work EXCEPT ![r] = "queued"]
          /\ active' = active \ ({r} \cap ReleasedFirst)
     ELSE /\ work' = [work EXCEPT ![r] = "ended"]
          /\ active' = active \ {r}
          /\ UNCHANGED queue
  /\ UNCHANGED <<wqVars, gatePaused, closed, step, side, sidePaused, bgState, jobs, shutdown>>

\* A scheduler's tick queues its pass.
TickFires(t) ==
  /\ work[t] = "new" /\ shutdown = "no"
  /\ work' = [work EXCEPT ![t] = IF QueueTakes THEN "queued" ELSE "ended"]
  /\ queue' = IF QueueTakes THEN Append(queue, t) ELSE queue
  /\ UNCHANGED <<wqVars, gatePaused, active, closed, step, side, sidePaused, bgState, jobs, shutdown>>

\* pauseAndWait() of the activity numbered k, up to its first await.
PauseActivity(k) ==
  /\ gatePaused' = (gatePaused \/ Activities[k] = "gate")
  /\ sidePaused' = sidePaused \cup (Side \cap {Activities[k]})
  /\ bgState' = IF Activities[k] = "background" /\ bgState = "open" THEN "paused" ELSE bgState
  /\ IF Activities[k] = "writes" THEN Drain(Head(queue)) ELSE UNCHANGED wqVars

\* The activity is idle: its pauseAndWait() resolves.
Drained(a) ==
  CASE a = "gate"       -> active = {}
    [] a = "background" -> Running = {}
    [] a = "writes"     -> barrier[Head(queue)].phase = "done"
    [] OTHER            -> side[a] # "active"

\* Mutant: the scheduler's own pause of the gate is not undone.
ReopenPaused ==
  /\ gatePaused' = (gatePaused /\ Head(queue) \in AutoVacuum)
  /\ sidePaused' = {}
  /\ bgState' = IF bgState = "paused" THEN "open" ELSE bgState
  /\ pausedBy' = IF stopped THEN pausedBy ELSE {}
  /\ UNCHANGED <<stage, calls, admission, blockers, chain, tasks, timer, stopped, barrier>>

\* The finally blocks: everything is resumed, what is closed stays closed.
Reopen ==
  /\ gatePaused' = FALSE
  /\ sidePaused' = {}
  /\ bgState' = IF bgState = "paused" THEN "open" ELSE bgState
  /\ pausedBy' = IF stopped THEN pausedBy ELSE {}
  /\ UNCHANGED <<stage, calls, admission, blockers, chain, tasks, timer, stopped, barrier>>

\* The pass is over, with or without success: the next one may start.
EndPass ==
  /\ Reopen
  /\ queue' = Tail(queue)
  /\ step' = 0
  /\ work' = [work EXCEPT ![Head(queue)] = "ended"]
  /\ active' = active \ {Head(queue)}
  /\ UNCHANGED <<closed, side, jobs, shutdown>>

\* A cleanup pass pauses nothing; a VACUUM on request starts with the gate; the
\* off-hours VACUUM only goes on when no request is active (tryPauseIfIdle).
StartCleanup ==
  /\ step = 0 /\ queue # <<>> /\ Head(queue) \in Cleanup \cup CleanTick
  /\ step' = AtWork
  /\ UNCHANGED <<wqVars, gatePaused, active, work, queue, closed, side, sidePaused, bgState, jobs, shutdown>>

StartVacuum ==
  /\ step = 0 /\ queue # <<>> /\ Head(queue) \in Vacuum
  /\ step' = 1
  /\ PauseActivity(1)
  /\ UNCHANGED <<active, work, queue, closed, side, jobs, shutdown>>

StartAutoVacuum ==
  /\ step = 0 /\ queue # <<>> /\ Head(queue) \in AutoVacuum
  /\ ~gatePaused /\ active = {}
  /\ gatePaused' = TRUE
  /\ step' = 2
  /\ sidePaused' = sidePaused \cup {Activities[2]}
  /\ UNCHANGED <<wqVars, active, work, queue, closed, side, bgState, jobs, shutdown>>

\* Resources are short, or a request is active.
SkipTick ==
  /\ step = 0 /\ queue # <<>> /\ Head(queue) \in Tick
  /\ EndPass

\* withPausedActivities: the activity is drained, the next one is paused.
PassStep ==
  /\ step \in 1..Len(Activities) /\ Drained(Activities[step])
  /\ step' = step + 1
  /\ IF step + 1 = AtWork
     THEN UNCHANGED <<wqVars, gatePaused, sidePaused, bgState>>
     ELSE PauseActivity(step + 1)
  /\ UNCHANGED <<active, work, queue, closed, side, jobs, shutdown>>

\* Mutant: the deadline is armed after the requests have drained.
PassTimeoutAfterGate ==
  /\ step \in 2..Len(Activities)
  /\ EndPass

\* The drain takes too long: the pass is abandoned.
PassTimeout ==
  /\ step \in 1..Len(Activities)
  /\ EndPass

PassEnds ==
  /\ step = AtWork
  /\ EndPass

(***************************************************************************)
(* Shutdown.                                                               *)
(***************************************************************************)
\* The server is closed, its requests over or cut off; dispose() stops the
\* worker and the schedulers and closes the tasks and the maintenance queue.
Dispose ==
  /\ shutdown = "no"
  /\ shutdown' = "draining"
  /\ bgState' = "closed" /\ closed' = TRUE
  /\ UNCHANGED <<wqVars, gatePaused, active, work, queue, step, side, sidePaused, jobs>>

\* Mutant: the write queue is stopped while background tasks still run.
StoreIdle == queue = <<>> /\ \A s \in {"worker", "signals"} : side[s] # "active"

\* What dispose() awaits before it stops the write queue.
StoreUsersDone ==
  queue = <<>> /\ Running = {} /\ \A s \in {"worker", "signals"} : side[s] # "active"

DisposeWrites ==
  /\ shutdown = "draining" /\ StoreUsersDone
  /\ shutdown' = "stopping"
  /\ \E b \in Stop : Drain(b)
  /\ UNCHANGED <<gatePaused, active, work, queue, closed, step, side, sidePaused, bgState, jobs>>

CloseStore ==
  /\ shutdown = "stopping" /\ \A b \in Stop : barrier[b].phase = "done"
  /\ shutdown' = "closed"
  /\ UNCHANGED <<wqVars, gatePaused, active, work, queue, closed, step, side, sidePaused, bgState, jobs>>

-----------------------------------------------------------------------------
\* The queue's own steps.
QueueStep ==
  /\ \/ AdmitHead \/ TimerFires \/ BatchSettles \/ TaskSettles
     \/ \E b \in Pause \cup Stop : DrainStep(b)
  /\ UNCHANGED mVars

PassProgress ==
  \/ StartCleanup \/ StartVacuum \/ StartAutoVacuum \/ SkipTick
  \/ PassStep \/ PassTimeout \/ PassEnds

MNext ==
  \/ \E r \in Request : Enter(r) \/ Leave(r) \/ Ask(r)
  \/ \E s \in Side : Begin(s) \/ Finish(s)
  \/ WorkerChecked
  \/ \E j \in Job : Spawn(j) \/ JobEnds(j)
  \/ \E i \in Item : Write(i)
  \/ \E t \in Tick : TickFires(t)
  \/ PassProgress
  \/ QueueStep
  \/ Dispose \/ DisposeWrites \/ CloseStore

\* Promises go on, the store answers, the drain's timer fires, and background
\* work ends.  Requests need not end: the drain's timeout is there for them.
MFairness ==
  /\ WF_vars(PassProgress) /\ WF_vars(QueueStep)
  /\ WF_vars(WorkerChecked) /\ \A s \in Side : WF_vars(Finish(s))
  /\ \A j \in Job : WF_vars(JobEnds(j))
  /\ WF_vars(DisposeWrites) /\ WF_vars(CloseStore)

MSpec == Init /\ [][MNext]_vars /\ MFairness

-----------------------------------------------------------------------------
TypeOK ==
  /\ WQTypeOK
  /\ {gatePaused, closed} \subseteq BOOLEAN
  /\ active \subseteq Request
  /\ work \in [Owner -> {"new", "active", "queued", "ended"}]
  /\ queue \in Seq(Owner) /\ Len(queue) <= QueueDepth
  /\ ToSet(queue) = {o \in Owner : work[o] = "queued"}
  /\ step \in 0..AtWork
  /\ side \in [Side -> {"idle", "checking", "active"}]
  /\ sidePaused \subseteq Side
  /\ bgState \in {"open", "paused", "closed"}
  /\ jobs \in [Job -> {"new", "active", "done"}]
  /\ shutdown \in {"no", "draining", "stopping", "closed"}

\* While VACUUM rewrites the file nobody else uses the store: no request is
\* active, no body is being read, no worker, scheduler or background task runs,
\* nothing is in the write queue, and nothing of this can start.
VacuumAlone ==
  step = AtWork /\ Head(queue) \in Vacuum \cup AutoVacuum =>
    /\ gatePaused /\ active = {}
    /\ \A s \in Side : side[s] # "active"
    /\ Running = {}
    /\ Backlog = {} /\ admission = <<>>

\* Nothing stays paused after a pass, however it ended.
NothingLeftPaused ==
  step = 0 => /\ ~gatePaused
              /\ shutdown = "no" => sidePaused = {} /\ bgState = "open" /\ pausedBy = {}

\* When the store is closed nobody is left who writes to it.
StoreClosedLast ==
  shutdown = "closed" =>
    /\ step = 0 /\ queue = <<>> /\ Running = {} /\ Backlog = {} /\ admission = <<>>
    /\ \A s \in {"worker", "signals"} : side[s] # "active"

\* A pass does not wait for requests that wait for it: "does not deadlock the
\* admitted request that starts maintenance" (maintenance-gate.test.ts:253).
NeverWaitsForItsWaiters ==
  step = 1 /\ active # {} => \E r \in active : work[r] # "queued"

\* The passes that are queued end, and a shutdown closes the store, even when a
\* request never ends.
PassesEnd ==
  /\ queue # <<>> ~> queue = <<>>
  /\ shutdown = "draining" ~> shutdown = "closed"

=============================================================================
