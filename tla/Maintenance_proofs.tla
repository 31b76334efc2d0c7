-------------------------- MODULE Maintenance_proofs --------------------------
(***************************************************************************)
(* Proofs about Maintenance, for any requests, passes, ticks, background   *)
(* tasks and items.                                                        *)
(*                                                                         *)
(* Maintenance uses the write queue as its module WriteQueue allows        *)
(* (QueueUsed), so what is proved there holds here.  On top of that:       *)
(* whatever a pass has drained stays drained until the pass reopens it,    *)
(* and what a shutdown has waited for does not come back.                  *)
(***************************************************************************)
EXTENDS Maintenance, WriteQueue_proofs

\* The types of Maintenance's own variables.
MTypes ==
  /\ gatePaused \in BOOLEAN /\ closed \in BOOLEAN
  /\ active \subseteq Request
  /\ work \in [Owner -> {"new", "active", "queued", "ended"}]
  /\ queue \in Seq(Owner) /\ Distinct(queue) /\ Len(queue) <= QueueDepth
  /\ ToSet(queue) = {o \in Owner : work[o] = "queued"}
  /\ step \in 0..AtWork
  /\ side \in [Side -> {"idle", "checking", "active"}]
  /\ sidePaused \subseteq Side
  /\ bgState \in {"open", "paused", "closed"}
  /\ jobs \in [Job -> {"new", "active", "done"}]
  /\ shutdown \in {"no", "draining", "stopping", "closed"}

\* What the pass at the head of the queue has drained when it is at `step`.
DrainedSoFar ==
  /\ gatePaused
  /\ step >= 2 => active = {} /\ "admission" \in sidePaused
  /\ step >= 3 => side["admission"] # "active" /\ "worker" \in sidePaused
  /\ step >= 4 => side["worker"] # "active" /\ "signals" \in sidePaused
  /\ step >= 5 => side["signals"] # "active" /\ bgState # "open"
  /\ step >= 6 => Running = {} /\ pausedBy = {Head(queue)}
  /\ step >= 7 => barrier[Head(queue)].phase = "done"

Passing ==
  /\ step # 0 => queue # <<>>
  /\ step \in 1..6 => Head(queue) \in Pause
  /\ step # 0 /\ Head(queue) \in Pause => DrainedSoFar

\* How far a shutdown is, and what is over by then.
Closing ==
  /\ shutdown = "no" => bgState # "closed" /\ ~stopped
  /\ shutdown # "no" => bgState = "closed" /\ closed
  /\ shutdown \in {"stopping", "closed"} =>
       /\ queue = <<>> /\ Running = {}
       /\ \A s \in {"worker", "signals"} : side[s] # "active"
  /\ shutdown = "stopping" => Stop # {}
  /\ shutdown = "closed" => \E b \in Stop : barrier[b].phase = "done"

MInv == Types /\ DrainInv /\ MTypes /\ Passing /\ Closing

-----------------------------------------------------------------------------
LEMMA ActivitiesInOrder ==
  /\ Len(Activities) = 6 /\ AtWork = 7
  /\ Activities[1] = "gate" /\ Activities[2] = "admission" /\ Activities[3] = "worker"
  /\ Activities[4] = "signals" /\ Activities[5] = "background" /\ Activities[6] = "writes"
BY DEF Activities, AtWork

\* Who may be at the head of the queue.
LEMMA Passes ==
  /\ Pause \subseteq Owner /\ Pause \cap Stop = {}
  /\ Vacuum \cup AutoVacuum = Pause
  /\ Pause \cap (Cleanup \cup CleanTick) = {}
BY WriteQueueAssumption, MaintenanceAssumption DEF Owner, Tick

LEMMA HeadIsQueued ==
  ASSUME MTypes, queue # <<>>
  PROVE  /\ Head(queue) \in Owner /\ work[Head(queue)] = "queued"
         /\ Tail(queue) \in Seq(Owner) /\ Distinct(Tail(queue))
         /\ Len(Tail(queue)) = Len(queue) - 1
         /\ ToSet(Tail(queue)) = ToSet(queue) \ {Head(queue)}
<1>1. queue \in Seq(Owner) /\ Distinct(queue) /\ ToSet(queue) = {o \in Owner : work[o] = "queued"}
  BY DEF MTypes
<1>2. Distinct(Tail(queue)) /\ Head(queue) \in ToSet(queue)
      /\ ToSet(Tail(queue)) = ToSet(queue) \ {Head(queue)}
  BY <1>1, LeavesDistinct
<1>3. Tail(queue) \in Seq(Owner) /\ Len(Tail(queue)) = Len(queue) - 1
  BY <1>1
<1> QED
  BY <1>1, <1>2, <1>3

\* A pass that joins the queue leaves its head as it is.
LEMMA HeadStays ==
  ASSUME NEW q \in Seq(Owner), NEW o \in Owner, q # <<>>
  PROVE  Append(q, o) # <<>> /\ Head(Append(q, o)) = Head(q)
OBVIOUS

-----------------------------------------------------------------------------
\* A step of a pass, by the activity that has been drained.
PausesSide(s) ==
  /\ sidePaused' = sidePaused \cup {s}
  /\ UNCHANGED <<wqVars, gatePaused, bgState>>

PassMoves ==
  \/ step = 1 /\ active = {} /\ PausesSide("admission")
  \/ step = 2 /\ side["admission"] # "active" /\ PausesSide("worker")
  \/ step = 3 /\ side["worker"] # "active" /\ PausesSide("signals")
  \/ /\ step = 4 /\ side["signals"] # "active"
     /\ bgState' = (IF bgState = "open" THEN "paused" ELSE bgState)
     /\ UNCHANGED <<wqVars, gatePaused, sidePaused>>
  \/ /\ step = 5 /\ Running = {} /\ Drain(Head(queue))
     /\ UNCHANGED <<gatePaused, sidePaused, bgState>>
  \/ /\ step = 6 /\ barrier[Head(queue)].phase = "done"
     /\ UNCHANGED <<wqVars, gatePaused, sidePaused, bgState>>

LEMMA PauseOfSide ==
  ASSUME MTypes, NEW k, Activities[k] \in Side, PauseActivity(k)
  PROVE  PausesSide(Activities[k])
<1>1. /\ gatePaused' = (gatePaused \/ Activities[k] = "gate")
      /\ sidePaused' = sidePaused \cup (Side \cap {Activities[k]})
      /\ bgState' = IF Activities[k] = "background" /\ bgState = "open" THEN "paused" ELSE bgState
      /\ IF Activities[k] = "writes" THEN Drain(Head(queue)) ELSE UNCHANGED wqVars
  BY DEF PauseActivity
<1>2. Activities[k] \notin {"gate", "background", "writes"}
  BY DEF Side
<1>3. gatePaused' = gatePaused
  BY <1>1, <1>2 DEF MTypes
<1>4. Side \cap {Activities[k]} = {Activities[k]}
  OBVIOUS
<1> QED
  BY <1>1, <1>2, <1>3, <1>4 DEF PausesSide

LEMMA PassStepMoves ==
  ASSUME MTypes, PassStep
  PROVE  /\ PassMoves /\ step' = step + 1
         /\ UNCHANGED <<active, work, queue, closed, side, jobs, shutdown>>
<1>1. step \in 1..6 /\ Drained(Activities[step]) /\ step' = step + 1
      /\ UNCHANGED <<active, work, queue, closed, side, jobs, shutdown>>
      /\ IF step + 1 = 7 THEN UNCHANGED <<wqVars, gatePaused, sidePaused, bgState>>
                         ELSE PauseActivity(step + 1)
  BY ActivitiesInOrder DEF PassStep
<1>2. Side = {"admission", "worker", "signals"}
  BY DEF Side
<1>3. CASE step = 1
  <2>1. PauseActivity(2)
    BY <1>1, <1>3
  <2>2. PausesSide("admission")
    BY <1>2, <2>1, PauseOfSide, ActivitiesInOrder
  <2>3. Drained(Activities[1])
    BY <1>1, <1>3
  <2> QED
    BY <1>1, <1>3, <2>2, <2>3, ActivitiesInOrder DEF Drained, PassMoves
<1>4. CASE step = 2
  <2>1. PauseActivity(3)
    BY <1>1, <1>4
  <2>2. PausesSide("worker")
    BY <1>2, <2>1, PauseOfSide, ActivitiesInOrder
  <2>3. Drained(Activities[2])
    BY <1>1, <1>4
  <2> QED
    BY <1>1, <1>4, <2>2, <2>3, ActivitiesInOrder DEF Drained, PassMoves
<1>5. CASE step = 3
  <2>1. PauseActivity(4)
    BY <1>1, <1>5
  <2>2. PausesSide("signals")
    BY <1>2, <2>1, PauseOfSide, ActivitiesInOrder
  <2>3. Drained(Activities[3])
    BY <1>1, <1>5
  <2> QED
    BY <1>1, <1>5, <2>2, <2>3, ActivitiesInOrder DEF Drained, PassMoves
<1>6. CASE step = 4
  BY <1>1, <1>2, <1>6, ActivitiesInOrder DEF Drained, PauseActivity, PassMoves, MTypes
<1>7. CASE step = 5
  BY <1>1, <1>2, <1>7, ActivitiesInOrder DEF Drained, PauseActivity, PassMoves, MTypes
<1>8. CASE step = 6
  BY <1>1, <1>8, ActivitiesInOrder DEF Drained, PassMoves
<1> QED
  BY <1>1, <1>3, <1>4, <1>5, <1>6, <1>7, <1>8


-----------------------------------------------------------------------------
(* The write queue in the gateway. *)

LEMMA EndPassQueue ==
  ASSUME EndPass
  PROVE  Resume \/ UNCHANGED wqVars
<1>1. /\ pausedBy' = IF stopped THEN pausedBy ELSE {}
      /\ UNCHANGED <<stage, calls, admission, blockers, chain, tasks, timer, stopped, barrier>>
  BY DEF EndPass, Reopen
<1> QED
  BY <1>1 DEF Resume, wqVars

LEMMA EndsAPass ==
  ASSUME Passing, PassTimeout \/ PassEnds \/ SkipTick
  PROVE  EndPass /\ queue # <<>>
<1>1. CASE SkipTick
  BY <1>1 DEF SkipTick
<1>2. CASE PassTimeout \/ PassEnds
  BY <1>2, ActivitiesInOrder DEF PassTimeout, PassEnds, Passing
<1> QED
  BY <1>1, <1>2

\* The first activity is not the write queue's.
LEMMA StartVacuumMoves ==
  ASSUME MTypes, StartVacuum
  PROVE  /\ step = 0 /\ queue # <<>> /\ Head(queue) \in Vacuum /\ step' = 1
         /\ gatePaused' = TRUE
         /\ UNCHANGED <<wqVars, sidePaused, bgState, active, work, queue, closed, side, jobs, shutdown>>
<1>1. /\ step = 0 /\ queue # <<>> /\ Head(queue) \in Vacuum /\ step' = 1 /\ PauseActivity(1)
      /\ UNCHANGED <<active, work, queue, closed, side, jobs, shutdown>>
  BY DEF StartVacuum
<1>2. /\ gatePaused' = TRUE
      /\ UNCHANGED <<wqVars, sidePaused, bgState>>
  <2>1. Side \cap {"gate"} = {}
    BY DEF Side
  <2> QED
    BY <1>1, <2>1, ActivitiesInOrder DEF PauseActivity
<1> QED
  BY <1>1, <1>2

LEMMA StepUsesQueue ==
  ASSUME MTypes, Passing, [MNext]_vars
  PROVE  [Next]_wqVars
<1>1. CASE UNCHANGED vars
  BY <1>1 DEF vars
<1>2. ASSUME NEW r \in Request, Enter(r) \/ Leave(r) \/ Ask(r)
      PROVE  UNCHANGED wqVars
  BY <1>2 DEF Enter, Leave, Ask
<1>3. ASSUME NEW s \in Side, Begin(s) \/ Finish(s)
      PROVE  UNCHANGED wqVars
  BY <1>3 DEF Begin, Finish
<1>4. ASSUME NEW j \in Job, Spawn(j) \/ JobEnds(j)
      PROVE  UNCHANGED wqVars
  BY <1>4 DEF Spawn, JobEnds
<1>5. ASSUME NEW t \in Tick, TickFires(t)
      PROVE  UNCHANGED wqVars
  BY <1>5 DEF TickFires
<1>6. CASE WorkerChecked \/ StartCleanup \/ StartAutoVacuum \/ Dispose \/ CloseStore
  BY <1>6 DEF WorkerChecked, StartCleanup, StartAutoVacuum, Dispose, CloseStore
<1>7. CASE StartVacuum
  BY <1>7, StartVacuumMoves
<1>8. CASE PassTimeout \/ PassEnds \/ SkipTick
  BY <1>8, EndsAPass, EndPassQueue DEF Next
<1>9. CASE PassStep
  <2>1. CASE step = 5 /\ Drain(Head(queue))
    <3>1. Head(queue) \in Pause \cup Stop
      BY <2>1 DEF Passing
    <3> QED
      BY <2>1, <3>1 DEF Next
  <2>2. CASE UNCHANGED wqVars
    BY <2>2
  <2> QED
    BY <1>9, <2>1, <2>2, PassStepMoves DEF PassMoves, PausesSide
<1>10. CASE DisposeWrites
  BY <1>10 DEF DisposeWrites, Next
<1>11. CASE QueueStep
  BY <1>11 DEF QueueStep, Next
<1>12. ASSUME NEW i \in Item, Write(i)
       PROVE  Next
  BY <1>12 DEF Write, Next
<1> QED
  BY <1>1, <1>2, <1>3, <1>4, <1>5, <1>6, <1>7, <1>8, <1>9, <1>10, <1>11, <1>12
  DEF MNext, PassProgress

-----------------------------------------------------------------------------
(* The types. *)

\* Steps that neither queue a pass nor end one.
LEMMA QueueStays ==
  ASSUME MTypes, UNCHANGED queue, work' \in [Owner -> {"new", "active", "queued", "ended"}],
         \A o \in Owner : work'[o] = "queued" <=> work[o] = "queued"
  PROVE  /\ queue' \in Seq(Owner) /\ Distinct(queue') /\ Len(queue') <= QueueDepth
         /\ ToSet(queue') = {o \in Owner : work'[o] = "queued"}
BY DEF MTypes

LEMMA QueueGrows ==
  ASSUME MTypes, NEW o \in Owner, work[o] # "queued", QueueTakes,
         queue' = Append(queue, o), work' = [work EXCEPT ![o] = "queued"]
  PROVE  /\ queue' \in Seq(Owner) /\ Distinct(queue') /\ Len(queue') <= QueueDepth
         /\ ToSet(queue') = {p \in Owner : work'[p] = "queued"}
         /\ work' \in [Owner -> {"new", "active", "queued", "ended"}]
<1>1. /\ queue \in Seq(Owner) /\ Distinct(queue) /\ o \notin ToSet(queue)
      /\ ToSet(queue) = {p \in Owner : work[p] = "queued"}
      /\ work \in [Owner -> {"new", "active", "queued", "ended"}]
  BY DEF MTypes
<1>2. /\ Append(queue, o) \in Seq(Owner) /\ Distinct(Append(queue, o))
      /\ ToSet(Append(queue, o)) = ToSet(queue) \cup {o}
  BY <1>1, Joins
<1>3. Len(queue') <= QueueDepth
  BY <1>1, MaintenanceAssumption DEF QueueTakes
<1>4. {p \in Owner : work'[p] = "queued"} = {p \in Owner : work[p] = "queued"} \cup {o}
  BY <1>1
<1> QED
  BY <1>1, <1>2, <1>3, <1>4

LEMMA EndPassTypes ==
  ASSUME MTypes, EndPass, queue # <<>>
  PROVE  MTypes'
<1> DEFINE o == Head(queue)
<1>1. /\ gatePaused' = FALSE /\ sidePaused' = {}
      /\ bgState' = IF bgState = "paused" THEN "open" ELSE bgState
      /\ queue' = Tail(queue) /\ step' = 0
      /\ work' = [work EXCEPT ![o] = "ended"] /\ active' = active \ {o}
      /\ UNCHANGED <<closed, side, jobs, shutdown>>
  BY DEF EndPass, Reopen
<1>2. /\ o \in Owner /\ work[o] = "queued"
      /\ Tail(queue) \in Seq(Owner) /\ Distinct(Tail(queue))
      /\ Len(Tail(queue)) = Len(queue) - 1
      /\ ToSet(Tail(queue)) = ToSet(queue) \ {o}
  BY HeadIsQueued
<1> HIDE DEF o
<1>3. /\ work' \in [Owner -> {"new", "active", "queued", "ended"}]
      /\ {p \in Owner : work'[p] = "queued"} = {p \in Owner : work[p] = "queued"} \ {o}
  BY <1>1, <1>2 DEF MTypes
<1>4. Len(queue') <= QueueDepth
  BY <1>1, <1>2, MaintenanceAssumption DEF MTypes
<1>5. step' \in 0..AtWork
  BY <1>1, ActivitiesInOrder
<1>6. /\ gatePaused' \in BOOLEAN /\ closed' \in BOOLEAN /\ active' \subseteq Request
      /\ side' \in [Side -> {"idle", "checking", "active"}] /\ sidePaused' \subseteq Side
      /\ bgState' \in {"open", "paused", "closed"}
      /\ jobs' \in [Job -> {"new", "active", "done"}]
      /\ shutdown' \in {"no", "draining", "stopping", "closed"}
  BY <1>1 DEF MTypes
<1>7. ToSet(queue') = {p \in Owner : work'[p] = "queued"}
  BY <1>1, <1>2, <1>3 DEF MTypes
<1> QED
  BY <1>1, <1>2, <1>3, <1>4, <1>5, <1>6, <1>7 DEF MTypes


LEMMA SetQueueTypes ==
  ASSUME MTypes, step' \in 0..AtWork, sidePaused' \subseteq Side, gatePaused' \in BOOLEAN,
         bgState' \in {"open", "paused", "closed"},
         UNCHANGED <<active, work, queue, closed, side, jobs, shutdown>>
  PROVE  MTypes'
BY DEF MTypes

LEMMA NextMTypes ==
  ASSUME MTypes, Passing, [MNext]_vars
  PROVE  MTypes'
<1>0. /\ step \in 0..AtWork /\ sidePaused \subseteq Side /\ gatePaused \in BOOLEAN
      /\ bgState \in {"open", "paused", "closed"}
      /\ active \subseteq Request /\ closed \in BOOLEAN
      /\ work \in [Owner -> {"new", "active", "queued", "ended"}]
      /\ side \in [Side -> {"idle", "checking", "active"}]
      /\ jobs \in [Job -> {"new", "active", "done"}]
      /\ shutdown \in {"no", "draining", "stopping", "closed"}
  BY DEF MTypes
<1>1. CASE UNCHANGED vars
  BY <1>1 DEF vars, mVars, MTypes
<1>2. ASSUME NEW r \in Request, Enter(r) \/ Leave(r)
      PROVE  MTypes'
  <2>1. /\ work[r] \in {"new", "active"} /\ r \in Owner
        /\ \E w \in {"active", "ended"} : work' = [work EXCEPT ![r] = w]
        /\ active' \subseteq Request
        /\ UNCHANGED <<gatePaused, queue, closed, step, side, sidePaused, bgState, jobs, shutdown>>
    BY <1>0, <1>2 DEF Enter, Leave, Owner
  <2>2. /\ work' \in [Owner -> {"new", "active", "queued", "ended"}]
        /\ \A o \in Owner : work'[o] = "queued" <=> work[o] = "queued"
    BY <1>0, <2>1
  <2>3. /\ queue' \in Seq(Owner) /\ Distinct(queue') /\ Len(queue') <= QueueDepth
        /\ ToSet(queue') = {o \in Owner : work'[o] = "queued"}
    BY <2>1, <2>2, QueueStays
  <2> QED
    BY <1>0, <2>1, <2>2, <2>3 DEF MTypes
<1>3. ASSUME NEW r \in Request, Ask(r)
      PROVE  MTypes'
  <2>1. /\ work[r] = "active" /\ r \in Owner /\ active' \subseteq Request
        /\ UNCHANGED <<gatePaused, closed, step, side, sidePaused, bgState, jobs, shutdown>>
    BY <1>0, <1>3 DEF Ask, Owner
  <2>2. CASE QueueTakes
    <3>1. queue' = Append(queue, r) /\ work' = [work EXCEPT ![r] = "queued"]
      BY <1>3, <2>2 DEF Ask
    <3>2. /\ queue' \in Seq(Owner) /\ Distinct(queue') /\ Len(queue') <= QueueDepth
          /\ ToSet(queue') = {o \in Owner : work'[o] = "queued"}
          /\ work' \in [Owner -> {"new", "active", "queued", "ended"}]
      BY <2>1, <2>2, <3>1, QueueGrows
    <3> QED
      BY <1>0, <2>1, <3>2 DEF MTypes
  <2>3. CASE ~QueueTakes
    <3>1. queue' = queue /\ work' = [work EXCEPT ![r] = "ended"]
      BY <1>3, <2>3 DEF Ask
    <3>2. /\ work' \in [Owner -> {"new", "active", "queued", "ended"}]
          /\ \A o \in Owner : work'[o] = "queued" <=> work[o] = "queued"
      BY <1>0, <2>1, <3>1
    <3>3. /\ queue' \in Seq(Owner) /\ Distinct(queue') /\ Len(queue') <= QueueDepth
          /\ ToSet(queue') = {o \in Owner : work'[o] = "queued"}
      BY <3>1, <3>2, QueueStays
    <3> QED
      BY <1>0, <2>1, <3>2, <3>3 DEF MTypes
  <2> QED
    BY <2>2, <2>3
<1>4. ASSUME NEW t \in Tick, TickFires(t)
      PROVE  MTypes'
  <2>1. /\ work[t] = "new" /\ t \in Owner
        /\ UNCHANGED <<gatePaused, active, closed, step, side, sidePaused, bgState, jobs, shutdown>>
    BY <1>4 DEF TickFires, Owner
  <2>2. CASE QueueTakes
    <3>1. queue' = Append(queue, t) /\ work' = [work EXCEPT ![t] = "queued"]
      BY <1>4, <2>2 DEF TickFires
    <3>2. /\ queue' \in Seq(Owner) /\ Distinct(queue') /\ Len(queue') <= QueueDepth
          /\ ToSet(queue') = {o \in Owner : work'[o] = "queued"}
          /\ work' \in [Owner -> {"new", "active", "queued", "ended"}]
      BY <2>1, <2>2, <3>1, QueueGrows
    <3> QED
      BY <1>0, <2>1, <3>2 DEF MTypes
  <2>3. CASE ~QueueTakes
    <3>1. queue' = queue /\ work' = [work EXCEPT ![t] = "ended"]
      BY <1>4, <2>3 DEF TickFires
    <3>2. /\ work' \in [Owner -> {"new", "active", "queued", "ended"}]
          /\ \A o \in Owner : work'[o] = "queued" <=> work[o] = "queued"
      BY <1>0, <2>1, <3>1
    <3>3. /\ queue' \in Seq(Owner) /\ Distinct(queue') /\ Len(queue') <= QueueDepth
          /\ ToSet(queue') = {o \in Owner : work'[o] = "queued"}
      BY <3>1, <3>2, QueueStays
    <3> QED
      BY <1>0, <2>1, <3>2, <3>3 DEF MTypes
  <2> QED
    BY <2>2, <2>3
<1>5. ASSUME NEW s \in Side, Begin(s) \/ Finish(s)
      PROVE  MTypes'
  <2>1. /\ side' \in [Side -> {"idle", "checking", "active"}]
        /\ UNCHANGED <<gatePaused, active, work, queue, closed, step, sidePaused, bgState, jobs, shutdown>>
    BY <1>0, <1>5 DEF Begin, Finish
  <2> QED
    BY <2>1 DEF MTypes
<1>6. CASE WorkerChecked
  <2>1. /\ side' \in [Side -> {"idle", "checking", "active"}]
        /\ UNCHANGED <<gatePaused, active, work, queue, closed, step, sidePaused, bgState, jobs, shutdown>>
    BY <1>0, <1>6 DEF WorkerChecked
  <2> QED
    BY <2>1 DEF MTypes
<1>7. ASSUME NEW j \in Job, Spawn(j) \/ JobEnds(j)
      PROVE  MTypes'
  <2>1. /\ jobs' \in [Job -> {"new", "active", "done"}]
        /\ UNCHANGED <<gatePaused, active, work, queue, closed, step, side, sidePaused, bgState, shutdown>>
    BY <1>0, <1>7 DEF Spawn, JobEnds
  <2> QED
    BY <2>1 DEF MTypes
<1>8. ASSUME NEW i \in Item, Write(i)
      PROVE  MTypes'
  BY <1>8 DEF Write, mVars, MTypes
<1>9. CASE QueueStep
  BY <1>9 DEF QueueStep, mVars, MTypes
<1>10. CASE StartCleanup
  BY <1>0, <1>10, SetQueueTypes, ActivitiesInOrder DEF StartCleanup
<1>11. CASE StartVacuum
  BY <1>0, <1>11, SetQueueTypes, StartVacuumMoves, ActivitiesInOrder
<1>12. CASE StartAutoVacuum
  BY <1>0, <1>12, SetQueueTypes, ActivitiesInOrder DEF StartAutoVacuum, Side
<1>13. CASE PassStep
  <2>1. /\ PassMoves /\ step' = step + 1
        /\ UNCHANGED <<active, work, queue, closed, side, jobs, shutdown>>
    BY <1>13, PassStepMoves
  <2>2. step \in 1..6 /\ gatePaused' = gatePaused
    BY <2>1 DEF PassMoves, PausesSide
  <2>3. \/ sidePaused' = sidePaused
        \/ \E s \in Side : sidePaused' = sidePaused \cup {s}
    BY <2>1 DEF PassMoves, PausesSide, Side
  <2>4. bgState' \in {bgState, "paused"}
    BY <2>1 DEF PassMoves, PausesSide
  <2>5. sidePaused' \subseteq Side /\ bgState' \in {"open", "paused", "closed"}
    BY <1>0, <2>3, <2>4
  <2>6. step' \in 0..AtWork
    BY <2>1, <2>2, ActivitiesInOrder
  <2> QED
    BY <1>0, <2>1, <2>2, <2>5, <2>6, SetQueueTypes
<1>14. CASE PassTimeout \/ PassEnds \/ SkipTick
  BY <1>14, EndsAPass, EndPassTypes
<1>15. CASE Dispose \/ DisposeWrites \/ CloseStore
  <2>1. /\ bgState' \in {"open", "paused", "closed"} /\ closed' \in BOOLEAN
        /\ shutdown' \in {"no", "draining", "stopping", "closed"}
        /\ UNCHANGED <<gatePaused, active, work, queue, step, side, sidePaused, jobs>>
    BY <1>0, <1>15 DEF Dispose, DisposeWrites, CloseStore
  <2> QED
    BY <2>1 DEF MTypes
<1> QED
  BY <1>1, <1>2, <1>3, <1>4, <1>5, <1>6, <1>7, <1>8, <1>9, <1>10, <1>11, <1>12, <1>13, <1>14, <1>15
  DEF MNext, PassProgress

LEMMA InitMInv == Init => MInv
<1> SUFFICES ASSUME Init PROVE MInv
  OBVIOUS
<1>1. Types
  BY InitTypes DEF Init
<1>2. DrainInv
  BY InitDrain DEF Init
<1>3. MTypes
  <2>1. /\ gatePaused = FALSE /\ active = {} /\ work = [o \in Owner |-> "new"]
        /\ queue = <<>> /\ closed = FALSE /\ step = 0
        /\ side = [s \in Side |-> "idle"] /\ sidePaused = {}
        /\ bgState = "open" /\ jobs = [j \in Job |-> "new"] /\ shutdown = "no"
    BY DEF Init
  <2>2. /\ <<>> \in Seq(Owner) /\ Distinct(<<>>) /\ ToSet(<<>>) = {}
        /\ Len(<<>>) <= QueueDepth
    BY MaintenanceAssumption DEF Distinct, ToSet
  <2>3. /\ work \in [Owner -> {"new", "active", "queued", "ended"}]
        /\ \A o \in Owner : work[o] # "queued"
        /\ side \in [Side -> {"idle", "checking", "active"}]
        /\ jobs \in [Job -> {"new", "active", "done"}]
    BY <2>1
  <2>4. queue \in Seq(Owner) /\ Distinct(queue) /\ Len(queue) <= QueueDepth
    BY <2>1, <2>2
  <2>5. ToSet(queue) = {o \in Owner : work[o] = "queued"}
    BY <2>1, <2>2, <2>3
  <2>6. /\ gatePaused \in BOOLEAN /\ closed \in BOOLEAN /\ active \subseteq Request
        /\ sidePaused \subseteq Side /\ bgState \in {"open", "paused", "closed"}
        /\ shutdown \in {"no", "draining", "stopping", "closed"}
    BY <2>1
  <2>7. step \in 0..AtWork
    BY <2>1, ActivitiesInOrder
  <2> QED
    BY <2>3, <2>4, <2>5, <2>6, <2>7 DEF MTypes
<1>4. Passing /\ Closing
  BY DEF Init, WQInit, Passing, Closing
<1> QED
  BY <1>1, <1>2, <1>3, <1>4 DEF MInv

-----------------------------------------------------------------------------
(* What a pass has drained stays drained.                                   *)

\* A step that neither moves a pass nor takes away from what it has drained.
Undisturbed ==
  /\ UNCHANGED <<step, gatePaused, sidePaused, pausedBy>>
  /\ step # 0 => queue' # <<>> /\ Head(queue') = Head(queue)
  /\ gatePaused => active' \subseteq active
  /\ \A s \in sidePaused : side[s] # "active" => side'[s] # "active"
  /\ bgState # "open" => bgState' # "open" /\ (Running = {} => Running' = {})
  /\ \A b \in Pause \cup Stop : barrier[b].phase = "done" => barrier'[b].phase = "done"

LEMMA UndisturbedPasses ==
  ASSUME MTypes, Passing, Undisturbed
  PROVE  Passing'
<1>1. CASE step = 0
  BY <1>1 DEF Undisturbed, Passing
<1>2. CASE step # 0 /\ Head(queue) \in Pause
  <2>1. DrainedSoFar /\ step \in 1..7
    BY <1>2, ActivitiesInOrder DEF Passing, MTypes
  <2>2. /\ step' = step /\ gatePaused' = gatePaused /\ sidePaused' = sidePaused
        /\ pausedBy' = pausedBy
        /\ queue' # <<>> /\ Head(queue') = Head(queue)
    BY <1>2 DEF Undisturbed
  <2>3. step >= 2 => active' = {} /\ "admission" \in sidePaused'
    BY <2>1, <2>2 DEF Undisturbed, DrainedSoFar
  <2>4. /\ step >= 3 => side'["admission"] # "active" /\ "worker" \in sidePaused'
        /\ step >= 4 => side'["worker"] # "active" /\ "signals" \in sidePaused'
        /\ step >= 5 => side'["signals"] # "active" /\ bgState' # "open"
    BY <2>1, <2>2 DEF Undisturbed, DrainedSoFar
  <2>5. step >= 6 => Running' = {} /\ pausedBy' = {Head(queue')}
    BY <2>1, <2>2 DEF Undisturbed, DrainedSoFar
  <2>6. step >= 7 => barrier'[Head(queue')].phase = "done"
    BY <1>2, <2>1, <2>2 DEF Undisturbed, DrainedSoFar
  <2>7. DrainedSoFar'
    BY <2>1, <2>2, <2>3, <2>4, <2>5, <2>6 DEF DrainedSoFar
  <2> QED
    BY <1>2, <2>2, <2>7 DEF Passing
<1>3. CASE step # 0 /\ Head(queue) \notin Pause
  BY <1>3 DEF Undisturbed, Passing
<1> QED
  BY <1>1, <1>2, <1>3

\* Everything but the passes themselves and the stop of the write queue.
LEMMA OthersDisturbNothing ==
  ASSUME MTypes, Passing,
         [MNext]_vars, ~PassProgress, ~DisposeWrites
  PROVE  Undisturbed
<1>0. /\ step # 0 => queue # <<>>
      /\ queue \in Seq(Owner)
      /\ work \in [Owner -> {"new", "active", "queued", "ended"}]
      /\ side \in [Side -> {"idle", "checking", "active"}]
      /\ jobs \in [Job -> {"new", "active", "done"}]
  BY DEF Passing, MTypes
<1>1. CASE UNCHANGED vars
  BY <1>0, <1>1 DEF vars, wqVars, mVars, Undisturbed, Running
<1>2. ASSUME NEW r \in Request, Enter(r) \/ Leave(r)
      PROVE  Undisturbed
  <2>1. /\ gatePaused => active' \subseteq active
        /\ UNCHANGED <<wqVars, gatePaused, queue, step, side, sidePaused, bgState, jobs>>
    BY <1>2 DEF Enter, Leave
  <2> QED
    BY <1>0, <2>1 DEF Undisturbed, wqVars, Running
<1>3. ASSUME NEW r \in Request, Ask(r)
      PROVE  Undisturbed
  <2>1. /\ queue' = queue \/ queue' = Append(queue, r)
        /\ active' \subseteq active /\ r \in Owner
        /\ UNCHANGED <<wqVars, gatePaused, step, side, sidePaused, bgState, jobs>>
    BY <1>3 DEF Ask, Owner
  <2>2. step # 0 => queue' # <<>> /\ Head(queue') = Head(queue)
    BY <1>0, <2>1, HeadStays
  <2> QED
    BY <2>1, <2>2 DEF Undisturbed, wqVars, Running
<1>4. ASSUME NEW t \in Tick, TickFires(t)
      PROVE  Undisturbed
  <2>1. /\ queue' = queue \/ queue' = Append(queue, t)
        /\ t \in Owner
        /\ UNCHANGED <<wqVars, gatePaused, active, step, side, sidePaused, bgState, jobs>>
    BY <1>4 DEF TickFires, Owner
  <2>2. step # 0 => queue' # <<>> /\ Head(queue') = Head(queue)
    BY <1>0, <2>1, HeadStays
  <2> QED
    BY <2>1, <2>2 DEF Undisturbed, wqVars, Running
<1>5. ASSUME NEW s \in Side, Begin(s) \/ Finish(s)
      PROVE  Undisturbed
  <2>1. /\ \A p \in sidePaused : side[p] # "active" => side'[p] # "active"
        /\ UNCHANGED <<wqVars, gatePaused, active, queue, step, sidePaused, bgState, jobs>>
    BY <1>0, <1>5 DEF Begin, Finish, MTypes
  <2> QED
    BY <1>0, <2>1 DEF Undisturbed, wqVars, Running
<1>6. CASE WorkerChecked
  <2>1. /\ \A p \in sidePaused : side[p] # "active" => side'[p] # "active"
        /\ UNCHANGED <<wqVars, gatePaused, active, queue, step, sidePaused, bgState, jobs>>
    BY <1>0, <1>6 DEF WorkerChecked, WorkerMayRun, MTypes
  <2> QED
    BY <1>0, <2>1 DEF Undisturbed, wqVars, Running
<1>7. ASSUME NEW j \in Job, Spawn(j) \/ JobEnds(j)
      PROVE  Undisturbed
  <2>1. /\ bgState # "open" => (Running = {} => Running' = {})
        /\ UNCHANGED <<wqVars, gatePaused, active, queue, step, side, sidePaused, bgState>>
    <3>1. CASE Spawn(j)
      BY <3>1 DEF Spawn
    <3>2. CASE JobEnds(j)
      BY <1>0, <3>2 DEF JobEnds, Running
    <3> QED
      BY <1>7, <3>1, <3>2
  <2> QED
    BY <1>0, <2>1 DEF Undisturbed, wqVars
<1>8. ASSUME NEW i \in Item, Write(i)
      PROVE  Undisturbed
  <2>1. UNCHANGED <<pausedBy, barrier, mVars>>
    BY <1>8 DEF Write, Enqueue, Refuses
  <2> QED
    BY <1>0, <2>1 DEF Undisturbed, mVars, Running
<1>9. CASE QueueStep
  <2>1. /\ UNCHANGED <<pausedBy, mVars>>
        /\ \A b \in Pause \cup Stop : barrier[b].phase = "done" => barrier'[b].phase = "done"
    <3>1. CASE AdmitHead \/ TimerFires \/ BatchSettles \/ TaskSettles
      BY <1>9, <3>1 DEF AdmitHead, TimerFires, BatchSettles, TaskSettles, QueueStep
    <3>2. ASSUME NEW b \in Pause \cup Stop, DrainStep(b)
          PROVE  /\ UNCHANGED pausedBy
                 /\ \A c \in Pause \cup Stop : barrier[c].phase = "done" => barrier'[c].phase = "done"
      <4>1. /\ pausedBy' = pausedBy /\ barrier[b].phase # "done"
            /\ \E x : barrier' = [barrier EXCEPT ![b] = x]
        BY <3>2 DEF DrainStep
      <4> QED
        BY <4>1
    <3> QED
      BY <1>9, <3>1, <3>2 DEF QueueStep
  <2> QED
    BY <1>0, <2>1 DEF Undisturbed, mVars, Running
<1>10. CASE Dispose \/ CloseStore
  <2>1. /\ bgState # "open" => bgState' # "open"
        /\ UNCHANGED <<wqVars, gatePaused, active, queue, step, side, sidePaused, jobs>>
    BY <1>10 DEF Dispose, CloseStore
  <2> QED
    BY <1>0, <2>1 DEF Undisturbed, wqVars, Running
<1> QED
  BY <1>1, <1>2, <1>3, <1>4, <1>5, <1>6, <1>7, <1>8, <1>9, <1>10 DEF MNext

\* A pass goes on when its activity is drained, and pauses the next one.
LEMMA PassStepPasses ==
  ASSUME Types, MTypes, Passing, PassStep
  PROVE  Passing'
<1>1. /\ PassMoves /\ step' = step + 1
      /\ UNCHANGED <<active, work, queue, closed, side, jobs, shutdown>>
  BY PassStepMoves
<1>2. step \in 1..6 /\ queue # <<>> /\ Head(queue) \in Pause /\ DrainedSoFar
  BY ActivitiesInOrder DEF PassStep, Passing
<1>3. queue' # <<>> /\ Head(queue') = Head(queue) /\ Running' = Running
  BY <1>1, <1>2 DEF Running
<1>4. CASE step \in {1, 2, 3}
  <2>1. /\ gatePaused /\ UNCHANGED gatePaused
        /\ step' = 2 => active = {} /\ sidePaused' = sidePaused \cup {"admission"}
        /\ step' = 3 => side["admission"] # "active" /\ sidePaused' = sidePaused \cup {"worker"}
        /\ step' = 4 => side["worker"] # "active" /\ sidePaused' = sidePaused \cup {"signals"}
    <3>1. /\ step = 1 => active = {} /\ PausesSide("admission")
          /\ step = 2 => side["admission"] # "active" /\ PausesSide("worker")
          /\ step = 3 => side["worker"] # "active" /\ PausesSide("signals")
      BY <1>1 DEF PassMoves
    <3>2. gatePaused' = gatePaused /\ gatePaused
      BY <1>2, <1>4, <3>1 DEF PausesSide, DrainedSoFar
    <3> QED
      BY <1>1, <1>4, <3>1, <3>2 DEF PausesSide
  <2>2. step' \in {2, 3, 4} /\ UNCHANGED <<active, side>>
    BY <1>1, <1>4
  <2>3. /\ step' >= 3 => active = {} /\ "admission" \in sidePaused
        /\ step' >= 4 => side["admission"] # "active" /\ "worker" \in sidePaused
    BY <1>1, <1>2, <2>2 DEF DrainedSoFar
  <2>4. gatePaused' /\ active' = {} /\ "admission" \in sidePaused'
    BY <2>1, <2>2, <2>3
  <2>5. /\ step' >= 3 => side'["admission"] # "active" /\ "worker" \in sidePaused'
        /\ step' >= 4 => side'["worker"] # "active" /\ "signals" \in sidePaused'
        /\ ~(step' >= 5) /\ ~(step' >= 6) /\ ~(step' >= 7)
    BY <2>1, <2>2, <2>3
  <2>6. DrainedSoFar'
    BY <2>4, <2>5 DEF DrainedSoFar
  <2> QED
    BY <1>2, <1>3, <2>6 DEF Passing
<1>5. CASE step = 4
  BY <1>1, <1>2, <1>3, <1>5 DEF PassMoves, PausesSide, DrainedSoFar, Passing
<1>6. CASE step = 5
  <2>1. pausedBy' = {Head(queue)}
    BY <1>1, <1>2, <1>6 DEF PassMoves, PausesSide, Drain
  <2> QED
    BY <1>1, <1>2, <1>3, <1>6, <2>1 DEF PassMoves, PausesSide, DrainedSoFar, Passing
<1>7. CASE step = 6
  BY <1>1, <1>2, <1>3, <1>7 DEF PassMoves, PausesSide, wqVars, DrainedSoFar, Passing
<1> QED
  BY <1>2, <1>4, <1>5, <1>6, <1>7

LEMMA NextPassing ==
  ASSUME Types, MTypes, Passing, [MNext]_vars
  PROVE  Passing'
<1>1. CASE ~PassProgress /\ ~DisposeWrites
  BY <1>1, OthersDisturbNothing, UndisturbedPasses
<1>2. CASE DisposeWrites
  BY <1>2 DEF DisposeWrites, StoreUsersDone, Passing
<1>3. CASE StartCleanup
  <2>1. queue # <<>> /\ queue' = queue /\ Head(queue) \notin Pause /\ step' = 7
    BY <1>3, Passes, ActivitiesInOrder DEF StartCleanup
  <2> QED
    BY <2>1 DEF Passing
<1>4. CASE StartVacuum
  <2>1. /\ queue # <<>> /\ Head(queue) \in Pause /\ step' = 1
        /\ gatePaused' = TRUE /\ queue' = queue
    BY <1>4, StartVacuumMoves, Passes
  <2> QED
    BY <2>1 DEF Passing, DrainedSoFar
<1>5. CASE StartAutoVacuum
  <2>1. /\ queue # <<>> /\ Head(queue) \in Pause /\ step' = 2
        /\ gatePaused' = TRUE /\ queue' = queue /\ active' = {} /\ "admission" \in sidePaused'
    BY <1>5, Passes, ActivitiesInOrder DEF StartAutoVacuum
  <2> QED
    BY <2>1 DEF Passing, DrainedSoFar
<1>6. CASE PassStep
  BY <1>6, PassStepPasses
<1>7. CASE PassTimeout \/ PassEnds \/ SkipTick
  <2>1. step' = 0
    BY <1>7, EndsAPass DEF EndPass
  <2> QED
    BY <2>1 DEF Passing
<1> QED
  BY <1>1, <1>2, <1>3, <1>4, <1>5, <1>6, <1>7 DEF PassProgress

-----------------------------------------------------------------------------
(* A shutdown goes on when what it waits for is over; none of it comes back. *)

\* A step that leaves a shutdown where it is.
ShutdownStays ==
  /\ UNCHANGED <<shutdown, stopped>>
  /\ shutdown = "no" => bgState' # "closed"
  /\ shutdown # "no" =>
       /\ bgState = "closed" => bgState' = "closed"
       /\ closed => closed' /\ (queue = <<>> => queue' = <<>>)
       /\ bgState = "closed" /\ Running = {} => Running' = {}
       /\ \A s \in {"worker", "signals"} : side[s] # "active" => side'[s] # "active"
  /\ \A b \in Stop : barrier[b].phase = "done" => barrier'[b].phase = "done"

LEMMA ShutdownStaysCloses ==
  ASSUME MTypes, Closing, ShutdownStays
  PROVE  Closing'
<1>1. shutdown' = shutdown /\ stopped' = stopped
  BY DEF ShutdownStays
<1>2. CASE shutdown = "no"
  BY <1>1, <1>2 DEF ShutdownStays, Closing
<1>3. CASE shutdown # "no"
  <2>1. bgState' = "closed" /\ closed'
    BY <1>3 DEF ShutdownStays, Closing
  <2>2. shutdown \in {"stopping", "closed"} =>
          /\ queue' = <<>> /\ Running' = {}
          /\ \A s \in {"worker", "signals"} : side'[s] # "active"
    BY <1>3 DEF ShutdownStays, Closing
  <2>3. /\ shutdown = "stopping" => Stop # {}
        /\ shutdown = "closed" => \E b \in Stop : barrier'[b].phase = "done"
    BY DEF ShutdownStays, Closing
  <2> QED
    BY <1>1, <1>3, <2>1, <2>2, <2>3 DEF Closing
<1> QED
  BY <1>2, <1>3

LEMMA NextClosing ==
  ASSUME Types, MTypes, Passing, Closing, [MNext]_vars
  PROVE  Closing'
<1>0. /\ work \in [Owner -> {"new", "active", "queued", "ended"}]
      /\ side \in [Side -> {"idle", "checking", "active"}]
      /\ jobs \in [Job -> {"new", "active", "done"}]
      /\ {"worker", "signals"} \subseteq Side
      /\ shutdown = "no" => bgState # "closed"
  BY DEF MTypes, Side, Closing
<1>1. CASE UNCHANGED vars
  BY <1>0, <1>1, ShutdownStaysCloses DEF vars, wqVars, mVars, ShutdownStays, Running
<1>2. ASSUME NEW r \in Request, Enter(r) \/ Leave(r)
      PROVE  Closing'
  <2>1. UNCHANGED <<wqVars, queue, closed, side, bgState, jobs, shutdown>>
    BY <1>2 DEF Enter, Leave
  <2> QED
    BY <1>0, <2>1, ShutdownStaysCloses DEF ShutdownStays, wqVars, Running
<1>3. ASSUME NEW r \in Request, Ask(r)
      PROVE  Closing'
  <2>1. /\ closed => queue' = queue
        /\ UNCHANGED <<wqVars, closed, side, bgState, jobs, shutdown>>
    BY <1>3 DEF Ask, QueueTakes
  <2> QED
    BY <1>0, <2>1, ShutdownStaysCloses DEF ShutdownStays, wqVars, Running
<1>4. ASSUME NEW t \in Tick, TickFires(t)
      PROVE  Closing'
  <2>1. /\ closed => queue' = queue
        /\ UNCHANGED <<wqVars, closed, side, bgState, jobs, shutdown>>
    BY <1>4 DEF TickFires, QueueTakes
  <2> QED
    BY <1>0, <2>1, ShutdownStaysCloses DEF ShutdownStays, wqVars, Running
<1>5. ASSUME NEW s \in Side, Begin(s) \/ Finish(s)
      PROVE  Closing'
  <2>1. /\ shutdown # "no" => \A p \in Side : side[p] # "active" => side'[p] # "active"
        /\ UNCHANGED <<wqVars, queue, closed, bgState, jobs, shutdown>>
    BY <1>0, <1>5 DEF Begin, Finish
  <2> QED
    BY <1>0, <2>1, ShutdownStaysCloses DEF ShutdownStays, wqVars, Running
<1>6. CASE WorkerChecked
  <2>1. /\ shutdown # "no" => \A p \in Side : side[p] # "active" => side'[p] # "active"
        /\ UNCHANGED <<wqVars, queue, closed, bgState, jobs, shutdown>>
    BY <1>0, <1>6 DEF WorkerChecked, WorkerMayRun
  <2> QED
    BY <1>0, <2>1, ShutdownStaysCloses DEF ShutdownStays, wqVars, Running
<1>7. ASSUME NEW j \in Job, Spawn(j) \/ JobEnds(j)
      PROVE  Closing'
  <2>1. /\ bgState = "closed" /\ Running = {} => Running' = {}
        /\ UNCHANGED <<wqVars, queue, closed, side, bgState, shutdown>>
    <3>1. CASE Spawn(j)
      BY <3>1 DEF Spawn
    <3>2. CASE JobEnds(j)
      BY <1>0, <3>2 DEF JobEnds, Running
    <3> QED
      BY <1>7, <3>1, <3>2
  <2> QED
    BY <1>0, <2>1, ShutdownStaysCloses DEF ShutdownStays, wqVars
<1>8. CASE QueueStep \/ \E i \in Item : Write(i)
  <2>1. /\ UNCHANGED <<stopped, mVars>>
        /\ \A b \in Pause \cup Stop : barrier[b].phase = "done" => barrier'[b].phase = "done"
    <3>1. CASE AdmitHead \/ TimerFires \/ BatchSettles \/ TaskSettles
      BY <1>8, <3>1 DEF AdmitHead, TimerFires, BatchSettles, TaskSettles, QueueStep, Write
    <3>2. ASSUME NEW i \in Item, Write(i)
          PROVE  UNCHANGED <<stopped, barrier, mVars>>
      BY <3>2 DEF Write, Enqueue, Refuses
    <3>3. ASSUME NEW b \in Pause \cup Stop, DrainStep(b)
          PROVE  /\ UNCHANGED stopped
                 /\ \A c \in Pause \cup Stop : barrier[c].phase = "done" => barrier'[c].phase = "done"
      <4>1. /\ stopped' = stopped /\ barrier[b].phase # "done"
            /\ \E x : barrier' = [barrier EXCEPT ![b] = x]
        BY <3>3 DEF DrainStep
      <4> QED
        BY <4>1
    <3> QED
      BY <1>8, <3>1, <3>2, <3>3 DEF QueueStep, Write
  <2> QED
    BY <1>0, <2>1, ShutdownStaysCloses DEF ShutdownStays, mVars, Running
<1>9. CASE StartCleanup \/ StartVacuum \/ StartAutoVacuum
  <2>1. UNCHANGED <<wqVars, queue, closed, side, bgState, jobs, shutdown>>
    BY <1>9, StartVacuumMoves DEF StartCleanup, StartAutoVacuum
  <2> QED
    BY <1>0, <2>1, ShutdownStaysCloses DEF ShutdownStays, wqVars, Running
<1>10. CASE PassStep
  <2>1. /\ PassMoves /\ UNCHANGED <<queue, closed, side, jobs, shutdown>>
        /\ step \in 1..6 => Head(queue) \in Pause
    BY <1>10, PassStepMoves DEF Passing
  <2>2. CASE step = 5 /\ Drain(Head(queue)) /\ UNCHANGED bgState
    <3>1. Head(queue) \in Pause /\ Head(queue) \notin Stop
      BY <2>1, <2>2, Passes
    <3>2. /\ stopped' = stopped
          /\ \A b \in Stop : barrier'[b] = barrier[b]
      BY <2>2, <3>1 DEF Drain
    <3> QED
      BY <1>0, <2>1, <2>2, <3>2, ShutdownStaysCloses DEF ShutdownStays, Running
  <2>3. CASE UNCHANGED wqVars /\ (bgState' = bgState \/ (bgState = "open" /\ bgState' = "paused"))
    BY <1>0, <2>1, <2>3, ShutdownStaysCloses DEF ShutdownStays, wqVars, Running
  <2> QED
    BY <2>1, <2>2, <2>3 DEF PassMoves, PausesSide
<1>11. CASE PassTimeout \/ PassEnds \/ SkipTick
  <2>1. EndPass /\ queue # <<>>
    BY <1>11, EndsAPass
  <2>2. /\ UNCHANGED <<stopped, barrier, closed, side, jobs, shutdown>>
        /\ bgState' = bgState \/ (bgState = "paused" /\ bgState' = "open")
    BY <2>1 DEF EndPass, Reopen
  <2> QED
    BY <1>0, <2>1, <2>2, ShutdownStaysCloses DEF ShutdownStays, Running
<1>12. CASE Dispose
  <2>1. shutdown' = "draining" /\ bgState' = "closed" /\ closed'
    BY <1>12 DEF Dispose
  <2> QED
    BY <2>1 DEF Closing
<1>13. CASE DisposeWrites
  <2>1. /\ shutdown' = "stopping" /\ Stop # {} /\ bgState = "closed" /\ closed
        /\ queue = <<>> /\ Running = {} /\ \A s \in {"worker", "signals"} : side[s] # "active"
        /\ UNCHANGED <<queue, closed, side, bgState, jobs>>
    BY <1>13 DEF DisposeWrites, StoreUsersDone, Closing
  <2> QED
    BY <2>1 DEF Closing, Running
<1>14. CASE CloseStore
  <2>1. /\ shutdown = "stopping" /\ shutdown' = "closed" /\ \A b \in Stop : barrier[b].phase = "done"
        /\ UNCHANGED <<wqVars, queue, closed, side, bgState, jobs>>
    BY <1>14 DEF CloseStore
  <2> QED
    BY <2>1 DEF Closing, Running, wqVars
<1> QED
  BY <1>1, <1>2, <1>3, <1>4, <1>5, <1>6, <1>7, <1>8, <1>9, <1>10, <1>11, <1>12, <1>13, <1>14
  DEF MNext, PassProgress

LEMMA NextMInv == MInv /\ [MNext]_vars => MInv'
<1> SUFFICES ASSUME MInv, [MNext]_vars PROVE MInv'
  OBVIOUS
<1>1. [Next]_wqVars
  BY StepUsesQueue DEF MInv
<1> QED
  BY <1>1, NextTypes, NextDrain, NextMTypes, NextPassing, NextClosing DEF MInv

\* Maintenance uses the write queue in no other way than its module allows: what
\* a pass, a shutdown or a request does to it is one of its own steps.
THEOREM QueueUsed == MSpec => WQInit /\ [][Next]_wqVars
<1>1. Init => WQInit
  BY DEF Init
<1>2. MInv /\ [MNext]_vars => [Next]_wqVars
  BY StepUsesQueue DEF MInv
<1> QED
  BY <1>1, <1>2, InitMInv, NextMInv, PTL DEF MSpec

\* What the write queue promises it promises in a running gateway: it is bounded,
\* its side effects keep their order, and no row is lost for another.
THEOREM QueueKeepsItsPromises ==
  MSpec => [](BacklogBounded /\ TasksInOrder /\ NoCollateralLoss /\ DrainedMeansEmpty)
<1>1. MSpec => WQInit /\ [][Next]_wqVars
  BY QueueUsed
<1>2. Types /\ BacklogBounded /\ [Next]_wqVars => BacklogBounded'
  BY NextBacklog
<1>3. Types /\ OrderInv /\ [Next]_wqVars => OrderInv'
  BY NextOrder
<1>4. Types /\ DrainInv /\ [Next]_wqVars => DrainInv'
  BY NextDrain
<1>5. WQInit /\ [][Next]_wqVars => [](BacklogBounded /\ OrderInv /\ NoCollateralLoss /\ Types /\ DrainInv)
  BY <1>2, <1>3, <1>4, InitTypes, NextTypes, InitBacklog, InitOrder, InitNoLoss, NextNoLoss,
     InitDrain, PTL
<1> QED
  BY <1>1, <1>5, OrderInvMeansInOrder, DrainedIsEmpty, PTL

\* Requests, passes and a shutdown see no more of the write queue than DeferredWrites
\* says: what it accepted it settles, and whoever drained it finds it empty.
THEOREM GatewayDefersWrites == MSpec => ImplementsDeferredWrites
BY QueueUsed, StepsImplement, PTL

\* Every pass that is queued is queued once, the maintenance queue is bounded, and
\* a pass is at one of the seven points of its way.
THEOREM MaintenanceTypeCorrect == MSpec => []TypeOK
<1>1. MInv => TypeOK
  BY TypesAreTypeOK DEF MInv, MTypes, TypeOK
<1> QED
  BY <1>1, InitMInv, NextMInv, PTL DEF MSpec

\* VACUUM has the store to itself: when a pass is at work, no request, lease,
\* worker, scheduler or background task is, and nothing is in the write queue or
\* waits in front of it.
THEOREM VacuumAlwaysAlone == MSpec => []VacuumAlone
<1>1. MInv => VacuumAlone
  <2> SUFFICES ASSUME MInv, step = AtWork, Head(queue) \in Vacuum \cup AutoVacuum
               PROVE  /\ gatePaused /\ active = {}
                      /\ \A s \in Side : side[s] # "active"
                      /\ Running = {}
                      /\ Backlog = {} /\ admission = <<>>
    BY DEF VacuumAlone
  <2>1. step = 7 /\ Head(queue) \in Pause
    BY Passes, ActivitiesInOrder
  <2>2. DrainedSoFar
    BY <2>1 DEF MInv, Passing
  <2>3. /\ gatePaused /\ active = {} /\ Running = {}
        /\ pausedBy = {Head(queue)} /\ barrier[Head(queue)].phase = "done"
        /\ \A s \in Side : side[s] # "active"
    BY <2>1, <2>2 DEF DrainedSoFar, Side
  <2>4. Backlog = {} /\ admission = <<>>
    BY <2>1, <2>3, DrainedIsEmpty DEF MInv, DrainedMeansEmpty
  <2> QED
    BY <2>3, <2>4
<1> QED
  BY <1>1, InitMInv, NextMInv, PTL DEF MSpec

LEMMA EndPassReopens ==
  ASSUME MTypes, Closing, EndPass
  PROVE  NothingLeftPaused'
<1>1. /\ gatePaused' = FALSE /\ sidePaused' = {} /\ shutdown' = shutdown
      /\ bgState' = IF bgState = "paused" THEN "open" ELSE bgState
      /\ pausedBy' = IF stopped THEN pausedBy ELSE {}
  BY DEF EndPass, Reopen
<1>2. shutdown = "no" => ~stopped /\ bgState \in {"open", "paused"}
  BY DEF MTypes, Closing
<1> QED
  BY <1>1, <1>2 DEF NothingLeftPaused

LEMMA NextNothingLeft ==
  ASSUME MInv, NothingLeftPaused, [MNext]_vars
  PROVE  NothingLeftPaused'
<1>0. MTypes /\ Passing /\ Closing
  BY DEF MInv
<1>1. CASE ~PassProgress /\ ~DisposeWrites
  <2>1. UNCHANGED <<step, gatePaused, sidePaused, pausedBy>>
    BY <1>0, <1>1, OthersDisturbNothing DEF Undisturbed
  <2>2. shutdown' = "no" => shutdown = "no" /\ bgState' = bgState
    BY <1>1 DEF MNext, vars, mVars, Enter, Leave, Ask, Begin, Finish, WorkerChecked, Spawn, JobEnds,
       Write, TickFires, QueueStep, Dispose, CloseStore
  <2> QED
    BY <2>1, <2>2 DEF NothingLeftPaused
<1>2. CASE DisposeWrites
  <2>1. shutdown' = "stopping" /\ UNCHANGED <<step, gatePaused>>
    BY <1>2 DEF DisposeWrites
  <2> QED
    BY <2>1 DEF NothingLeftPaused
<1>3. CASE StartCleanup \/ StartVacuum \/ StartAutoVacuum \/ PassStep
  <2>1. step' # 0
    BY <1>0, <1>3, ActivitiesInOrder DEF StartCleanup, StartVacuum, StartAutoVacuum, PassStep
  <2> QED
    BY <2>1 DEF NothingLeftPaused
<1>4. CASE PassTimeout \/ PassEnds \/ SkipTick
  BY <1>0, <1>4, EndsAPass, EndPassReopens
<1> QED
  BY <1>1, <1>2, <1>3, <1>4 DEF PassProgress

\* However a pass ended - done, skipped, timed out, overtaken by a shutdown - the
\* gate is open again; and unless the gateway is being shut down, everything is.
THEOREM NothingEverLeftPaused == MSpec => []NothingLeftPaused
<1>1. Init => NothingLeftPaused
  BY DEF Init, WQInit, NothingLeftPaused
<1>2. MInv /\ NothingLeftPaused /\ [MNext]_vars => NothingLeftPaused'
  BY NextNothingLeft
<1> QED
  BY <1>1, <1>2, InitMInv, NextMInv, PTL DEF MSpec

\* The store is closed when no pass, worker, scheduler or background task can use
\* it any more and the write queue has been written out.
THEOREM StoreAlwaysClosedLast == MSpec => []StoreClosedLast
<1>1. MInv => StoreClosedLast
  <2> SUFFICES ASSUME MInv, shutdown = "closed"
               PROVE  /\ step = 0 /\ queue = <<>> /\ Running = {}
                      /\ Backlog = {} /\ admission = <<>>
                      /\ \A s \in {"worker", "signals"} : side[s] # "active"
    BY DEF StoreClosedLast
  <2>1. /\ queue = <<>> /\ Running = {} /\ \A s \in {"worker", "signals"} : side[s] # "active"
        /\ \E b \in Stop : barrier[b].phase = "done"
    BY DEF MInv, Closing
  <2>2. step = 0
    BY <2>1 DEF MInv, Passing
  <2>3. Backlog = {} /\ admission = <<>>
    BY <2>1, DrainedIsEmpty DEF MInv, DrainedMeansEmpty
  <2> QED
    BY <2>1, <2>2, <2>3
<1> QED
  BY <1>1, InitMInv, NextMInv, PTL DEF MSpec

=============================================================================
