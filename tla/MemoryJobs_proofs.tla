--------------------------- MODULE MemoryJobs_proofs ---------------------------
(***************************************************************************)
(* Proofs about MemoryJobs, for any number of workers, scopes, turns and   *)
(* mishaps: turns are observed once, archived text is in no active         *)
(* reflection, and reflection versions only grow.                          *)
(*                                                                         *)
(* What carries them is the fence.  A worker that has read observations or *)
(* a version may be late, but then it is no longer Current: archiving      *)
(* closes the row of a running reflector, and a claim names a new owner.   *)
(***************************************************************************)
EXTENDS MemoryJobs, TLAPS

\* A worker's phase goes with its job, and what it has read of the thread is there.
Work ==
  \A w \in Worker :
    /\ worker[w].phase # "free" => worker[w].job \in JobKey
    /\ worker[w].phase \in {"mining", "mined", "summarizing", "promoting"} => worker[w].job \in Scope
    /\ worker[w].phase \in {"merging", "publishing"} => worker[w].job = "reflector"
    /\ worker[w].phase = "swept" => worker[w].job = "decay"
    /\ worker[w].phase \in {"mining", "summarizing"} =>
         worker[w].from <= worker[w].upto /\ worker[w].upto <= recorded
    /\ worker[w].phase = "summarizing" => worker[w].from < worker[w].upto

\* What a reflector under a claim in force has read is still so.
Fence ==
  \A w \in Worker :
    Current(w) =>
      /\ worker[w].phase \in {"merging", "publishing"} => worker[w].text \cap ToText(archived) = {}
      /\ worker[w].phase = "publishing" => worker[w].version > reflection.version

IInv == TypeOK /\ Work /\ ObservedOnce /\ NoResurrection /\ Fence

-----------------------------------------------------------------------------
\* The smaller of two numbers is one of them and not above the other.
LEMMA MinOfTwo ==
  ASSUME NEW a \in Nat, NEW b \in Nat
  PROVE  Min({a, b}) \in {a, b} /\ Min({a, b}) <= a /\ Min({a, b}) <= b
<1>1. CASE a <= b
  <2>1. \E x \in {a, b} : \A y \in {a, b} : x <= y
    BY <1>1
  <2> QED
    BY <2>1 DEF Min
<1>2. CASE b <= a
  <2>1. \E x \in {a, b} : \A y \in {a, b} : x <= y
    BY <1>2
  <2> QED
    BY <2>1 DEF Min
<1> QED
  BY <1>1, <1>2

\* The table of open rows is well formed.
Rows(rows) ==
  /\ rows \in [JobKey -> [status : {"closed", "pending", "running"}, by : Worker \cup {Nobody},
                          lapsed : BOOLEAN]]
  /\ \A k \in JobKey : rows[k].status = "running" <=> rows[k].by # Nobody

\* Enqueueing, closing and rebuilding keep it so, and put nobody in charge.
LEMMA EnqueuedRows ==
  ASSUME NEW key \in JobKey, NEW rows, Rows(rows)
  PROVE  /\ Rows(Enqueued(key, rows))
         /\ \A k \in JobKey : /\ Enqueued(key, rows)[k] = rows[k] \/ Enqueued(key, rows)[k] = Pending
                              /\ Enqueued(key, rows)[k].by \in {rows[k].by, Nobody}
                              /\ k # key => Enqueued(key, rows)[k] = rows[k]
<1>1. Pending \in [status : {"pending"}, by : {Nobody}, lapsed : BOOLEAN]
  BY DEF Pending, Closed
<1> QED
  BY <1>1, MemoryJobsAssumption DEF Rows, Enqueued

LEMMA ClosedRows ==
  ASSUME NEW key \in JobKey, NEW rows, Rows(rows)
  PROVE  Rows([rows EXCEPT ![key] = Closed]) /\ Rows([rows EXCEPT ![key] = Pending])
<1>1. Pending \in [status : {"pending"}, by : {Nobody}, lapsed : BOOLEAN]
  BY DEF Pending, Closed
<1> QED
  BY <1>1, MemoryJobsAssumption DEF Rows, Closed

LEMMA RebuildRows ==
  ASSUME NEW rows, Rows(rows)
  PROVE  /\ Rows(Rebuild(rows))
         /\ Rebuild(rows)["reflector"].status # "running"
         /\ \A k \in JobKey \ {"reflector"} : Rebuild(rows)[k] = rows[k]
<1>1. "reflector" \in JobKey
  BY DEF JobKey
<1> DEFINE mid == IF rows["reflector"].status = "running"
                  THEN [rows EXCEPT !["reflector"] = Closed] ELSE rows
<1>2. Rows(mid)
  BY <1>1, ClosedRows
<1>3. mid["reflector"].status # "running" /\ \A k \in JobKey \ {"reflector"} : mid[k] = rows[k]
  BY <1>1 DEF Rows, Closed
<1>4. Pending.status = "pending"
  BY DEF Pending, Closed
<1>5. Rebuild(rows) = Enqueued("reflector", mid)
  BY DEF Rebuild
<1> HIDE DEF mid
<1>6. \A k \in JobKey : Enqueued("reflector", mid)[k] = mid[k] \/ Enqueued("reflector", mid)[k] = Pending
  BY <1>1, <1>2, EnqueuedRows
<1>7. Rows(Enqueued("reflector", mid)) /\ \A k \in JobKey \ {"reflector"} : Enqueued("reflector", mid)[k] = mid[k]
  BY <1>1, <1>2, EnqueuedRows
<1> QED
  BY <1>1, <1>3, <1>4, <1>5, <1>6, <1>7

\* What Close does to the table.
LEMMA CloseRows ==
  ASSUME NEW w \in Worker, worker[w].job \in JobKey, Rows(row), Close(w)
  PROVE  /\ Rows(row')
         /\ row' = row \/ row' = [row EXCEPT ![worker[w].job] = Closed]
  BY ClosedRows DEF Close

-----------------------------------------------------------------------------
WorkerRecord ==
  [phase : {"free", "claimed", "mining", "mined", "summarizing", "promoting",
            "merging", "publishing", "swept"},
   job : JobKey \cup {Nobody}, from : 0..Turns, upto : 0..Turns, more : BOOLEAN,
   text : SUBSET (1..Turns), version : Nat]

\* The types, named apart: the thread, its observations, the jobs, the workers.
ThreadTypes ==
  /\ recorded \in 0..Turns /\ unasked \subseteq 1..recorded /\ mined \subseteq 1..recorded
  /\ quiet \in BOOLEAN /\ frontier \in 0..recorded
  /\ observed \subseteq TurnRange /\ archived \subseteq observed
  /\ reflection \in [text : SUBSET (1..Turns), version : Nat, active : BOOLEAN]
  /\ mishaps \in 0..MaxMishaps

Workers == worker \in [Worker -> WorkerRecord]

LEMMA TypesApart == TypeOK <=> ThreadTypes /\ Rows(row) /\ Workers
  BY DEF TypeOK, ThreadTypes, Rows, Workers, WorkerRecord

LEMMA FreeIsWorker == Free \in WorkerRecord /\ Free.phase = "free"
<1>1. Turns \in Nat /\ 0 \in 0..Turns
  BY MemoryJobsAssumption
<1> QED
  BY <1>1 DEF Free, WorkerRecord

\* The first turns of observations are turns.
LEMMA TextTurns == ASSUME observed \subseteq TurnRange PROVE ToText(Active) \subseteq 1..Turns
  BY DEF ToText, Active, TurnRange

LEMMA TypeInit == Init => TypeOK
<1> SUFFICES ASSUME Init PROVE ThreadTypes /\ Rows(row) /\ Workers
  BY TypesApart
<1>1. Turns \in Nat /\ 0 \in 0..Turns /\ 0 \in 0..MaxMishaps
  BY MemoryJobsAssumption
<1>2. reflection \in [text : SUBSET (1..Turns), version : Nat, active : BOOLEAN] /\ mishaps \in 0..MaxMishaps
  BY <1>1 DEF Init
<1>3. recorded = 0 /\ frontier = 0 /\ unasked = {} /\ mined = {} /\ observed = {} /\ archived = {} /\ quiet = FALSE
  BY DEF Init
<1>4. ThreadTypes
  <2>1. 0 \in 0..0
    OBVIOUS
  <2>2. recorded \in 0..Turns /\ frontier \in 0..recorded
    BY <2>1, <1>1, <1>3
  <2> QED
    BY <2>2, <1>2, <1>3 DEF ThreadTypes
<1>5. Rows(row)
  BY MemoryJobsAssumption DEF Init, Rows, Closed
<1>6. Workers
  BY FreeIsWorker DEF Init, Workers
<1> QED
  BY <1>4, <1>5, <1>6

\* Requests, ticks and the clock.
LEMMA TypeOutside ==
  ASSUME TypeOK,
         \/ ObserveInbound \/ GoQuiet \/ IdleSweep \/ DecayTick
         \/ \E t \in 1..Turns : ObserveOutbound(t)
         \/ \E k \in JobKey : LeaseLapses(k)
  PROVE  TypeOK'
<1> USE MemoryJobsAssumption
<1>0. ThreadTypes /\ Rows(row) /\ Workers
  BY TypesApart
<1> SUFFICES ThreadTypes' /\ Rows(row)' /\ Workers'
  <2>1. (TypeOK <=> ThreadTypes /\ Rows(row) /\ Workers)'
    BY TypesApart, PTL
  <2> QED
    BY <2>1
<1>1. CASE ObserveInbound
  <2>1. recorded \in Nat /\ frontier \in Nat /\ recorded + 1 \in 0..Turns
    BY <1>0, <1>1 DEF ObserveInbound, ThreadTypes
  <2>2. 1..recorded \subseteq 1..recorded + 1 /\ 0..recorded \subseteq 0..recorded + 1
    BY <2>1
  <2>3. recorded + 1 \in 1..recorded + 1
    BY <2>1
  <2>4. ThreadTypes'
    BY <2>1, <2>2, <2>3, <1>0, <1>1 DEF ObserveInbound, ThreadTypes
  <2> QED
    BY <2>4, <1>0, <1>1 DEF ObserveInbound, Rows, Workers
<1>2. CASE GoQuiet
  BY <1>0, <1>2 DEF GoQuiet, ThreadTypes, Rows, Workers
<1>3. CASE IdleSweep
  BY <1>0, <1>3, EnqueuedRows DEF IdleSweep, ThreadTypes, Workers, JobKey
<1>4. CASE DecayTick
  BY <1>0, <1>4, EnqueuedRows DEF DecayTick, ThreadTypes, Workers, JobKey
<1>5. ASSUME NEW t \in 1..Turns, ObserveOutbound(t)
      PROVE  ThreadTypes' /\ Rows(row)' /\ Workers'
  <2>1. Rows(row)'
    BY <1>0, <1>5, EnqueuedRows DEF ObserveOutbound, JobKey
  <2> QED
    BY <2>1, <1>0, <1>5 DEF ObserveOutbound, ThreadTypes, Workers, Mishap
<1>6. ASSUME NEW k \in JobKey, LeaseLapses(k)
      PROVE  ThreadTypes' /\ Rows(row)' /\ Workers'
  <2>0. row' = [row EXCEPT ![k] = [row[k] EXCEPT !.lapsed = TRUE]]
    BY <1>0, <1>6 DEF LeaseLapses, Rows
  <2>2. [row[k] EXCEPT !.lapsed = TRUE] \in [status : {"closed", "pending", "running"}, by : Worker \cup {Nobody},
                          lapsed : BOOLEAN]
    BY <1>0 DEF Rows
  <2>3. [row[k] EXCEPT !.lapsed = TRUE].status = row[k].status /\ [row[k] EXCEPT !.lapsed = TRUE].by = row[k].by
    BY <1>0 DEF Rows
  <2>1. Rows(row)'
    BY <2>0, <2>2, <2>3, <1>0 DEF Rows
  <2> QED
    BY <2>1, <1>0, <1>6 DEF LeaseLapses, ThreadTypes, Workers, Mishap
<1> QED
  BY <1>1, <1>2, <1>3, <1>4, <1>5, <1>6

\* A worker that rests or goes on is still a worker.
LEMMA WorkerMoves ==
  ASSUME Workers, NEW w \in Worker
  PROVE  /\ Rest(w) => Workers'
         /\ \A phase \in {"mined", "promoting", "swept"} : Goto(w, phase) => Workers'
<1>1. Rest(w) => Workers'
  BY FreeIsWorker DEF Rest, Workers
<1>2. ASSUME NEW phase \in {"mined", "promoting", "swept"}, Goto(w, phase)
      PROVE  Workers'
  <2>1. worker' = [worker EXCEPT ![w] = [worker[w] EXCEPT !.phase = phase]]
    BY <1>2 DEF Goto, Workers
  <2>2. [worker[w] EXCEPT !.phase = phase] \in WorkerRecord
    BY DEF Workers, WorkerRecord
  <2> QED
    BY <2>1, <2>2 DEF Workers
<1> QED
  BY <1>1, <1>2

\* Claims, failures and the steps of jobs.
LEMMA TypeJobs ==
  ASSUME TypeOK, Work, NEW w \in Worker,
         \/ \E k \in JobKey : ClaimPendingJobs(w, k)
         \/ Step(w) \/ JobFails(w) \/ Crash(w)
  PROVE  TypeOK'
<1> USE MemoryJobsAssumption
<1>0. ThreadTypes /\ Rows(row) /\ Workers
  BY TypesApart
<1> SUFFICES ThreadTypes' /\ Rows(row)' /\ Workers'
  <2>1. (TypeOK <=> ThreadTypes /\ Rows(row) /\ Workers)'
    BY TypesApart, PTL
  <2> QED
    BY <2>1
<1>1. worker[w] \in WorkerRecord /\ (worker[w].phase # "free" => worker[w].job \in JobKey)
  BY <1>0 DEF Workers, Work
<1>2. ASSUME NEW k \in JobKey, ClaimPendingJobs(w, k)
      PROVE  ThreadTypes' /\ Rows(row)' /\ Workers'
  <2>1. Rows(row)'
    BY <1>0, <1>2 DEF ClaimPendingJobs, Rows
  <2>2. [Free EXCEPT !.phase = "claimed", !.job = k] \in WorkerRecord
    BY FreeIsWorker DEF WorkerRecord
  <2> QED
    BY <2>1, <2>2, <1>0, <1>2 DEF ClaimPendingJobs, ThreadTypes, Workers
<1>3. CASE JobFails(w)
  <2>1. Rows(row)'
    BY <1>0, <1>1, <1>3, CloseRows DEF JobFails
  <2> QED
    BY <2>1, <1>0, <1>3, WorkerMoves DEF JobFails, ThreadTypes, Mishap
<1>4. CASE Crash(w)
  BY <1>0, <1>4, WorkerMoves DEF Crash, ThreadTypes, Rows, Mishap
<1>5. CASE ReadPage(w)
  <2> DEFINE page == Min({recorded, frontier + PageSize})
  <2>1. recorded \in Nat /\ frontier \in Nat /\ recorded <= Turns /\ frontier <= recorded /\ PageSize \in Nat \ {0}
    BY <1>0 DEF ThreadTypes
  <2>2. page \in {recorded, frontier + PageSize} /\ page <= recorded /\ page <= frontier + PageSize
    BY <2>1, MinOfTwo
  <2>3. page \in 0..Turns /\ \A last \in frontier + 1 .. page : last \in 0..Turns
    BY <2>1, <2>2
  <2> HIDE DEF page
  <2>4. PICK phase \in {"mining", "summarizing"}, last \in 0..Turns, more \in BOOLEAN :
          worker' = [worker EXCEPT ![w].phase = phase, ![w].from = frontier, ![w].upto = last,
                                   ![w].more = more]
    BY <1>5, <2>3 DEF ReadPage, page
  <2>5. worker' = [worker EXCEPT ![w] = [worker[w] EXCEPT !.phase = phase, !.from = frontier,
                                                          !.upto = last, !.more = more]]
    BY <2>4, <1>0 DEF Workers
  <2>6. [worker[w] EXCEPT !.phase = phase, !.from = frontier, !.upto = last, !.more = more] \in WorkerRecord
    <3>1. frontier \in 0..Turns
      BY <2>1
    <3> QED
      BY <3>1, <1>1 DEF WorkerRecord
  <2> QED
    BY <2>5, <2>6, <1>0, <1>5 DEF ReadPage, ThreadTypes, Rows, Workers
<1>6. CASE MineFacts(w)
  <2>1. worker[w].from + 1 .. worker[w].upto \subseteq 1..recorded
    BY <1>0, <1>1, <1>6 DEF MineFacts, Work, WorkerRecord, ThreadTypes
  <2> QED
    BY <2>1, <1>0, <1>6, WorkerMoves DEF MineFacts, ThreadTypes, Rows
<1>7. CASE FinishMining(w)
  <2>1. Rows(row)'
    BY <1>0, <1>1, <1>7, CloseRows DEF FinishMining
  <2> QED
    BY <2>1, <1>0, <1>7, WorkerMoves DEF FinishMining, ThreadTypes
<1>8. CASE CommitObserverPage(w)
  <2>1. worker[w].job \in JobKey
    BY <1>1, <1>8 DEF CommitObserverPage
  <2>2. Rows(row)'
    <3>1. \/ row' = row
          \/ row' = [row EXCEPT ![worker[w].job] = Pending]
          \/ row' = [row EXCEPT ![worker[w].job] = Closed]
      BY <1>8 DEF CommitObserverPage
    <3>2. Rows([row EXCEPT ![worker[w].job] = Pending]) /\ Rows([row EXCEPT ![worker[w].job] = Closed])
      BY <2>1, <1>0, ClosedRows
    <3> QED
      BY <3>1, <3>2, <1>0
  <2>3. Workers'
    BY <1>0, <1>8, WorkerMoves DEF CommitObserverPage
  <2>4. CASE Current(w) /\ FrontierAsExpected(w)
    <3>1. worker[w].from \in Nat /\ worker[w].upto \in Nat /\ worker[w].upto <= Turns
          /\ worker[w].from < worker[w].upto /\ worker[w].upto <= recorded
      BY <1>1, <1>8 DEF CommitObserverPage, WorkerRecord, Work
    <3>2. <<worker[w].from + 1, worker[w].upto>> \in TurnRange
      BY <3>1 DEF TurnRange
    <3>3. worker[w].upto \in 0..recorded
      BY <3>1, <1>0 DEF ThreadTypes
    <3> QED
      BY <3>2, <3>3, <2>2, <2>3, <2>4, <1>0, <1>8 DEF CommitObserverPage, ThreadTypes
  <2>5. CASE ~(Current(w) /\ FrontierAsExpected(w))
    BY <2>2, <2>3, <2>5, <1>0, <1>8 DEF CommitObserverPage, ThreadTypes
  <2> QED
    BY <2>4, <2>5
<1>9. CASE Promote(w)
  <2>1. Rows(row)'
    BY <1>0, <1>9, EnqueuedRows DEF Promote, JobKey
  <2> QED
    BY <2>1, <1>0, <1>9, WorkerMoves DEF Promote, ThreadTypes
<1>10. CASE ReadObservations(w)
  <2>1. ToText(Active) \subseteq 1..Turns
    BY <1>0, TextTurns DEF ThreadTypes
  <2>2. worker' = [worker EXCEPT ![w] = [worker[w] EXCEPT !.phase = "merging", !.text = ToText(Active)]]
    BY <1>0, <1>10 DEF ReadObservations, Workers
  <2>3. [worker[w] EXCEPT !.phase = "merging", !.text = ToText(Active)] \in WorkerRecord
    BY <2>1, <1>1 DEF WorkerRecord
  <2> QED
    BY <2>2, <2>3, <1>0, <1>10 DEF ReadObservations, ThreadTypes, Rows, Workers
<1>11. CASE Merged(w)
  <2>1. worker' = [worker EXCEPT ![w] = [worker[w] EXCEPT !.phase = "publishing", !.version = HighWater + 1]]
    BY <1>0, <1>11 DEF Merged, Workers
  <2>2. HighWater + 1 \in Nat
    BY <1>0 DEF HighWater, ThreadTypes
  <2>3. [worker[w] EXCEPT !.phase = "publishing", !.version = HighWater + 1] \in WorkerRecord
    BY <2>2, <1>1 DEF WorkerRecord
  <2> QED
    BY <2>1, <2>3, <1>0, <1>11 DEF Merged, ThreadTypes, Rows, Workers
<1>12. CASE CommitReflectionJob(w)
  <2>1. Rows(row)'
    BY <1>0, <1>1, <1>12, CloseRows DEF CommitReflectionJob
  <2>2. reflection' \in [text : SUBSET (1..Turns), version : Nat, active : BOOLEAN]
    <3>1. reflection \in [text : SUBSET (1..Turns), version : Nat, active : BOOLEAN]
      BY <1>0 DEF ThreadTypes
    <3>2. [reflection EXCEPT !.active = FALSE] \in [text : SUBSET (1..Turns), version : Nat, active : BOOLEAN]
      BY <3>1
    <3>3. [text |-> worker[w].text, version |-> worker[w].version, active |-> TRUE]
            \in [text : SUBSET (1..Turns), version : Nat, active : BOOLEAN]
      BY <1>1 DEF WorkerRecord
    <3> QED
      BY <3>1, <3>2, <3>3, <1>12 DEF CommitReflectionJob
  <2> QED
    BY <2>1, <2>2, <1>0, <1>12, WorkerMoves DEF CommitReflectionJob, ThreadTypes
<1>13. CASE ArchiveObservations(w)
  <2>1. Rows(row)'
    BY <1>0, <1>13, RebuildRows DEF ArchiveObservations
  <2>2. [reflection EXCEPT !.active = FALSE] \in [text : SUBSET (1..Turns), version : Nat, active : BOOLEAN]
    BY <1>0 DEF ThreadTypes
  <2>3. archived' \subseteq observed /\ reflection' \in {reflection, [reflection EXCEPT !.active = FALSE]}
    BY <1>0, <1>13 DEF ArchiveObservations, ThreadTypes, Active
  <2> QED
    BY <2>1, <2>2, <2>3, <1>0, <1>13, WorkerMoves DEF ArchiveObservations, ThreadTypes
<1>14. CASE FinishSweep(w)
  <2>1. Rows(row)'
    BY <1>0, <1>1, <1>14, CloseRows DEF FinishSweep
  <2> QED
    BY <2>1, <1>0, <1>14, WorkerMoves DEF FinishSweep, ThreadTypes
<1> QED
  BY <1>2, <1>3, <1>4, <1>5, <1>6, <1>7, <1>8, <1>9, <1>10, <1>11, <1>12, <1>13, <1>14 DEF Step

-----------------------------------------------------------------------------
\* Work, said of one worker's record.
Fits(rec) ==
  /\ rec.phase # "free" => rec.job \in JobKey
  /\ rec.phase \in {"mining", "mined", "summarizing", "promoting"} => rec.job \in Scope
  /\ rec.phase \in {"merging", "publishing"} => rec.job = "reflector"
  /\ rec.phase = "swept" => rec.job = "decay"
  /\ rec.phase \in {"mining", "summarizing"} => rec.from <= rec.upto /\ rec.upto <= recorded
  /\ rec.phase = "summarizing" => rec.from < rec.upto

LEMMA WorkFits == Work <=> \A w \in Worker : Fits(worker[w])
  BY DEF Work, Fits

\* The turns recorded do not go away, and only the worker that acts changes.
LEMMA OnlyOneMoves ==
  ASSUME Work, Workers, NEW w \in Worker, NEW rec,
         worker' = [worker EXCEPT ![w] = rec], UNCHANGED recorded, Fits(rec)
  PROVE  Work'
<1>1. \A v \in Worker : Fits(worker[v])
  BY WorkFits
<1>2. \A v \in Worker : worker'[v] = IF v = w THEN rec ELSE worker[v]
  BY DEF Workers
<1> QED
  BY <1>1, <1>2 DEF Work, Fits

LEMMA WorkInit == Init => Work
  BY FreeIsWorker DEF Init, Work, Free

LEMMA WorkStep == TypeOK /\ Work /\ [Next]_vars => Work'
<1> SUFFICES ASSUME TypeOK, Work, [Next]_vars PROVE Work'
  OBVIOUS
<1> USE MemoryJobsAssumption
<1>0. ThreadTypes /\ Rows(row) /\ Workers /\ \A w \in Worker : Fits(worker[w])
  BY TypesApart, WorkFits
<1>1. ASSUME UNCHANGED worker, recorded' \in {recorded, recorded + 1}
      PROVE  Work'
  <2>1. recorded \in Nat /\ \A w \in Worker : worker[w].upto \in Nat
    BY <1>0 DEF ThreadTypes, Workers, WorkerRecord
  <2> QED
    BY <2>1, <1>1, <1>0 DEF Work, Fits
<1>2. ASSUME \/ ObserveInbound \/ GoQuiet \/ IdleSweep \/ DecayTick \/ UNCHANGED vars
             \/ \E t \in 1..Turns : ObserveOutbound(t)
             \/ \E k \in JobKey : LeaseLapses(k)
      PROVE  Work'
  BY <1>1, <1>2 DEF ObserveInbound, GoQuiet, IdleSweep, DecayTick, ObserveOutbound, LeaseLapses, vars
<1>3. ASSUME NEW w \in Worker, NEW k \in JobKey, ClaimPendingJobs(w, k)
      PROVE  Work'
  <2>1. Fits([Free EXCEPT !.phase = "claimed", !.job = k])
    BY DEF Fits, Free
  <2> QED
    BY <2>1, <1>0, <1>3, OnlyOneMoves DEF ClaimPendingJobs
<1>4. ASSUME NEW w \in Worker, Rest(w), UNCHANGED recorded
      PROVE  Work'
  <2>1. Fits(Free)
    BY DEF Fits, Free
  <2> QED
    BY <2>1, <1>0, <1>4, OnlyOneMoves DEF Rest
<1>5. ASSUME NEW w \in Worker, NEW phase \in {"mined", "promoting", "swept"}, Goto(w, phase),
             phase \in {"mined", "promoting"} => worker[w].job \in Scope,
             phase = "swept" => worker[w].job = "decay", UNCHANGED recorded
      PROVE  Work'
  <2>1. worker' = [worker EXCEPT ![w] = [worker[w] EXCEPT !.phase = phase]]
    BY <1>5, <1>0 DEF Goto, Workers
  <2>2. [worker[w] EXCEPT !.phase = phase].phase = phase /\ [worker[w] EXCEPT !.phase = phase].job = worker[w].job
    BY <1>0 DEF Workers, WorkerRecord
  <2>3. Fits([worker[w] EXCEPT !.phase = phase])
    BY <2>2, <1>5 DEF Fits, JobKey
  <2> QED
    BY <2>1, <2>3, <1>0, <1>5, OnlyOneMoves
<1>6. ASSUME NEW w \in Worker, JobFails(w) \/ Crash(w) \/ Step(w)
      PROVE  Work'
  <2>1. CASE JobFails(w)
    BY <2>1, <1>4 DEF JobFails
  <2>2. CASE Crash(w)
    BY <2>2, <1>4 DEF Crash
  <2>3. CASE ReadPage(w)
    <3> DEFINE page == Min({recorded, frontier + PageSize})
    <3>1. recorded \in Nat /\ frontier \in Nat /\ frontier <= recorded /\ PageSize \in Nat \ {0}
      BY <1>0 DEF ThreadTypes
    <3>2. page \in {recorded, frontier + PageSize} /\ page <= recorded
      BY <3>1, MinOfTwo
    <3>3. page \in Nat /\ frontier <= page
      BY <3>1, <3>2
    <3> HIDE DEF page
    <3> DEFINE R(phase, last, more) ==
          worker' = [worker EXCEPT ![w].phase = phase, ![w].from = frontier, ![w].upto = last,
                                   ![w].more = more]
    <3>4. PICK phase \in {"mining", "summarizing"}, last \in frontier .. page, more \in BOOLEAN :
            R(phase, last, more) /\ (phase = "summarizing" => frontier < last)
      <4>1. \/ R("summarizing", page, page < recorded \/ page < page) /\ page > frontier
            \/ R("mining", page, page < recorded \/ page < page)
            \/ \E last \in frontier + 1 .. page : R("summarizing", last, page < recorded \/ last < page)
        BY <2>3 DEF ReadPage, page
      <4>2. page \in frontier .. page /\ \A last \in frontier + 1 .. page : last \in frontier .. page /\ frontier < last
        BY <3>1, <3>3
      <4> HIDE DEF R
      <4> QED
        BY <4>1, <4>2
    <3> DEFINE rec == [worker[w] EXCEPT !.phase = phase, !.from = frontier, !.upto = last, !.more = more]
    <3>5. worker' = [worker EXCEPT ![w] = rec]
      BY <3>4, <1>0 DEF Workers
    <3>6. rec.phase = phase /\ rec.job = worker[w].job /\ rec.from = frontier /\ rec.upto = last
      BY <1>0 DEF Workers, WorkerRecord
    <3> HIDE DEF rec
    <3>7. frontier <= last /\ last <= recorded /\ worker[w].job \in JobKey /\ worker[w].job \in Scope
      <4>1. worker[w].job \in Scope
        BY <2>3 DEF ReadPage
      <4>2. frontier <= last /\ last <= recorded
        BY <3>1, <3>2, <3>3, <3>4
      <4> QED
        BY <4>1, <4>2 DEF JobKey
    <3>8. Fits(rec)
      BY <3>4, <3>6, <3>7 DEF Fits
    <3> QED
      BY <3>5, <3>8, <1>0, <2>3, OnlyOneMoves DEF ReadPage
  <2>4. CASE MineFacts(w)
    BY <2>4, <1>0, <1>5 DEF MineFacts, Fits
  <2>5. CASE FinishMining(w)
    BY <2>5, <1>4 DEF FinishMining
  <2>6. CASE CommitObserverPage(w)
    BY <2>6, <1>0, <1>4, <1>5 DEF CommitObserverPage, Fits
  <2>7. CASE Promote(w)
    BY <2>7, <1>4 DEF Promote
  <2>8. CASE ReadObservations(w)
    <3> DEFINE rec == [worker[w] EXCEPT !.phase = "merging", !.text = ToText(Active)]
    <3>1. worker' = [worker EXCEPT ![w] = rec]
      BY <2>8, <1>0 DEF ReadObservations, Workers
    <3>2. rec.phase = "merging" /\ rec.job = "reflector"
      BY <2>8, <1>0 DEF ReadObservations, Workers, WorkerRecord
    <3> HIDE DEF rec
    <3>3. Fits(rec)
      BY <3>2 DEF Fits, JobKey
    <3> QED
      BY <3>1, <3>3, <1>0, <2>8, OnlyOneMoves DEF ReadObservations
  <2>9. CASE Merged(w)
    <3> DEFINE rec == [worker[w] EXCEPT !.phase = "publishing", !.version = HighWater + 1]
    <3>1. worker' = [worker EXCEPT ![w] = rec]
      BY <2>9, <1>0 DEF Merged, Workers
    <3>2. rec.phase = "publishing" /\ rec.job = "reflector"
      BY <2>9, <1>0 DEF Merged, Workers, WorkerRecord, Fits
    <3> HIDE DEF rec
    <3>3. Fits(rec)
      BY <3>2 DEF Fits, JobKey
    <3> QED
      BY <3>1, <3>3, <1>0, <2>9, OnlyOneMoves DEF Merged
  <2>10. CASE CommitReflectionJob(w)
    BY <2>10, <1>4 DEF CommitReflectionJob
  <2>11. CASE ArchiveObservations(w)
    BY <2>11, <1>5 DEF ArchiveObservations
  <2>12. CASE FinishSweep(w)
    BY <2>12, <1>4 DEF FinishSweep
  <2> QED
    BY <1>6, <2>1, <2>2, <2>3, <2>4, <2>5, <2>6, <2>7, <2>8, <2>9, <2>10, <2>11, <2>12 DEF Step
<1> QED
  BY <1>2, <1>3, <1>6 DEF Next

-----------------------------------------------------------------------------
\* The two halves of ObservedOnce, of any set of observations.
Covers(obs, front) == UNION {o[1]..o[2] : o \in obs} = 1..front
Apart(obs) == \A o, p \in obs : o # p => (o[1]..o[2]) \cap (p[1]..p[2]) = {}

\* A new observation covers the turns after the frontier, up to a new one.
LEMMA ObservedExtended ==
  ASSUME NEW obs, NEW front \in Nat, NEW upto \in Nat, front < upto,
         Covers(obs, front), Apart(obs), NEW new, new = obs \cup {<<front + 1, upto>>}
  PROVE  Covers(new, upto) /\ Apart(new)
<1> USE DEF Covers, Apart
<1> DEFINE last == <<front + 1, upto>>
<1>1. last[1] = front + 1 /\ last[2] = upto
  OBVIOUS
<1>2. \A o \in obs : o[1]..o[2] \subseteq 1..front
  OBVIOUS
<1>3. (front + 1 .. upto) \cap (1..front) = {} /\ (front + 1 .. upto) \cup (1..front) = 1..upto
  OBVIOUS
<1> HIDE DEF last
<1>4. \A t : t \in UNION {o[1]..o[2] : o \in new}
              <=> t \in UNION {o[1]..o[2] : o \in obs} \/ t \in last[1]..last[2]
  <2>1. new = obs \cup {last}
    BY DEF last
  <2>2. \A t : t \in UNION {o[1]..o[2] : o \in new} <=> \E o \in new : t \in o[1]..o[2]
    OBVIOUS
  <2>3. \A t : t \in UNION {o[1]..o[2] : o \in obs} <=> \E o \in obs : t \in o[1]..o[2]
    OBVIOUS
  <2>4. \A t : (\E o \in new : t \in o[1]..o[2])
                <=> (\E o \in obs : t \in o[1]..o[2]) \/ t \in last[1]..last[2]
    BY <2>1
  <2> QED
    BY <2>2, <2>3, <2>4
<1>5. UNION {o[1]..o[2] : o \in new} = 1..upto
  <2>1. \A t : t \in 1..upto <=> t \in 1..front \/ t \in last[1]..last[2]
    BY <1>1, <1>3
  <2> DEFINE now == UNION {o[1]..o[2] : o \in new}
             was == UNION {o[1]..o[2] : o \in obs}
  <2>2. was = 1..front /\ \A t : t \in now <=> t \in was \/ t \in last[1]..last[2]
    BY <1>4
  <2> HIDE DEF now, was
  <2>3. now = 1..upto
    BY <2>1, <2>2
  <2> QED
    BY <2>3 DEF now
<1>6. ASSUME NEW o \in new, NEW p \in new, o # p PROVE (o[1]..o[2]) \cap (p[1]..p[2]) = {}
  <2>1. CASE o \in obs /\ p \in obs
    BY <1>6, <2>1
  <2>2. CASE o \in obs /\ p = last
    BY <1>1, <1>2, <1>3, <2>2
  <2>3. CASE o = last /\ p \in obs
    BY <1>1, <1>2, <1>3, <2>3
  <2> QED
    BY <1>6, <2>1, <2>2, <2>3 DEF last
<1> QED
  BY <1>5, <1>6

LEMMA ObservedStep == TypeOK /\ Work /\ ObservedOnce /\ [Next]_vars => ObservedOnce'
<1> SUFFICES ASSUME TypeOK, Work, ObservedOnce, [Next]_vars PROVE ObservedOnce'
  OBVIOUS
<1>0. ThreadTypes /\ Workers
  BY TypesApart
<1>1. ASSUME UNCHANGED <<observed, frontier>> PROVE ObservedOnce'
  BY <1>1 DEF ObservedOnce
<1>2. ASSUME NEW w \in Worker, CommitObserverPage(w) PROVE ObservedOnce'
  <2>1. CASE Current(w) /\ FrontierAsExpected(w)
    <3>1. frontier \in Nat /\ worker[w].upto \in Nat /\ frontier < worker[w].upto /\ worker[w].from = frontier
      BY <1>0, <1>2, <2>1, MemoryJobsAssumption
      DEF CommitObserverPage, FrontierAsExpected, Work, Workers, WorkerRecord, ThreadTypes
    <3>2. observed' = observed \cup {<<frontier + 1, worker[w].upto>>} /\ frontier' = worker[w].upto
      BY <1>2, <2>1, <3>1 DEF CommitObserverPage
    <3>3. Covers(observed, frontier) /\ Apart(observed)
      BY DEF ObservedOnce, Covers, Apart
    <3>4. Covers(observed', worker[w].upto) /\ Apart(observed')
      BY <3>1, <3>2, <3>3, ObservedExtended
    <3> QED
      BY <3>2, <3>4 DEF ObservedOnce, Covers, Apart
  <2>2. CASE ~(Current(w) /\ FrontierAsExpected(w))
    BY <1>1, <1>2, <2>2 DEF CommitObserverPage
  <2> QED
    BY <2>1, <2>2
<1>3. ASSUME NEW w \in Worker, Step(w) PROVE ObservedOnce'
  BY <1>1, <1>2, <1>3
  DEF Step, ReadPage, MineFacts, FinishMining, Promote, ReadObservations, Merged,
      CommitReflectionJob, ArchiveObservations, FinishSweep
<1>4. ASSUME \/ ObserveInbound \/ GoQuiet \/ IdleSweep \/ DecayTick \/ UNCHANGED vars
             \/ \E t \in 1..Turns : ObserveOutbound(t)
             \/ \E k \in JobKey : LeaseLapses(k) \/ \E w \in Worker : ClaimPendingJobs(w, k)
             \/ \E w \in Worker : JobFails(w) \/ Crash(w)
      PROVE  ObservedOnce'
  BY <1>1, <1>4
  DEF ObserveInbound, GoQuiet, IdleSweep, DecayTick, ObserveOutbound, LeaseLapses,
      ClaimPendingJobs, JobFails, Crash, vars
<1> QED
  BY <1>3, <1>4 DEF Next

-----------------------------------------------------------------------------
\* A worker that has read stays behind the fence when what it read is unchanged and
\* nobody else's claim becomes its own: the row goes to nobody or to a new claim.
LEMMA FenceKept ==
  ASSUME Rows(row), Rows(row)', Work, NoResurrection, Fence,
         UNCHANGED <<archived, reflection>>,
         \A v \in Worker : \/ worker'[v] = worker[v]
                           \/ worker'[v].phase \notin {"merging", "publishing"},
         \/ row'["reflector"].by \in {row["reflector"].by, Nobody}
         \/ \E u \in Worker : row'["reflector"].by = u /\ worker'[u].phase = "claimed"
  PROVE  Fence' /\ NoResurrection'
<1>1. NoResurrection'
  BY DEF NoResurrection, ToText
<1>2. ASSUME NEW v \in Worker, worker'[v].phase \in {"merging", "publishing"}, Current(v)'
      PROVE  worker'[v] = worker[v] /\ Current(v)
  <2>1. worker'[v] = worker[v] /\ worker[v].job = "reflector" /\ "reflector" \in JobKey
    BY <1>2 DEF Work, JobKey
  <2>2. row'["reflector"].by = v /\ v # Nobody
    BY <2>1, <1>2, MemoryJobsAssumption DEF Current
  <2>3. row["reflector"].by = v
    BY <2>2, <1>2
  <2> QED
    BY <2>1, <2>2, <2>3 DEF Current, Rows
<1>3. ASSUME NEW v \in Worker, Current(v)', worker'[v].phase \in {"merging", "publishing"}
      PROVE  /\ worker'[v].text \cap ToText(archived') = {}
             /\ worker'[v].phase = "publishing" => worker'[v].version > reflection'.version
  <2>1. worker'[v] = worker[v] /\ Current(v)
    BY <1>2, <1>3
  <2>2. ToText(archived') = ToText(archived)
    BY DEF ToText
  <2> QED
    BY <1>3, <2>1, <2>2 DEF Fence
<1>4. Fence'
  BY <1>3 DEF Fence
<1> QED
  BY <1>1, <1>4

\* Only a worker of the reflector job is held by the fence: when that row is not
\* running, the fence says nothing.
LEMMA NoReflectorRuns ==
  ASSUME Work', row'["reflector"].status # "running"
  PROVE  Fence'
<1> SUFFICES ASSUME NEW v \in Worker, Current(v)'
             PROVE  worker'[v].phase \notin {"merging", "publishing"}
  BY DEF Fence
<1> QED
  BY DEF Work, Current

\* Observations that are told apart have first turns that are told apart: what is
\* active is not what is archived.
LEMMA ActiveIsNotArchived ==
  ASSUME ThreadTypes, ObservedOnce
  PROVE  ToText(Active) \cap ToText(archived) = {}
<1> SUFFICES ASSUME NEW o \in observed \ archived, NEW p \in archived, o[1] = p[1]
             PROVE  FALSE
  BY DEF ToText, Active
<1>1. o \in TurnRange /\ p \in TurnRange /\ p \in observed /\ o # p
  BY DEF ThreadTypes
<1>2. o[1] \in o[1]..o[2] /\ p[1] \in p[1]..p[2]
  BY <1>1 DEF TurnRange
<1>3. (o[1]..o[2]) \cap (p[1]..p[2]) = {}
  BY <1>1 DEF ObservedOnce
<1> QED
  BY <1>2, <1>3

\* No step breaks the fence or revives archived text.
LEMMA FenceStep ==
  IInv /\ TypeOK' /\ Work' /\ [Next]_vars => Fence' /\ NoResurrection'
<1> SUFFICES ASSUME IInv, TypeOK', Work', [Next]_vars PROVE Fence' /\ NoResurrection'
  OBVIOUS
<1>0. Work /\ ObservedOnce /\ NoResurrection /\ Fence
  BY DEF IInv
<1>1. ThreadTypes /\ Rows(row) /\ Workers
  BY TypesApart DEF IInv
<1>2. Rows(row)' /\ Workers'
  <2>1. (TypeOK <=> ThreadTypes /\ Rows(row) /\ Workers)'
    BY TypesApart, PTL
  <2> QED
    BY <2>1
<1>3. "reflector" \in JobKey /\ "decay" \in JobKey
  BY DEF JobKey
<1>4. ASSUME UNCHANGED <<archived, reflection, worker>>,
             row'["reflector"].by \in {row["reflector"].by, Nobody}
      PROVE  Fence' /\ NoResurrection'
  BY <1>0, <1>1, <1>2, <1>4, FenceKept
<1>5. CASE \/ ObserveInbound \/ GoQuiet \/ IdleSweep \/ DecayTick \/ UNCHANGED vars
           \/ \E t \in 1..Turns : ObserveOutbound(t)
           \/ \E k \in JobKey : LeaseLapses(k)
  <2>1. UNCHANGED <<archived, reflection, worker>>
    BY <1>5 DEF ObserveInbound, GoQuiet, IdleSweep, DecayTick, ObserveOutbound, LeaseLapses, vars
  <2>2. ASSUME NEW k \in JobKey, row' = Enqueued(k, row)
        PROVE  row'["reflector"].by \in {row["reflector"].by, Nobody}
    BY <1>1, <1>3, <2>2, EnqueuedRows
  <2>3. ASSUME NEW k \in JobKey, LeaseLapses(k)
        PROVE  row'["reflector"].by = row["reflector"].by
    BY <1>1, <1>3, <2>3 DEF LeaseLapses, Rows
  <2>4. OwnScope \in JobKey /\ \A s \in Scope : s \in JobKey
    BY MemoryJobsAssumption DEF JobKey
  <2>5. row'["reflector"].by \in {row["reflector"].by, Nobody}
    BY <1>3, <1>5, <2>2, <2>3, <2>4
    DEF ObserveInbound, GoQuiet, IdleSweep, DecayTick, ObserveOutbound, vars
  <2> QED
    BY <1>4, <2>1, <2>5
<1>6. ASSUME NEW w \in Worker, NEW k \in JobKey, ClaimPendingJobs(w, k)
      PROVE  Fence' /\ NoResurrection'
  <2>1. worker' = [worker EXCEPT ![w] = [Free EXCEPT !.phase = "claimed", !.job = k]]
    BY <1>6 DEF ClaimPendingJobs
  <2>2. [Free EXCEPT !.phase = "claimed", !.job = k].phase = "claimed"
    BY FreeIsWorker DEF WorkerRecord
  <2>3. worker'[w].phase = "claimed" /\ \A v \in Worker \ {w} : worker'[v] = worker[v]
    BY <1>1, <2>1, <2>2 DEF Workers
  <2>4. row'["reflector"].by = row["reflector"].by \/ row'["reflector"].by = w
    BY <1>1, <1>3, <1>6 DEF ClaimPendingJobs, Rows
  <2> QED
    BY <1>0, <1>1, <1>2, <1>6, <2>3, <2>4, FenceKept DEF ClaimPendingJobs
<1>7. ASSUME NEW w \in Worker, UNCHANGED <<archived, reflection>>,
             \/ Rest(w) \/ \E phase \in {"mined", "promoting", "swept"} : Goto(w, phase),
             row'["reflector"].by \in {row["reflector"].by, Nobody}
      PROVE  Fence' /\ NoResurrection'
  <2>1. \A v \in Worker \ {w} : worker'[v] = worker[v]
    BY <1>1, <1>7 DEF Rest, Goto, Workers
  <2>2. worker'[w].phase \in {"free", "mined", "promoting", "swept"}
    <3>1. CASE Rest(w)
      BY <1>1, <3>1, FreeIsWorker DEF Rest, Workers
    <3>2. ASSUME NEW phase \in {"mined", "promoting", "swept"}, Goto(w, phase)
          PROVE  worker'[w].phase = phase
      BY <1>1, <3>2 DEF Goto, Workers, WorkerRecord
    <3> QED
      BY <1>7, <3>1, <3>2
  <2> QED
    BY <1>0, <1>1, <1>2, <1>7, <2>1, <2>2, FenceKept
<1>8. ASSUME NEW w \in Worker, worker[w].job \in JobKey, Close(w)
      PROVE  row'["reflector"].by \in {row["reflector"].by, Nobody}
  BY <1>1, <1>3, <1>8 DEF Close, Closed, Rows
<1>9. ASSUME NEW w \in Worker, worker[w].phase # "free" PROVE worker[w].job \in JobKey
  BY <1>0, <1>9 DEF Work
<1>10. ASSUME NEW w \in Worker, JobFails(w) \/ Crash(w) \/ FinishMining(w) \/ FinishSweep(w) \/ Promote(w)
       PROVE  Fence' /\ NoResurrection'
  <2>1. row'["reflector"].by \in {row["reflector"].by, Nobody}
    <3>1. CASE Promote(w)
      BY <1>1, <1>3, <3>1, EnqueuedRows DEF Promote
    <3>2. CASE JobFails(w) \/ FinishMining(w) \/ FinishSweep(w)
      BY <1>8, <1>9, <3>2 DEF JobFails, FinishMining, FinishSweep
    <3> QED
      BY <1>10, <3>1, <3>2 DEF Crash
  <2> QED
    BY <1>7, <1>10, <2>1 DEF JobFails, Crash, FinishMining, FinishSweep, Promote
<1>11. ASSUME NEW w \in Worker, MineFacts(w) \/ CommitObserverPage(w)
       PROVE  Fence' /\ NoResurrection'
  <2>1. CASE MineFacts(w)
    BY <1>7, <2>1 DEF MineFacts
  <2>2. CASE CommitObserverPage(w)
    <3>1. worker[w].job \in Scope /\ worker[w].job # "reflector"
      BY <1>0, <2>2, MemoryJobsAssumption DEF CommitObserverPage, Work
    <3>2. row'["reflector"] = row["reflector"]
      BY <1>1, <1>3, <2>2, <3>1 DEF CommitObserverPage, Rows
    <3> QED
      BY <1>7, <2>2, <3>2 DEF CommitObserverPage
  <2> QED
    BY <1>11, <2>1, <2>2
<1>12. ASSUME NEW w \in Worker, ReadPage(w)
       PROVE  Fence' /\ NoResurrection'
  <2>1. \A v \in Worker \ {w} : worker'[v] = worker[v]
    BY <1>1, <1>12 DEF ReadPage, Workers
  <2>2. PICK phase \in {"mining", "summarizing"} : \E last, more :
          worker' = [worker EXCEPT ![w].phase = phase, ![w].from = frontier, ![w].upto = last,
                                   ![w].more = more]
    BY <1>12 DEF ReadPage
  <2>3. worker'[w].phase = phase
    BY <1>1, <2>2 DEF Workers, WorkerRecord
  <2> QED
    BY <1>0, <1>1, <1>2, <1>12, <2>1, <2>3, FenceKept DEF ReadPage
<1>13. ASSUME NEW w \in Worker, ReadObservations(w) \/ Merged(w)
       PROVE  Fence' /\ NoResurrection'
  <2>1. UNCHANGED <<archived, reflection, row>>
    BY <1>13 DEF ReadObservations, Merged
  <2>2. NoResurrection' /\ ToText(archived') = ToText(archived)
    BY <1>0, <2>1 DEF NoResurrection, ToText
  <2>3. \A v \in Worker \ {w} : worker'[v] = worker[v]
    BY <1>1, <1>13 DEF ReadObservations, Merged, Workers
  <2>4. CASE ReadObservations(w)
    <3>1. worker' = [worker EXCEPT ![w] = [worker[w] EXCEPT !.phase = "merging", !.text = ToText(Active)]]
      BY <1>1, <2>4 DEF ReadObservations, Workers
    <3>2. worker'[w].phase = "merging" /\ worker'[w].text = ToText(Active)
      BY <1>1, <3>1 DEF Workers, WorkerRecord
    <3>3. worker'[w].text \cap ToText(archived') = {}
      BY <1>0, <1>1, <2>2, <3>2, ActiveIsNotArchived
    <3>4. ASSUME NEW v \in Worker \ {w}, Current(v)' PROVE Current(v)
      BY <2>1, <2>3, <3>4 DEF Current
    <3> QED
      BY <1>0, <2>1, <2>2, <2>3, <3>2, <3>3, <3>4 DEF Fence
  <2>5. CASE Merged(w)
    <3>1. worker' = [worker EXCEPT ![w] = [worker[w] EXCEPT !.phase = "publishing", !.version = HighWater + 1]]
      BY <1>1, <2>5 DEF Merged, Workers
    <3>2. /\ worker'[w].phase = "publishing" /\ worker'[w].version = HighWater + 1
          /\ worker'[w].text = worker[w].text /\ worker'[w].job = worker[w].job
      BY <1>1, <3>1 DEF Workers, WorkerRecord
    <3>3. HighWater = reflection'.version /\ reflection'.version \in Nat
      BY <1>1, <2>1 DEF HighWater, ThreadTypes
    <3>4. worker'[w].version > reflection'.version
      BY <3>2, <3>3
    <3>5. ASSUME NEW v \in Worker, Current(v)' PROVE Current(v)
      BY <2>1, <2>3, <3>2, <3>5 DEF Current
    <3>6. worker[w].phase = "merging"
      BY <2>5 DEF Merged
    <3> QED
      BY <1>0, <2>1, <2>2, <2>3, <3>2, <3>4, <3>5, <3>6 DEF Fence
  <2> QED
    BY <1>13, <2>4, <2>5
<1>14. ASSUME NEW w \in Worker, CommitReflectionJob(w)
       PROVE  Fence' /\ NoResurrection'
  <2>1. worker[w].phase = "publishing" /\ worker[w].job = "reflector" /\ Close(w) /\ Rest(w) /\ archived' = archived
    BY <1>0, <1>14 DEF CommitReflectionJob, Work
  <2>2. CASE Current(w)
    <3>1. row'["reflector"].status # "running"
      BY <1>1, <1>3, <2>1, <2>2 DEF Close, Closed, Rows
    <3>2. worker[w].text \cap ToText(archived') = {}
      BY <1>0, <2>1, <2>2 DEF Fence, ToText
    <3>3. \/ reflection' = reflection
          \/ reflection' = [reflection EXCEPT !.active = FALSE]
          \/ reflection' = [text |-> worker[w].text, version |-> worker[w].version, active |-> TRUE]
      BY <1>14 DEF CommitReflectionJob
    <3>4. NoResurrection'
      BY <1>0, <1>1, <2>1, <3>2, <3>3 DEF NoResurrection, ThreadTypes, ToText
    <3> QED
      BY <3>1, <3>4, NoReflectorRuns
  <2>3. CASE ~Current(w)
    BY <1>7, <1>8, <1>14, <2>1, <2>3, <1>3 DEF CommitReflectionJob
  <2> QED
    BY <2>2, <2>3
<1>15. ASSUME NEW w \in Worker, ArchiveObservations(w)
       PROVE  Fence' /\ NoResurrection'
  <2>1. CASE UNCHANGED <<archived, reflection, row>>
    BY <1>7, <1>15, <2>1 DEF ArchiveObservations
  <2>2. CASE reflection' = [reflection EXCEPT !.active = FALSE] /\ row' = Rebuild(row)
    <3>1. row'["reflector"].status # "running"
      BY <1>1, <2>2, RebuildRows
    <3>2. NoResurrection'
      BY <1>1, <2>2 DEF NoResurrection, ThreadTypes
    <3> QED
      BY <3>1, <3>2, NoReflectorRuns
  <2> QED
    BY <1>15, <2>1, <2>2 DEF ArchiveObservations
<1> QED
  BY <1>5, <1>6, <1>10, <1>11, <1>12, <1>13, <1>14, <1>15 DEF Next, Step

-----------------------------------------------------------------------------
\* Every state of every behaviour is well typed and behind the fence: the
\* inductive invariant.
THEOREM Invariant == Spec => []IInv
<1>1. Init => IInv
  <2> SUFFICES ASSUME Init PROVE IInv
    OBVIOUS
  <2>1. TypeOK /\ Work
    BY TypeInit, WorkInit
  <2>2. ObservedOnce
    BY DEF Init, ObservedOnce
  <2>3. NoResurrection
    BY DEF Init, NoResurrection
  <2>4. Fence
    BY FreeIsWorker DEF Init, Fence
  <2> QED
    BY <2>1, <2>2, <2>3, <2>4 DEF IInv
<1>2. IInv /\ [Next]_vars => IInv'
  <2> SUFFICES ASSUME IInv, [Next]_vars PROVE IInv'
    OBVIOUS
  <2>1. TypeOK'
    <3>1. ASSUME UNCHANGED vars PROVE TypeOK'
      BY <3>1 DEF vars, IInv, TypeOK, TurnRange
    <3> QED
      BY <3>1, TypeOutside, TypeJobs DEF IInv, Next
  <2>2. Work' /\ ObservedOnce'
    BY <2>1, WorkStep, ObservedStep DEF IInv
  <2>3. Fence' /\ NoResurrection'
    BY <2>1, <2>2, FenceStep
  <2> QED
    BY <2>1, <2>2, <2>3 DEF IInv
<1> QED
  BY <1>1, <1>2, PTL DEF Spec

\* The variables of the thread, the jobs and the workers keep their types.
THEOREM TypeCorrect == Spec => []TypeOK
<1>1. IInv => TypeOK
  BY DEF IInv
<1> QED
  BY <1>1, Invariant, PTL

\* commitObserverPage folds every turn up to the frontier into one observation,
\* however many workers hold the thread's jobs, and however often they fail.
THEOREM ObservedOnceAlways == Spec => []ObservedOnce
<1>1. IInv => ObservedOnce
  BY DEF IInv
<1> QED
  BY <1>1, Invariant, PTL

\* archiveObservations and commitReflectionJob keep archived text out of every
\* active reflection.
THEOREM NothingResurrected == Spec => []NoResurrection
<1>1. IInv => NoResurrection
  BY DEF IInv
<1> QED
  BY <1>1, Invariant, PTL

\* commitReflectionJob publishes new text only under a new, higher version.
THEOREM VersionsGrow == Spec => VersionGrows
<1>1. IInv /\ [Next]_vars
        => [reflection'.text # reflection.text => reflection'.version > reflection.version]_vars
  <2> SUFFICES ASSUME IInv, [Next]_vars, reflection'.text # reflection.text
               PROVE  reflection'.version > reflection.version
    OBVIOUS
  <2>1. Fence /\ ThreadTypes
    BY TypesApart DEF IInv
  <2>2. ASSUME NEW w \in Worker, CommitReflectionJob(w)
        PROVE  reflection'.version > reflection.version
    <3>1. reflection' # [reflection EXCEPT !.active = FALSE] /\ reflection' # reflection
      BY <2>1 DEF ThreadTypes
    <3>2. Current(w) /\ worker[w].phase = "publishing" /\ reflection'.version = worker[w].version
      BY <2>2, <3>1 DEF CommitReflectionJob
    <3> QED
      BY <2>1, <3>2 DEF Fence
  <2>3. ASSUME NEW w \in Worker, ArchiveObservations(w)
        PROVE  FALSE
    BY <2>1, <2>3 DEF ArchiveObservations, ThreadTypes
  <2>4. UNCHANGED reflection => FALSE
    OBVIOUS
  <2> QED
    BY <2>2, <2>3, <2>4
    DEF Next, vars, ObserveInbound, GoQuiet, IdleSweep, DecayTick, ObserveOutbound, LeaseLapses,
        ClaimPendingJobs, JobFails, Crash, Step, ReadPage, MineFacts, FinishMining,
        CommitObserverPage, Promote, ReadObservations, Merged, FinishSweep
<1> QED
  BY <1>1, Invariant, PTL DEF Spec, VersionGrows

=============================================================================
