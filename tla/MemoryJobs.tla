------------------------------ MODULE MemoryJobs ------------------------------
(***************************************************************************)
(* The memory middleware's background jobs.  Requests persist the turns of *)
(* a thread and ask for an observer job; workers of any replica claim jobs *)
(* under a lease, call the model and publish what it returns: an observer  *)
(* folds the oldest turns after the thread's frontier into an observation, *)
(* or mines them for facts; a reflector merges the active observations     *)
(* into the reflection of the scope; a decay sweep archives observations   *)
(* and with them the reflection that was made of them.                     *)
(*                                                                         *)
(* One thread of one project is modelled.  A turn is its number.  Its      *)
(* requests may name different scopes (with or without a resource), each   *)
(* of which has an observer job of its own.                                *)
(***************************************************************************)
EXTENDS Naturals, FiniteSets, FiniteSetsExt

CONSTANTS
  Worker,      \* job lanes of all replicas
  Scope,       \* the observer scopes of the thread
  OwnScope,    \* the scope the thread was created with
  Turns,       \* bound: turns of the thread
  PageSize,    \* OBSERVER_PAGE_MESSAGES
  MaxMishaps,  \* bound: errors, crashes and leases that run out under a worker
  Nobody

ASSUME MemoryJobsAssumption ==
  /\ OwnScope \in Scope /\ {"reflector", "decay"} \cap Scope = {}
  /\ {Turns, PageSize} \subseteq Nat \ {0} /\ MaxMishaps \in Nat
  /\ Nobody \notin Worker

\* One row of memory_jobs can be open for each of these (the partial unique index).
JobKey == Scope \cup {"reflector", "decay"}

VARIABLES
  recorded,   \* turns 1..recorded are in memory_messages
  unasked,    \* recorded turns whose observer job has not been asked for yet
  quiet,      \* the last turn is older than idle_flush_s
  frontier,   \* the thread's observer frontier
  observed,   \* the observations: the ranges of turns they stand for
  archived,   \* those that a decay sweep has archived
  mined,      \* turns that an eager extraction has looked at
  row,        \* job key -> the open row: its status and the claim in force
  worker,     \* worker -> its job and what it has read for it
  reflection, \* the newest reflection: its observations, version, whether active
  mishaps     \* counts towards MaxMishaps

vars == <<recorded, unasked, quiet, frontier, observed, archived, mined, row, worker,
          reflection, mishaps>>

-----------------------------------------------------------------------------
Closed == [status |-> "closed", by |-> Nobody, lapsed |-> FALSE]
Pending == [Closed EXCEPT !.status = "pending"]
Free == [phase |-> "free", job |-> Nobody, from |-> 0, upto |-> 0, more |-> FALSE,
         text |-> {}, version |-> 0]

Active == observed \ archived
ToText(observations) == {o[1] : o \in observations}

\* The fence: the row is running under this worker's claim (lease_generation).
Current(w) ==
  row[worker[w].job].status = "running" /\ row[worker[w].job].by = w

\* enqueueJob: an open row of the same key takes the request over.
Enqueued(key, rows) == [rows EXCEPT ![key] = IF @.status = "closed" THEN Pending ELSE @]

\* updateJobStatus to done or failed, fenced.
Close(w) == row' = IF Current(w) THEN [row EXCEPT ![worker[w].job] = Closed] ELSE row

Goto(w, phase) == worker' = [worker EXCEPT ![w].phase = phase]
Rest(w) == worker' = [worker EXCEPT ![w] = Free]

Mishap == mishaps < MaxMishaps /\ mishaps' = mishaps + 1

-----------------------------------------------------------------------------
Init ==
  /\ recorded = 0 /\ unasked = {} /\ quiet = FALSE
  /\ frontier = 0 /\ observed = {} /\ archived = {} /\ mined = {}
  /\ row = [k \in JobKey |-> Closed]
  /\ worker = [w \in Worker |-> Free]
  /\ reflection = [text |-> {}, version |-> 0, active |-> FALSE]
  /\ mishaps = 0

(***************************************************************************)
(* Requests and ticks.                                                     *)
(***************************************************************************)
\* observeInbound: the turn is persisted before the request goes upstream.
ObserveInbound ==
  /\ recorded < Turns
  /\ recorded' = recorded + 1
  /\ unasked' = unasked \cup {recorded + 1}
  /\ quiet' = FALSE
  /\ UNCHANGED <<frontier, observed, archived, mined, row, worker, reflection, mishaps>>

\* observeOutbound: the answer is there, the observer job is asked for, if the
\* store lets it.
ObserveOutbound(t) ==
  /\ t \in unasked
  /\ unasked' = unasked \ {t}
  /\ \/ \E s \in Scope : row' = Enqueued(s, row) /\ UNCHANGED mishaps
     \/ Mishap /\ UNCHANGED row
  /\ UNCHANGED <<recorded, quiet, frontier, observed, archived, mined, worker, reflection>>

\* idle_flush_s has passed since the last turn.
GoQuiet ==
  /\ ~quiet /\ unasked = {} /\ recorded > 0
  /\ quiet' = TRUE
  /\ UNCHANGED <<recorded, unasked, frontier, observed, archived, mined, row, worker, reflection, mishaps>>

\* Mutant: the sweep leaves threads alone that have been observed before.
IdleCandidateOnce == quiet /\ frontier < recorded /\ observed = {}

\* listIdleFlushCandidates: a quiet thread with turns after its frontier.
IdleCandidate == quiet /\ frontier < recorded

\* maybeEnqueueIdleObserverJobs.
IdleSweep ==
  /\ IdleCandidate
  /\ row' = Enqueued(OwnScope, row)
  /\ row' # row
  /\ UNCHANGED <<recorded, unasked, quiet, frontier, observed, archived, mined, worker, reflection, mishaps>>

\* maybeEnqueueDecayJobs.
DecayTick ==
  /\ Active # {}
  /\ row' = Enqueued("decay", row)
  /\ row' # row
  /\ UNCHANGED <<recorded, unasked, quiet, frontier, observed, archived, mined, worker, reflection, mishaps>>

(***************************************************************************)
(* Claims.                                                                 *)
(***************************************************************************)
\* Mutant: only pending rows.
ClaimablePending(k) == row[k].status = "pending"

\* claimPendingJobs: pending rows, and running ones whose lease has run out.
Claimable(k) == row[k].status = "pending" \/ (row[k].status = "running" /\ row[k].lapsed)

ClaimPendingJobs(w, k) ==
  /\ worker[w].phase = "free" /\ Claimable(k)
  /\ row' = [row EXCEPT ![k] = [status |-> "running", by |-> w, lapsed |-> FALSE]]
  /\ worker' = [worker EXCEPT ![w] = [Free EXCEPT !.phase = "claimed", !.job = k]]
  /\ UNCHANGED <<recorded, unasked, quiet, frontier, observed, archived, mined, reflection, mishaps>>

Working(k) == \E w \in Worker : worker[w].job = k /\ row[k].by = w

\* RUNNING_LEASE_MS has passed since the claim.
LeaseLapses(k) ==
  /\ row[k].status = "running" /\ ~row[k].lapsed
  /\ row' = [row EXCEPT ![k].lapsed = TRUE]
  /\ IF Working(k) THEN Mishap ELSE UNCHANGED mishaps
  /\ UNCHANGED <<recorded, unasked, quiet, frontier, observed, archived, mined, worker, reflection>>

\* The store or the model fails: the job is marked failed, if it is still this
\* worker's.
JobFails(w) ==
  /\ worker[w].phase # "free" /\ Mishap
  /\ Close(w)
  /\ Rest(w)
  /\ UNCHANGED <<recorded, unasked, quiet, frontier, observed, archived, mined, reflection>>

\* The process dies; the row stays as it is.
Crash(w) ==
  /\ worker[w].phase # "free" /\ Mishap
  /\ Rest(w)
  /\ UNCHANGED <<recorded, unasked, quiet, frontier, observed, archived, mined, row, reflection>>

(***************************************************************************)
(* runObserverJob.                                                         *)
(***************************************************************************)
\* listObserverMessagesPage and chooseAutoCompaction: nothing is folded, or, when
\* the thread is quiet or has more turns than the page, the whole page, or, by
\* its size, some of its oldest turns.
ReadPage(w) ==
  /\ worker[w].phase = "claimed" /\ worker[w].job \in Scope
  /\ LET page == Min({recorded, frontier + PageSize})
         more == page < recorded
         read(phase, last) ==
           worker' = [worker EXCEPT ![w].phase = phase, ![w].from = frontier, ![w].upto = last,
                                    ![w].more = more \/ last < page]
     IN  IF (quiet \/ more) /\ page > frontier
         THEN read("summarizing", page)
         ELSE \/ read("mining", page)
              \/ \E last \in frontier + 1 .. page : read("summarizing", last)
  /\ UNCHANGED <<recorded, unasked, quiet, frontier, observed, archived, mined, row, reflection, mishaps>>

\* maybeEagerExtractFacts: the facts of the turns read are written, fenced.
MineFacts(w) ==
  /\ worker[w].phase = "mining"
  /\ mined' = IF Current(w) THEN mined \cup (worker[w].from + 1 .. worker[w].upto) ELSE mined
  /\ Goto(w, "mined")
  /\ UNCHANGED <<recorded, unasked, quiet, frontier, observed, archived, row, reflection, mishaps>>

\* The job without an observation is done.  Late turns are not looked for: both
\* stores read pages.
FinishMining(w) ==
  /\ worker[w].phase = "mined"
  /\ Close(w)
  /\ Rest(w)
  /\ UNCHANGED <<recorded, unasked, quiet, frontier, observed, archived, mined, reflection, mishaps>>

\* Mutant: the commit does not compare the frontier.
FrontierUnchecked(w) == TRUE

\* The frontier is the one the page was read from.
FrontierAsExpected(w) == frontier = worker[w].from

\* commitObserverPage: the observation, the frontier, the end of the job and its
\* successor in one transaction; a stale one leaves everything, the row included.
CommitObserverPage(w) ==
  /\ worker[w].phase = "summarizing"
  /\ IF Current(w) /\ FrontierAsExpected(w)
     THEN /\ observed' = observed \cup {<<worker[w].from + 1, worker[w].upto>>}
          /\ frontier' = worker[w].upto
          /\ row' = [row EXCEPT ![worker[w].job] = IF worker[w].more THEN Pending ELSE Closed]
          /\ Goto(w, "promoting")
     ELSE /\ Rest(w)
          /\ UNCHANGED <<observed, frontier, row>>
  /\ UNCHANGED <<recorded, unasked, quiet, archived, mined, reflection, mishaps>>

\* processJob: a reflector job for the project.
Promote(w) ==
  /\ worker[w].phase = "promoting"
  /\ row' = Enqueued("reflector", row)
  /\ Rest(w)
  /\ UNCHANGED <<recorded, unasked, quiet, frontier, observed, archived, mined, reflection, mishaps>>

(***************************************************************************)
(* runReflectorJob.                                                        *)
(***************************************************************************)
ReadObservations(w) ==
  /\ worker[w].phase = "claimed" /\ worker[w].job = "reflector"
  /\ worker' = [worker EXCEPT ![w].phase = "merging", ![w].text = ToText(Active)]
  /\ UNCHANGED <<recorded, unasked, quiet, frontier, observed, archived, mined, row, reflection, mishaps>>

\* Mutant: the version goes on from the active reflection.
HighWaterActive == IF reflection.active THEN reflection.version ELSE 0

\* getReflectionVersionHighWater: archived reflections count.
HighWater == reflection.version

\* The model has merged the observations; the next version is read.
Merged(w) ==
  /\ worker[w].phase = "merging"
  /\ worker' = [worker EXCEPT ![w].phase = "publishing", ![w].version = HighWater + 1]
  /\ UNCHANGED <<recorded, unasked, quiet, frontier, observed, archived, mined, row, reflection, mishaps>>

\* commitReflectionJob: reflection and end of the job in one transaction.  Nothing
\* is written when nothing changed; a scope without observations loses its
\* reflection.
CommitReflectionJob(w) ==
  /\ worker[w].phase = "publishing"
  /\ LET text == worker[w].text
         unchanged == reflection.active /\ reflection.text = text
     IN  reflection' =
           IF ~Current(w) \/ unchanged THEN reflection
           ELSE IF text = {} THEN [reflection EXCEPT !.active = FALSE]
           ELSE [text |-> text, version |-> worker[w].version, active |-> TRUE]
  /\ Close(w)
  /\ Rest(w)
  /\ UNCHANGED <<recorded, unasked, quiet, frontier, observed, archived, mined, mishaps>>

(***************************************************************************)
(* runDecayJob.                                                            *)
(***************************************************************************)
\* Mutant: the reflector that is running goes on.
RebuildQueued(rows) == Enqueued("reflector", rows)

\* The running reflector job is closed, and a new one is queued.
Rebuild(rows) ==
  Enqueued("reflector", IF rows["reflector"].status = "running"
                        THEN [rows EXCEPT !["reflector"] = Closed] ELSE rows)

\* archiveObservations: some active observations, the reflection made of them and
\* the fence against a running reflector in one transaction.
ArchiveObservations(w) ==
  /\ worker[w].phase = "claimed" /\ worker[w].job = "decay"
  /\ \E condemned \in SUBSET Active :
       IF Current(w) /\ condemned # {}
       THEN /\ archived' = archived \cup condemned
            /\ reflection' = [reflection EXCEPT !.active = FALSE]
            /\ row' = Rebuild(row)
       ELSE UNCHANGED <<archived, reflection, row>>
  /\ Goto(w, "swept")
  /\ UNCHANGED <<recorded, unasked, quiet, frontier, observed, mined, mishaps>>

FinishSweep(w) ==
  /\ worker[w].phase = "swept"
  /\ Close(w)
  /\ Rest(w)
  /\ UNCHANGED <<recorded, unasked, quiet, frontier, observed, archived, mined, reflection, mishaps>>

-----------------------------------------------------------------------------
Step(w) ==
  \/ ReadPage(w) \/ MineFacts(w) \/ FinishMining(w) \/ CommitObserverPage(w) \/ Promote(w)
  \/ ReadObservations(w) \/ Merged(w) \/ CommitReflectionJob(w)
  \/ ArchiveObservations(w) \/ FinishSweep(w)

Next ==
  \/ ObserveInbound \/ GoQuiet \/ IdleSweep \/ DecayTick
  \/ \E t \in 1..Turns : ObserveOutbound(t)
  \/ \E k \in JobKey : LeaseLapses(k) \/ \E w \in Worker : ClaimPendingJobs(w, k)
  \/ \E w \in Worker : Step(w) \/ JobFails(w) \/ Crash(w)

Spec == Init /\ [][Next]_vars

\* Calls return or throw, time passes, the worker ticks and claims the oldest rows
\* first.  No request has to come, and no sweep has to find anything to archive.
Fairness ==
  /\ \A w \in Worker : WF_vars(Step(w))
  /\ \A k \in JobKey : WF_vars(LeaseLapses(k)) /\ SF_vars(\E w \in Worker : ClaimPendingJobs(w, k))
  /\ WF_vars(\E t \in 1..Turns : ObserveOutbound(t))
  /\ WF_vars(GoQuiet) /\ WF_vars(IdleSweep)

FairSpec == Spec /\ Fairness

-----------------------------------------------------------------------------
TurnRange == {o \in (1..Turns) \X (1..Turns) : o[1] <= o[2]}

TypeOK ==
  /\ recorded \in 0..Turns /\ unasked \subseteq 1..recorded /\ mined \subseteq 1..recorded
  /\ {quiet} \subseteq BOOLEAN
  /\ frontier \in 0..recorded
  /\ observed \subseteq TurnRange /\ archived \subseteq observed
  /\ row \in [JobKey -> [status : {"closed", "pending", "running"}, by : Worker \cup {Nobody},
                         lapsed : BOOLEAN]]
  /\ \A k \in JobKey : row[k].status = "running" <=> row[k].by # Nobody
  /\ worker \in [Worker ->
       [phase : {"free", "claimed", "mining", "mined", "summarizing", "promoting",
                 "merging", "publishing", "swept"},
        job : JobKey \cup {Nobody}, from : 0..Turns, upto : 0..Turns, more : BOOLEAN,
        text : SUBSET (1..Turns), version : Nat]]
  /\ reflection \in [text : SUBSET (1..Turns), version : Nat, active : BOOLEAN]
  /\ mishaps \in 0..MaxMishaps

\* The observations stand for exactly the turns up to the frontier, each for its
\* own, although two workers may hold the same job and two jobs the same thread:
\* what inject leaves out of the prompt is what the observations say, once.
ObservedOnce ==
  /\ UNION {o[1]..o[2] : o \in observed} = 1..frontier
  /\ \A o, p \in observed : o # p => (o[1]..o[2]) \cap (p[1]..p[2]) = {}

\* "An in-flight stale Reflector cannot resurrect archived text"
\* (docs/08-memory-middleware.md:292): what was forgotten is in no active
\* reflection.
NoResurrection == reflection.active => reflection.text \cap ToText(archived) = {}

\* Two reflections never have one version, "the version never resets after
\* archive/revival" (docs/12-memory-forgetting-and-tiering.md:237).
VersionGrows ==
  [][reflection'.text # reflection.text => reflection'.version > reflection.version]_vars

\* However workers fail, every open job is closed again.
JobsClose == \A k \in JobKey \ {"decay"} : row[k].status = "running" ~> row[k].status # "running"

\* Every turn is folded into an observation in the end, also when its own job
\* was never asked for, failed, or had its turns read before.
TurnsObserved == \A t \in 1..Turns : recorded >= t ~> frontier >= t

\* "If messages arrived SINCE the snapshot, enqueue a fresh observer job"
\* (observer.test.ts:615): with nothing failing, a turn whose job was asked for is
\* observed, mined, or has an observer job open.
NoTurnLeftBehind ==
  \A t \in 1..recorded \ unasked :
    t <= frontier \/ t \in mined \/ \E s \in Scope : row[s].status # "closed"

=============================================================================
