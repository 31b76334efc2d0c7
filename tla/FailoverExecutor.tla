-------------------------- MODULE FailoverExecutor --------------------------
(***************************************************************************)
(* The walk of a request along its candidate chain, and the circuit        *)
(* breakers all requests share: execute() for conversational requests,     *)
(* runImageChain() for image requests, whose upstream write is paid for    *)
(* and must never be repeated elsewhere.                                   *)
(*                                                                         *)
(* Between two awaits a request runs alone: it settles the attempt it      *)
(* awaited, passes over the candidates it cannot use and starts the next   *)
(* attempt in one step.  Requests interleave only while attempts are in    *)
(* flight.  What the capability filter makes of a request and a candidate  *)
(* is a constant: it reads neither the breakers nor the clock.             *)
(***************************************************************************)
EXTENDS CircuitBreaker, Sequences

CONSTANTS Request,       \* requests being served, over and over
          ImageRequest,  \* those runImageChain serves
          Alias,         \* routing aliases, each with its breaker
          Chain,         \* request -> plan.candidate_chain
          Missing,       \* aliases whose provider has no client
          Incapable,     \* <<request, alias>> pairs the capability filter skips
          TooSmall       \* those of them skipped as context_too_small

ASSUME ExecutorAssumption ==
  /\ Attempt = Request
  /\ ImageRequest \subseteq Request
  /\ Chain \in [Request -> Seq(Alias)]
  /\ Missing \subseteq Alias
  /\ Incapable \subseteq (Request \ ImageRequest) \X Alias
  /\ TooSmall \subseteq Incapable

VARIABLES
  breaker,  \* alias -> breaker entry
  phase,    \* request -> "idle" or "attempting"
  pos,      \* request -> index in its chain of the attempt in flight
  probing,  \* request -> gate.probe of that attempt
  aborted,  \* request -> its signal is aborted
  notes,    \* request -> what the walk has met so far
  answer    \* request -> outcome of the last request served in its place

vars == <<breaker, phase, pos, probing, aborted, notes, answer>>

\* attemptedAny, capabilityPruned, circuitSkipped, onlyContextOrCapabilitySkips,
\* contextOverflow # undefined, and contextConfirmations, counted up to the two
\* that matter.
Notes == [tried : BOOLEAN, pruned : BOOLEAN, open : BOOLEAN, only : BOOLEAN,
          overflow : BOOLEAN, confirmed : 0..2]

NoNotes == [tried |-> FALSE, pruned |-> FALSE, open |-> FALSE, only |-> TRUE,
            overflow |-> FALSE, confirmed |-> 0]

\* "stopped": ended by the attempt itself without a fallback (client abort, lost
\* lease, request timeout, rejected request, backpressure, unknown outcome).
Answer == {"none", "ok", "stopped", "invalid_request", "lane_unavailable",
           "capability_unsatisfiable", "all_providers_failed"}

At(r) == Chain[r][pos[r]]

-----------------------------------------------------------------------------
(* Passing over candidates.                                                *)

\* The candidate is admitted by its breaker, whose state is that of b.
Admitted(a, b) == a \notin Missing /\ Allows(b[a])

Usable(r, a, b) == Admitted(a, b) /\ <<r, a>> \notin Incapable

\* The first usable candidate from p on, or one past the end of the chain.
NextUsable(r, p, b) ==
  LET usable == {i \in p..Len(Chain[r]) : Usable(r, Chain[r][i], b)}
  IN  IF usable = {} THEN Len(Chain[r]) + 1
      ELSE CHOOSE i \in usable : \A j \in usable : i <= j

\* The candidates passed over on the way there.
Passed(r, p, b) == {Chain[r][i] : i \in p..(NextUsable(r, p, b) - 1)}

\* Mutant: without the finally block the lock stays taken.
AfterSkipsLocked(r, p, b) ==
  [a \in Alias |-> IF a \in Passed(r, p, b) /\ Admitted(a, b)
                   THEN Attempted(b[a], r) ELSE b[a]]

\* An admitted candidate that the capability filter skips took its breaker's
\* lock if there was one to take, and the finally block releases it.
AfterSkips(r, p, b) ==
  [a \in Alias |-> IF a \in Passed(r, p, b) /\ Admitted(a, b)
                   THEN Aborted(Attempted(b[a], r), r) ELSE b[a]]

\* Mutant: a candidate whose breaker is open is not noted.
NotedNoOpen(r, p, b, n) ==
  LET passed == Passed(r, p, b)
      admitted == {a \in passed : Admitted(a, b)}
  IN  [n EXCEPT !.pruned = @ \/ admitted # {},
                !.overflow = @ \/ \E a \in admitted : <<r, a>> \in TooSmall]

\* What the skips leave in the notes.
Noted(r, p, b, n) ==
  LET passed == Passed(r, p, b)
      admitted == {a \in passed : Admitted(a, b)}
  IN  [n EXCEPT !.pruned = @ \/ admitted # {},
                !.open = @ \/ \E a \in passed \ Missing : a \notin admitted,
                !.only = @ /\ passed = admitted,
                !.overflow = @ \/ \E a \in admitted : <<r, a>> \in TooSmall]

\* The terminal error of an exhausted chain.
Verdict(r, n) ==
  CASE Chain[r] = <<>> -> "lane_unavailable"
    [] Chain[r] # <<>> /\ r \in ImageRequest -> "all_providers_failed"
    [] Chain[r] # <<>> /\ r \notin ImageRequest ->
         IF n.overflow /\ (n.only \/ n.confirmed = 2) THEN "invalid_request"
         ELSE IF ~n.tried /\ n.pruned /\ ~n.open /\ n.only THEN "capability_unsatisfiable"
         ELSE "all_providers_failed"

\* execute() returns; what it kept is gone.
Finish(r, what) ==
  /\ phase' = [phase EXCEPT ![r] = "idle"]
  /\ probing' = [probing EXCEPT ![r] = FALSE]
  /\ aborted' = [aborted EXCEPT ![r] = FALSE]
  /\ notes' = [notes EXCEPT ![r] = NoNotes]
  /\ answer' = [answer EXCEPT ![r] = what]
  /\ UNCHANGED pos

\* From candidate p on, with breakers b and notes n: start the next attempt or
\* give the terminal answer.
Walk(r, p, b, n) ==
  LET i == NextUsable(r, p, b)
      skipped == AfterSkips(r, p, b)
      after == Noted(r, p, b, n)
  IN  IF i <= Len(Chain[r])
      THEN LET a == Chain[r][i]
           IN  /\ breaker' = [skipped EXCEPT ![a] = Attempted(@, r)]
               /\ phase' = [phase EXCEPT ![r] = "attempting"]
               /\ pos' = [pos EXCEPT ![r] = i]
               /\ probing' = [probing EXCEPT ![r] = IsProbe(b[a])]
               /\ notes' = [notes EXCEPT ![r] = after]
               /\ answer' = [answer EXCEPT ![r] = "none"]
               /\ UNCHANGED aborted
      ELSE /\ breaker' = skipped
           /\ Finish(r, Verdict(r, after))

\* The attempt in flight is settled with entry e and the request answered.
Answered(r, e, what) ==
  /\ breaker' = [breaker EXCEPT ![At(r)] = e]
  /\ Finish(r, what)

\* The attempt in flight is settled with entry e and the walk goes on.
Fallback(r, e, n) == Walk(r, pos[r] + 1, [breaker EXCEPT ![At(r)] = e], n)

-----------------------------------------------------------------------------
(* The steps of a request.                                                 *)

\* A request arrives; the last one served in its place is over.
Start(r) ==
  /\ phase[r] = "idle"
  /\ Walk(r, 1, breaker, NoNotes)

\* The signal of a request in flight aborts: its client went away, its
\* concurrency lease was lost, or its deadline passed.
AbortSignal(r) ==
  /\ phase[r] = "attempting"
  /\ ~aborted[r]
  /\ aborted' = [aborted EXCEPT ![r] = TRUE]
  /\ UNCHANGED <<breaker, phase, pos, probing, notes, answer>>

\* A valid response, or a stream's first valid chunk.
Succeed(r) ==
  /\ phase[r] = "attempting"
  /\ Answered(r, Succeeded(breaker[At(r)]), "ok")

\* Mutant: the error of an aborted attempt counts as the upstream's.
CancelledAsFault(r) ==
  /\ phase[r] = "attempting"
  /\ aborted[r]
  /\ Answered(r, Failed(breaker[At(r)]), "stopped")

\* The attempt ends after the signal aborted, however it ends.
Cancelled(r) ==
  /\ phase[r] = "attempting"
  /\ aborted[r]
  /\ Answered(r, Aborted(breaker[At(r)], r), "stopped")

\* The request is to blame, or the caller must start over: no candidate
\* would serve it, and the upstream is healthy.
Reject(r) ==
  /\ phase[r] = "attempting"
  /\ ~aborted[r]
  /\ Answered(r, Aborted(breaker[At(r)], r), "stopped")

\* The upstream stalled after the request was sent: its fault, but what it did
\* is unknown, and the request must not be repeated.
Stall(r) ==
  /\ phase[r] = "attempting"
  /\ ~aborted[r]
  /\ Answered(r, Failed(breaker[At(r)]), "stopped")

\* Mutant: an image request falls back like any other.
FaultFallsBack(r) ==
  /\ phase[r] = "attempting"
  /\ ~aborted[r]
  /\ Fallback(r, Failed(breaker[At(r)]), [notes[r] EXCEPT !.tried = TRUE, !.only = FALSE])

\* A provider or transport failure before the first valid chunk: it counts
\* against the alias and the next candidate is tried.  An image request may
\* have been accepted and stops here.
Fault(r) ==
  /\ phase[r] = "attempting"
  /\ ~aborted[r]
  /\ IF r \in ImageRequest
     THEN Answered(r, Failed(breaker[At(r)]), "stopped")
     ELSE Fallback(r, Failed(breaker[At(r)]),
                   [notes[r] EXCEPT !.tried = TRUE, !.only = FALSE])

\* A :free alias is throttled, or the fault is one account's of an OAuth pool:
\* nothing is held against the alias.
AccountFault(r) ==
  /\ phase[r] = "attempting"
  /\ ~aborted[r]
  /\ r \notin ImageRequest
  /\ Fallback(r, Aborted(breaker[At(r)], r),
              [notes[r] EXCEPT !.tried = TRUE, !.only = FALSE])

\* The candidate cannot serve this request's history or protocol; another may.
Incompatible(r) ==
  /\ phase[r] = "attempting"
  /\ ~aborted[r]
  /\ r \notin ImageRequest
  /\ Fallback(r, Aborted(breaker[At(r)], r), [notes[r] EXCEPT !.tried = TRUE, !.pruned = TRUE])

\* The upstream's own token count says that the prompt does not fit: a skip,
\* before anything is attempted.  The signal is not looked at.
CountedTooLong(r) ==
  /\ phase[r] = "attempting"
  /\ r \notin ImageRequest
  /\ Fallback(r, Aborted(breaker[At(r)], r),
              [notes[r] EXCEPT !.pruned = TRUE, !.overflow = TRUE,
                               !.confirmed = IF @ < 2 THEN @ + 1 ELSE @])

Tick ==
  /\ \E a \in Alias : Aged(breaker[a]) # breaker[a]
  /\ breaker' = [a \in Alias |-> Aged(breaker[a])]
  /\ UNCHANGED <<phase, pos, probing, aborted, notes, answer>>

-----------------------------------------------------------------------------
Init ==
  /\ breaker = [a \in Alias |-> FreshEntry]
  /\ phase = [r \in Request |-> "idle"]
  /\ pos = [r \in Request |-> 1]
  /\ probing = [r \in Request |-> FALSE]
  /\ aborted = [r \in Request |-> FALSE]
  /\ notes = [r \in Request |-> NoNotes]
  /\ answer = [r \in Request |-> "none"]

Settle(r) ==
  \/ Succeed(r) \/ Cancelled(r) \/ Reject(r) \/ Stall(r) \/ Fault(r)
  \/ AccountFault(r) \/ Incompatible(r) \/ CountedTooLong(r)

Next ==
  \/ \E r \in Request : Start(r) \/ AbortSignal(r) \/ Settle(r)
  \/ Tick

Spec == Init /\ [][Next]_vars

(* Fairness: an attempt ends, one way or another, and the clock goes on.     *)
FairSpec == Spec /\ WF_vars(Tick) /\ \A r \in Request : WF_vars(Settle(r))

-----------------------------------------------------------------------------
(* Properties.                                                             *)

TypeOK ==
  /\ breaker \in [Alias -> Entry]
  /\ phase \in [Request -> {"idle", "attempting"}]
  /\ pos \in [Request -> Nat \ {0}]
  /\ probing \in [Request -> BOOLEAN]
  /\ aborted \in [Request -> BOOLEAN]
  /\ notes \in [Request -> Notes]
  /\ answer \in [Request -> Answer]

\* A breaker that turns requests away either cools down, or its lock is held by
\* a probe that is really in flight at that alias: no request ends, falls back
\* or skips the candidate and keeps the lock.
RefusalHasReason ==
  \A a \in Alias :
    ~Allows(breaker[a]) =>
      \/ breaker[a].state = "OPEN"
      \/ \E r \in Request : /\ breaker[a].probe = r
                            /\ phase[r] = "attempting" /\ probing[r] /\ At(r) = a

\* A probe keeps the lock until its own attempt is settled, unless the breaker
\* leaves HALF_OPEN: no late answer of an older attempt lets a second probe in.
LockKeptByOwner ==
  [][\A r \in Request, a \in Alias :
       /\ breaker[a].probe = r
       /\ UNCHANGED <<phase[r], pos[r]>>
       /\ breaker'[a].state = "HALF_OPEN"
       => breaker'[a].probe = r]_vars

\* While a breaker stays open its cooldown only runs down: failures of attempts
\* admitted earlier do not start it again.
CooldownRunsDown ==
  [][\A a \in Alias :
       breaker[a].state = "OPEN" /\ breaker'[a].state = "OPEN"
       => breaker'[a].opened >= breaker[a].opened]_vars

\* capability_unsatisfiable (422, do not retry) is answered only when waiting
\* could not help: each candidate of the chain is one the request cannot use,
\* and none was passed over for an open breaker or a missing provider.
UnsatisfiableIsFinal ==
  \A r \in Request :
    answer[r] = "capability_unsatisfiable" =>
      \A i \in DOMAIN Chain[r] : <<r, Chain[r][i]>> \in Incapable

\* An image request reaches at most one upstream: once its attempt has ended it
\* is answered, whatever the failure was.
ImageSentOnce ==
  [][\A r \in ImageRequest : phase[r] = "attempting" => pos'[r] = pos[r]]_vars

\* A client that goes away harms no upstream's record: an attempt that ends
\* after its signal aborted opens no breaker.
AbortOpensNothing ==
  [][\A r \in Request, a \in Alias :
       phase[r] = "attempting" /\ aborted[r] /\ phase'[r] = "idle"
       /\ breaker[a].state # "OPEN"
       => breaker'[a].state # "OPEN"]_vars

\* No alias is refused for ever.
RefusalEnds == \A a \in Alias : ~Allows(breaker[a]) ~> Allows(breaker[a])

=============================================================================
