--------------------------- MODULE CircuitBreaker ---------------------------
(***************************************************************************)
(* The circuit breaker of one routing alias (createCircuitBreaker): its    *)
(* entry and what each of the breaker's calls makes of it.  The modules    *)
(* that walk candidate chains keep one entry per alias.                    *)
(*                                                                         *)
(* A probe token is named by the attempt it was given to.  openedAt is     *)
(* kept as the time since then, counted up to the cooldown.                *)
(***************************************************************************)
EXTENDS Naturals

CONSTANTS Attempt,           \* those who ask canAttempt
          FailureThreshold,  \* config.failureThreshold
          Cooldown,          \* config.cooldownMs, in ticks
          NoToken            \* probeToken = null

ASSUME BreakerAssumption ==
  /\ FailureThreshold \in Nat \ {0}
  /\ Cooldown \in Nat
  /\ NoToken \notin Attempt

Entry == [state : {"CLOSED", "OPEN", "HALF_OPEN"},
          failures : 0..FailureThreshold,
          opened : 0..Cooldown,
          probe : Attempt \cup {NoToken}]

FreshEntry == [state |-> "CLOSED", failures |-> 0, opened |-> 0, probe |-> NoToken]

CooledDown(e) == e.state = "OPEN" /\ e.opened = Cooldown

\* canAttempt: allow, and whether the attempt is the probe.
Allows(e) ==
  \/ e.state = "CLOSED"
  \/ e.state = "HALF_OPEN" /\ e.probe = NoToken
  \/ CooledDown(e)

IsProbe(e) == Allows(e) /\ e.state # "CLOSED"

\* What an allowed canAttempt does to the entry: a probe takes the lock.
Attempted(e, x) ==
  IF IsProbe(e) THEN [e EXCEPT !.state = "HALF_OPEN", !.probe = x] ELSE e

Trip(e) == [e EXCEPT !.state = "OPEN", !.opened = 0, !.probe = NoToken]

\* Mutant: a failure of a breaker that is already open opens it afresh.
FailedAfresh(e) ==
  IF e.state # "CLOSED" \/ e.failures + 1 >= FailureThreshold
  THEN Trip([e EXCEPT !.failures = IF e.state = "CLOSED" THEN @ + 1 ELSE @])
  ELSE [e EXCEPT !.failures = @ + 1]

\* recordFailure.  A failure is not asked whose it is: in HALF_OPEN that of an
\* attempt admitted long before trips the breaker as the probe's own would.
Failed(e) ==
  CASE e.state = "OPEN" -> e
    [] e.state = "HALF_OPEN" -> Trip(e)
    [] e.state = "CLOSED" ->
         IF e.failures + 1 >= FailureThreshold
         THEN Trip([e EXCEPT !.failures = @ + 1])
         ELSE [e EXCEPT !.failures = @ + 1]

\* recordSuccess closes the breaker from any state.
Succeeded(e) == [e EXCEPT !.state = "CLOSED", !.failures = 0, !.probe = NoToken]

\* Mutants: anybody's abort releases the lock; nobody's does.
AbortedByAnyone(e, x) == IF e.state = "HALF_OPEN" THEN [e EXCEPT !.probe = NoToken] ELSE e
AbortedInVain(e, x) == e

\* recordAbort: only the owner of the lock releases it.
Aborted(e, x) ==
  IF e.state = "HALF_OPEN" /\ e.probe = x THEN [e EXCEPT !.probe = NoToken] ELSE e

\* A tick of the injected clock.
Aged(e) == IF e.state = "OPEN" /\ e.opened < Cooldown THEN [e EXCEPT !.opened = @ + 1] ELSE e

=============================================================================
