----------------------- MODULE FailoverExecutor_proofs -----------------------
(***************************************************************************)
(* Proofs about FailoverExecutor, for any requests, aliases and chains.    *)
(*                                                                         *)
(* The invariant that carries them is LockHeld: who holds a breaker's lock *)
(* is attempting that alias as its probe.  A step of one request settles   *)
(* one entry and hands locks to nobody but itself, which two lemmas say of *)
(* Settle and Walk once for all their cases.                               *)
(***************************************************************************)
EXTENDS FailoverExecutor, WellFoundedInduction, TLAPS

\* An attempt in flight is one of the chain's candidates.
InFlight == \A r \in Request : phase[r] = "attempting" => pos[r] \in DOMAIN Chain[r]

\* Who holds a lock is in flight with it.
LockHeld ==
  \A r \in Request, a \in Alias :
    breaker[a].probe = r =>
      breaker[a].state = "HALF_OPEN" /\ phase[r] = "attempting" /\ probing[r] /\ At(r) = a

\* Notes that speak of nothing but skips for good tell the truth about the
\* candidates before p.
Honest(r, n, p) ==
  ~n.tried /\ n.only /\ ~n.overflow => \A i \in 1..(p - 1) : <<r, Chain[r][i]>> \in Incapable

NotesHonest == \A r \in Request : phase[r] = "attempting" => Honest(r, notes[r], pos[r])

-----------------------------------------------------------------------------
\* A set of numbers that is not empty has a least one.
LEMMA LeastOfNumbers ==
  ASSUME NEW S, S \subseteq Nat, S # {}
  PROVE  \E i \in S : \A j \in S : i <= j
<1> DEFINE Less == OpToRel(<, Nat)
<1>1. \E i \in S : \A j \in S : ~ (<<j, i>> \in Less)
  BY NatLessThanWellFounded, WFMin
<1>2. \A i, j \in Nat : j < i => <<j, i>> \in Less
  BY DEF OpToRel
<1> HIDE DEF Less
<1>3. \A i, j \in Nat : ~(<<j, i>> \in Less) => i <= j
  BY <1>2
<1> QED
  BY <1>1, <1>3

\* NextUsable finds the first usable candidate or the end of the chain, and
\* nothing before it is usable.
LEMMA NextUsableFacts ==
  ASSUME NEW r \in Request, NEW b, NEW p \in 1..(Len(Chain[r]) + 1)
  PROVE  /\ NextUsable(r, p, b) \in p..(Len(Chain[r]) + 1)
         /\ NextUsable(r, p, b) <= Len(Chain[r]) => Usable(r, Chain[r][NextUsable(r, p, b)], b)
         /\ \A i \in p..(NextUsable(r, p, b) - 1) : ~Usable(r, Chain[r][i], b)
<1> DEFINE usable == {i \in p..Len(Chain[r]) : Usable(r, Chain[r][i], b)}
<1>1. Len(Chain[r]) \in Nat
  BY ExecutorAssumption
<1>2. CASE usable = {}
  <2>1. NextUsable(r, p, b) = Len(Chain[r]) + 1
    BY <1>2 DEF NextUsable
  <2> QED
    BY <1>1, <1>2, <2>1
<1>3. CASE usable # {}
  <2>1. \E i \in usable : \A j \in usable : i <= j
    <3>1. usable \subseteq Nat
      BY <1>1
    <3> QED
      BY <1>3, <3>1, LeastOfNumbers
  <2>2. NextUsable(r, p, b) = CHOOSE i \in usable : \A j \in usable : i <= j
    BY <1>3 DEF NextUsable
  <2>3. NextUsable(r, p, b) \in usable /\ \A j \in usable : NextUsable(r, p, b) <= j
    BY <2>1, <2>2
  <2> QED
    BY <1>1, <2>3
<1> QED
  BY <1>2, <1>3

-----------------------------------------------------------------------------
\* An entry that is closed has not failed often enough to trip.
SoundEntry == {e \in Entry : e.state = "CLOSED" => e.failures < FailureThreshold}

\* The calls of the breaker keep entries well formed, and closed ones below the
\* threshold.
LEMMA EntryTypes ==
  ASSUME NEW e \in SoundEntry, NEW x \in Attempt
  PROVE  /\ Attempted(e, x) \in SoundEntry /\ Aborted(e, x) \in SoundEntry
         /\ Succeeded(e) \in SoundEntry /\ Failed(e) \in SoundEntry /\ Aged(e) \in SoundEntry
<1> USE BreakerAssumption DEF Entry, SoundEntry
<1>1. 0 \in 0..FailureThreshold /\ 0 \in 0..Cooldown /\ 0 < FailureThreshold
  OBVIOUS
<1>2. e.failures < FailureThreshold => e.failures + 1 \in 0..FailureThreshold
  OBVIOUS
<1>3. e.opened < Cooldown => e.opened + 1 \in 0..Cooldown
  OBVIOUS
<1>4. Attempted(e, x) \in SoundEntry /\ Aborted(e, x) \in SoundEntry
  BY <1>1 DEF Attempted, Aborted
<1>5. Succeeded(e) \in SoundEntry
  BY <1>1 DEF Succeeded
<1>6. Aged(e) \in SoundEntry
  BY <1>3 DEF Aged
<1>7. Failed(e) \in SoundEntry
  <2>1. CASE e.state = "OPEN"
    BY <2>1 DEF Failed
  <2>2. CASE e.state = "HALF_OPEN"
    BY <2>2, <1>1 DEF Failed, Trip
  <2>3. CASE e.state = "CLOSED" /\ e.failures + 1 >= FailureThreshold
    <3>1. Failed(e) = Trip([e EXCEPT !.failures = e.failures + 1])
      BY <2>3 DEF Failed
    <3>2. [e EXCEPT !.failures = e.failures + 1] \in Entry
      BY <2>3, <1>2
    <3> QED
      BY <3>1, <3>2, <1>1 DEF Trip
  <2>4. CASE e.state = "CLOSED" /\ ~(e.failures + 1 >= FailureThreshold)
    <3>1. Failed(e) = [e EXCEPT !.failures = e.failures + 1]
      BY <2>4 DEF Failed
    <3> QED
      BY <2>4, <3>1, <1>2
  <2> QED
    BY <2>1, <2>2, <2>3, <2>4
<1> QED
  BY <1>4, <1>5, <1>6, <1>7

\* What the settlement of an attempt of r may make of the entry it was made with.
Settles(e, f, r) ==
  /\ f \in SoundEntry /\ f.probe # r
  /\ f.probe # NoToken => f.probe = e.probe /\ f.state = e.state
  /\ f.state = "HALF_OPEN" => e.state = "HALF_OPEN" /\ (e.probe # r => f = e)
  /\ f.state = "OPEN" => f = e \/ (e.state # "OPEN" /\ f.opened = 0)

\* Each of the breaker's reports is such a settlement; only a failure opens it.
LEMMA ReportsSettle ==
  ASSUME NEW e \in SoundEntry, NEW r \in Request, e.probe = r => e.state = "HALF_OPEN"
  PROVE  /\ Settles(e, Failed(e), r) /\ Settles(e, Succeeded(e), r) /\ Settles(e, Aborted(e, r), r)
         /\ \A f \in {Succeeded(e), Aborted(e, r)} : f.state = "OPEN" => e.state = "OPEN"
<1> USE BreakerAssumption, ExecutorAssumption
<1>1. r # NoToken /\ r \in Attempt
  OBVIOUS
<1>2. /\ Failed(e) \in SoundEntry /\ Succeeded(e) \in SoundEntry /\ Aborted(e, r) \in SoundEntry
  BY <1>1, EntryTypes
<1>3. Settles(e, Succeeded(e), r) /\ Succeeded(e).state = "CLOSED"
  BY <1>1, <1>2 DEF Settles, Succeeded, SoundEntry, Entry
<1>4. Settles(e, Aborted(e, r), r) /\ (Aborted(e, r).state = "OPEN" => e.state = "OPEN")
  BY <1>1, <1>2 DEF Settles, Aborted, SoundEntry, Entry
<1>5. Settles(e, Failed(e), r)
  <2>1. CASE e.state = "OPEN"
    BY <2>1, <1>1, <1>2 DEF Settles, Failed
  <2>2. CASE e.state = "HALF_OPEN"
    BY <2>2, <1>1, <1>2 DEF Settles, Failed, Trip, SoundEntry, Entry
  <2>3. CASE e.state = "CLOSED" /\ e.failures + 1 >= FailureThreshold
    BY <2>3, <1>1, <1>2 DEF Settles, Failed, Trip, SoundEntry, Entry
  <2>4. CASE e.state = "CLOSED" /\ ~(e.failures + 1 >= FailureThreshold)
    BY <2>4, <1>1, <1>2 DEF Settles, Failed, SoundEntry, Entry
  <2> QED
    BY <2>1, <2>2, <2>3, <2>4 DEF SoundEntry, Entry
<1> QED
  BY <1>3, <1>4, <1>5

\* What the walk of r may make of an entry: nothing, or it takes the lock, which
\* it may also release again.
Handed(e, f, r) ==
  \/ f = e
  \/ /\ IsProbe(e) /\ f.state = "HALF_OPEN" /\ f.probe \in {r, NoToken}

\* A skip and an attempt are such a change; a lock that r has now it took now.
LEMMA EntryHanded ==
  ASSUME NEW e \in SoundEntry, NEW r \in Attempt, e.probe # r
  PROVE  LET f == Aborted(Attempted(e, r), r)
         IN  /\ f \in SoundEntry /\ Handed(e, f, r) /\ f.probe # r
             /\ \A g \in {Attempted(e, r), Attempted(f, r)} :
                  g \in SoundEntry /\ Handed(e, g, r) /\ (g.probe = r => IsProbe(e))
<1> USE BreakerAssumption
<1>1. Attempted(e, r) \in SoundEntry
  BY EntryTypes
<1>2. Aborted(Attempted(e, r), r) \in SoundEntry
  BY <1>1, EntryTypes
<1>3. Attempted(Aborted(Attempted(e, r), r), r) \in SoundEntry
  BY <1>2, EntryTypes
<1> QED
  BY <1>1, <1>2, <1>3 DEF Handed, Attempted, Aborted, IsProbe, Allows, CooledDown, SoundEntry, Entry

-----------------------------------------------------------------------------
Entries == breaker \in [Alias -> SoundEntry]

\* The types of what the executor keeps of its requests.
Requests ==
  /\ phase \in [Request -> {"idle", "attempting"}]
  /\ pos \in [Request -> Nat \ {0}]
  /\ probing \in [Request -> BOOLEAN]
  /\ aborted \in [Request -> BOOLEAN]
  /\ notes \in [Request -> Notes]
  /\ answer \in [Request -> Answer]

\* Noting what was passed over keeps honest notes honest.
LEMMA NotedHonest ==
  ASSUME NEW r \in Request, NEW b, NEW p \in 1..(Len(Chain[r]) + 1), NEW n \in Notes, Honest(r, n, p)
  PROVE  /\ Noted(r, p, b, n) \in Notes
         /\ Honest(r, Noted(r, p, b, n), NextUsable(r, p, b))
<1> DEFINE i == NextUsable(r, p, b)
           m == Noted(r, p, b, n)
           passed == Passed(r, p, b)
           admitted == {a \in passed : Admitted(a, b)}
<1>1. Len(Chain[r]) \in Nat /\ i \in p..(Len(Chain[r]) + 1)
  BY ExecutorAssumption, NextUsableFacts
<1>2. /\ m \in Notes /\ m.tried = n.tried
      /\ m.only => n.only /\ passed = admitted
      /\ ~m.overflow => ~n.overflow
  BY DEF Noted, Notes
<1>3. ASSUME ~m.tried, m.only, ~m.overflow, NEW j \in 1..(i - 1)
      PROVE  <<r, Chain[r][j]>> \in Incapable
  <2>1. CASE j < p
    BY <1>1, <1>2, <1>3, <2>1 DEF Honest
  <2>2. CASE j >= p
    <3>1. j \in p..(i - 1) /\ Chain[r][j] \in passed
      BY <1>1, <2>2 DEF Passed
    <3>2. Admitted(Chain[r][j], b)
      BY <1>2, <1>3, <3>1
    <3>3. ~Usable(r, Chain[r][j], b)
      BY <3>1, NextUsableFacts
    <3> QED
      BY <3>2, <3>3 DEF Usable
  <2> QED
    BY <1>1, <2>1, <2>2
<1> QED
  BY <1>2, <1>3 DEF Honest

\* The verdict is an answer, and capability_unsatisfiable is given to honest
\* notes at the end of the chain only.
LEMMA VerdictFinal ==
  ASSUME NEW r \in Request, NEW n \in Notes
  PROVE  /\ Verdict(r, n) \in Answer
         /\ Verdict(r, n) = "capability_unsatisfiable" /\ Honest(r, n, Len(Chain[r]) + 1)
              => \A i \in DOMAIN Chain[r] : <<r, Chain[r][i]>> \in Incapable
<1>1. Len(Chain[r]) \in Nat /\ DOMAIN Chain[r] = 1..Len(Chain[r])
  BY ExecutorAssumption
<1>2. Chain[r] = <<>> \/ (Chain[r] # <<>> /\ (r \in ImageRequest \/ r \notin ImageRequest))
  OBVIOUS
<1>3. Verdict(r, n) \in Answer
  BY <1>2 DEF Verdict, Answer
<1>4. Verdict(r, n) = "capability_unsatisfiable" => ~n.tried /\ n.only /\ ~n.overflow
  BY <1>2 DEF Verdict
<1>5. (Len(Chain[r]) + 1) - 1 = Len(Chain[r])
  BY <1>1
<1> QED
  BY <1>1, <1>3, <1>4, <1>5 DEF Honest

\* A walk of r from candidate p on, with breakers in which r holds no lock.
LEMMA WalkMoves ==
  ASSUME Requests, NEW r \in Request, NEW p \in 1..(Len(Chain[r]) + 1),
         NEW b \in [Alias -> SoundEntry], \A a \in Alias : b[a].probe # r,
         NEW n \in Notes, Honest(r, n, p), Walk(r, p, b, n)
  PROVE  /\ Requests' /\ Entries'
         /\ \A a \in Alias : Handed(b[a], breaker'[a], r)
         /\ \A a \in Alias : breaker'[a].probe = r
              => phase'[r] = "attempting" /\ probing'[r] /\ Chain[r][pos'[r]] = a
         /\ phase'[r] = "attempting" =>
              /\ pos'[r] \in DOMAIN Chain[r] /\ pos'[r] >= p
              /\ Honest(r, notes'[r], pos'[r])
         /\ answer'[r] = "capability_unsatisfiable" =>
              \A i \in DOMAIN Chain[r] : <<r, Chain[r][i]>> \in Incapable
         /\ \A q \in Request \ {r} :
              /\ phase'[q] = phase[q] /\ pos'[q] = pos[q] /\ probing'[q] = probing[q]
              /\ aborted'[q] = aborted[q] /\ notes'[q] = notes[q] /\ answer'[q] = answer[q]
         /\ phase'[r] = "idle" => pos'[r] = pos[r]
<1> DEFINE i == NextUsable(r, p, b)
           skipped == AfterSkips(r, p, b)
           after == Noted(r, p, b, n)
<1>1. Len(Chain[r]) \in Nat /\ DOMAIN Chain[r] = 1..Len(Chain[r]) /\ r \in Attempt
  BY ExecutorAssumption
<1>2. i \in p..(Len(Chain[r]) + 1)
  BY NextUsableFacts
<1>3. after \in Notes /\ Honest(r, after, i)
  BY NotedHonest
<1>4. \A a \in Alias : skipped[a] \in {b[a], Aborted(Attempted(b[a], r), r)}
  BY DEF AfterSkips
<1>5. skipped \in [Alias -> SoundEntry]
  <2>1. \A a \in Alias : skipped[a] \in SoundEntry
    BY <1>1, <1>4, EntryHanded
  <2> QED
    BY <2>1 DEF AfterSkips
<1>6. \A a \in Alias : Handed(b[a], skipped[a], r) /\ skipped[a].probe # r
  <2>1. \A a \in Alias : Handed(b[a], b[a], r)
    BY DEF Handed
  <2> QED
    BY <1>1, <1>4, <2>1, EntryHanded
<1>7. \A a \in Alias : /\ Attempted(skipped[a], r) \in SoundEntry
                       /\ Handed(b[a], Attempted(skipped[a], r), r)
                       /\ Attempted(skipped[a], r).probe = r => IsProbe(b[a])
  <2> TAKE a \in Alias
  <2>1. b[a] \in SoundEntry /\ b[a].probe # r
    OBVIOUS
  <2> QED
    BY <1>1, <1>4, <2>1, EntryHanded
<1> HIDE DEF i, skipped, after
<1>8. CASE i <= Len(Chain[r])
  <2> DEFINE a == Chain[r][i]
  <2>1. /\ breaker' = [skipped EXCEPT ![a] = Attempted(skipped[a], r)]
        /\ phase' = [phase EXCEPT ![r] = "attempting"] /\ pos' = [pos EXCEPT ![r] = i]
        /\ probing' = [probing EXCEPT ![r] = IsProbe(b[a])]
        /\ notes' = [notes EXCEPT ![r] = after] /\ answer' = [answer EXCEPT ![r] = "none"]
        /\ UNCHANGED aborted
    BY <1>8 DEF Walk, i, skipped, after
  <2>2. i \in DOMAIN Chain[r] /\ i >= p /\ i \in Nat \ {0} /\ a \in Alias
    <3>1. i \in 1..Len(Chain[r])
      BY <1>1, <1>2, <1>8
    <3> QED
      BY <1>1, <1>2, <3>1, ExecutorAssumption
  <2> HIDE DEF a
  <2>3. breaker'[a] = Attempted(skipped[a], r) /\ \A c \in Alias \ {a} : breaker'[c] = skipped[c]
    BY <1>5, <2>1, <2>2
  <2>4. Entries'
    BY <1>5, <1>7, <2>1 DEF Entries
  <2>5. \A c \in Alias : Handed(b[c], breaker'[c], r)
    BY <1>6, <1>7, <2>2, <2>3
  <2>6. probing'[r] = IsProbe(b[a]) /\ phase'[r] = "attempting" /\ pos'[r] = i /\ notes'[r] = after
        /\ answer'[r] = "none"
    BY <2>1 DEF Requests
  <2>7. \A c \in Alias : breaker'[c].probe = r => c = a /\ probing'[r]
    BY <1>6, <1>7, <2>2, <2>3, <2>6
  <2>8. IsProbe(b[a]) \in BOOLEAN /\ "none" \in Answer
    BY DEF IsProbe, Answer
  <2>9. Requests'
    BY <1>3, <2>1, <2>2, <2>8 DEF Requests
  <2>10. \A q \in Request \ {r} :
              /\ phase'[q] = phase[q] /\ pos'[q] = pos[q] /\ probing'[q] = probing[q]
              /\ aborted'[q] = aborted[q] /\ notes'[q] = notes[q] /\ answer'[q] = answer[q]
    BY <2>1 DEF Requests
  <2> QED
    BY <1>3, <2>2, <2>4, <2>5, <2>6, <2>7, <2>9, <2>10 DEF a
<1>9. CASE ~(i <= Len(Chain[r]))
  <2>1. breaker' = skipped /\ Finish(r, Verdict(r, after))
    BY <1>9 DEF Walk, i, skipped, after
  <2>2. i = Len(Chain[r]) + 1
    BY <1>1, <1>2, <1>9
  <2>3. /\ Verdict(r, after) \in Answer
        /\ Verdict(r, after) = "capability_unsatisfiable" =>
             \A j \in DOMAIN Chain[r] : <<r, Chain[r][j]>> \in Incapable
    BY <1>3, <2>2, VerdictFinal
  <2>4. NoNotes \in Notes
    BY DEF NoNotes, Notes
  <2>5. Requests' /\ phase'[r] = "idle" /\ answer'[r] = Verdict(r, after) /\ pos' = pos
    BY <2>1, <2>3, <2>4 DEF Finish, Requests
  <2>6. \A q \in Request \ {r} :
              /\ phase'[q] = phase[q] /\ pos'[q] = pos[q] /\ probing'[q] = probing[q]
              /\ aborted'[q] = aborted[q] /\ notes'[q] = notes[q] /\ answer'[q] = answer[q]
    BY <2>1 DEF Finish, Requests
  <2> QED
    BY <1>5, <1>6, <2>1, <2>3, <2>5, <2>6 DEF Entries
<1> QED
  BY <1>1, <1>2, <1>8, <1>9

-----------------------------------------------------------------------------
\* Every settlement of an attempt reports to its breaker once, and then answers
\* the request or goes on with notes that are honest about the candidate tried.
\* After an abort it opens no breaker.
LEMMA SettleShape ==
  ASSUME Entries, Requests, InFlight, LockHeld, NotesHonest, NEW r \in Request, Settle(r)
  PROVE  /\ phase[r] = "attempting"
         /\ \E e \in SoundEntry :
              /\ Settles(breaker[At(r)], e, r)
              /\ aborted[r] /\ e.state = "OPEN" => breaker[At(r)].state = "OPEN"
              /\ \/ \E what \in {"ok", "stopped"} : Answered(r, e, what)
                 \/ /\ r \notin ImageRequest
                    /\ \E n \in Notes : Honest(r, n, pos[r] + 1) /\ Fallback(r, e, n)
<1>1. phase[r] = "attempting"
  BY DEF Settle, Succeed, Cancelled, Reject, Stall, Fault, AccountFault, Incompatible, CountedTooLong
<1>2. At(r) \in Alias /\ pos[r] \in DOMAIN Chain[r]
  BY <1>1, ExecutorAssumption DEF InFlight, At
<1>0. notes[r] \in Notes
  BY DEF Requests
<1> DEFINE was == breaker[At(r)]
<1>3. was \in SoundEntry /\ (was.probe = r => was.state = "HALF_OPEN")
  BY <1>2 DEF Entries, LockHeld
<1> HIDE DEF was
<1>4. /\ Failed(was) \in SoundEntry /\ Settles(was, Failed(was), r)
      /\ \A e \in {Succeeded(was), Aborted(was, r)} :
           e \in SoundEntry /\ Settles(was, e, r) /\ (e.state = "OPEN" => was.state = "OPEN")
  BY <1>3, ReportsSettle DEF Settles
<1>5. /\ [notes[r] EXCEPT !.tried = TRUE, !.only = FALSE] \in Notes
      /\ [notes[r] EXCEPT !.tried = TRUE, !.pruned = TRUE] \in Notes
      /\ [notes[r] EXCEPT !.pruned = TRUE, !.overflow = TRUE,
                               !.confirmed = IF notes[r].confirmed < 2 THEN notes[r].confirmed + 1
                                                                       ELSE notes[r].confirmed] \in Notes
  <2>1. notes[r].confirmed < 2 => notes[r].confirmed + 1 \in 0..2
    BY <1>0 DEF Notes
  <2> QED
    BY <1>0, <2>1 DEF Notes
<1>6. /\ Honest(r, [notes[r] EXCEPT !.tried = TRUE, !.only = FALSE], pos[r] + 1)
      /\ Honest(r, [notes[r] EXCEPT !.tried = TRUE, !.pruned = TRUE], pos[r] + 1)
      /\ Honest(r, [notes[r] EXCEPT !.pruned = TRUE, !.overflow = TRUE,
                               !.confirmed = IF notes[r].confirmed < 2 THEN notes[r].confirmed + 1
                                                                       ELSE notes[r].confirmed], pos[r] + 1)
  BY <1>0 DEF Notes, Honest
<1>7. CASE Succeed(r)
  BY <1>1, <1>4, <1>7 DEF Succeed, was
<1>8. CASE Cancelled(r)
  BY <1>1, <1>4, <1>8 DEF Cancelled, was
<1>9. CASE Reject(r)
  BY <1>1, <1>4, <1>9 DEF Reject, was
<1>10. CASE Stall(r)
  BY <1>1, <1>4, <1>10 DEF Stall, was
<1>11. CASE Fault(r)
  BY <1>1, <1>4, <1>5, <1>6, <1>11 DEF Fault, was
<1>12. CASE AccountFault(r)
  BY <1>1, <1>4, <1>5, <1>6, <1>12 DEF AccountFault, was
<1>13. CASE Incompatible(r)
  BY <1>1, <1>4, <1>5, <1>6, <1>13 DEF Incompatible, was
<1>14. CASE CountedTooLong(r)
  BY <1>1, <1>4, <1>5, <1>6, <1>14 DEF CountedTooLong, was
<1> QED
  BY <1>7, <1>8, <1>9, <1>10, <1>11, <1>12, <1>13, <1>14 DEF Settle

\* Breakers b, as a step of r finds or leaves them before it walks on.
Settled(b, r) ==
  /\ b \in [Alias -> SoundEntry]
  /\ \A a \in Alias : /\ b[a].probe # r
                      /\ b[a] = breaker[a] \/ Settles(breaker[a], b[a], r)

\* A step of r leaves the locks of the others with them.
LEMMA LocksMove ==
  ASSUME LockHeld, NEW r \in Request, NEW b, Settled(b, r),
         \A a \in Alias : Handed(b[a], breaker'[a], r),
         \A a \in Alias : breaker'[a].probe = r
           => phase'[r] = "attempting" /\ probing'[r] /\ Chain[r][pos'[r]] = a,
         \A q \in Request \ {r} :
           phase'[q] = phase[q] /\ pos'[q] = pos[q] /\ probing'[q] = probing[q]
  PROVE  LockHeld'
<1> SUFFICES ASSUME NEW q \in Request, NEW a \in Alias, breaker'[a].probe = q
             PROVE  /\ breaker'[a].state = "HALF_OPEN" /\ phase'[q] = "attempting" /\ probing'[q]
                    /\ Chain[q][pos'[q]] = a
  BY DEF LockHeld, At
<1>0. q # NoToken
  BY BreakerAssumption, ExecutorAssumption
<1>1. CASE q = r
  BY <1>1 DEF Handed, Settled
<1>2. CASE q # r
  <2>1. breaker'[a] = b[a]
    BY <1>0, <1>2 DEF Handed
  <2>2. breaker[a].probe = q /\ breaker[a].state = b[a].state
    BY <1>0, <2>1 DEF Settled, Settles
  <2> QED
    BY <1>2, <2>1, <2>2 DEF LockHeld, At
<1> QED
  BY <1>1, <1>2

Inv == Entries /\ Requests /\ InFlight /\ LockHeld /\ NotesHonest /\ UnsatisfiableIsFinal

\* A request that walks, from the start of the chain or after an attempt.
LEMMA InvWalk ==
  ASSUME Inv, NEW r \in Request, NEW p \in 1..(Len(Chain[r]) + 1), NEW b, Settled(b, r),
         NEW n \in Notes, Honest(r, n, p), Walk(r, p, b, n)
  PROVE  Inv'
<1> USE DEF Inv
<1>1. b \in [Alias -> SoundEntry] /\ \A a \in Alias : b[a].probe # r
  BY DEF Settled
<1>2. /\ Requests' /\ Entries'
      /\ \A a \in Alias : Handed(b[a], breaker'[a], r)
      /\ \A a \in Alias : breaker'[a].probe = r
              => phase'[r] = "attempting" /\ probing'[r] /\ Chain[r][pos'[r]] = a
      /\ phase'[r] = "attempting" =>
              /\ pos'[r] \in DOMAIN Chain[r] /\ pos'[r] >= p
              /\ Honest(r, notes'[r], pos'[r])
      /\ answer'[r] = "capability_unsatisfiable" =>
              \A i \in DOMAIN Chain[r] : <<r, Chain[r][i]>> \in Incapable
      /\ \A q \in Request \ {r} :
              /\ phase'[q] = phase[q] /\ pos'[q] = pos[q] /\ probing'[q] = probing[q]
              /\ aborted'[q] = aborted[q] /\ notes'[q] = notes[q] /\ answer'[q] = answer[q]
  BY <1>1, WalkMoves
<1>3. LockHeld'
  BY <1>2, LocksMove
<1>4. InFlight' /\ NotesHonest' /\ UnsatisfiableIsFinal'
  BY <1>2 DEF InFlight, NotesHonest, UnsatisfiableIsFinal
<1> QED
  BY <1>2, <1>3, <1>4

LEMMA InvAnswered ==
  ASSUME Inv, NEW r \in Request, NEW e \in SoundEntry, Settles(breaker[At(r)], e, r),
         phase[r] = "attempting", NEW what \in {"ok", "stopped"}, Answered(r, e, what)
  PROVE  Inv'
<1> USE DEF Inv
<1>1. At(r) \in Alias
  BY ExecutorAssumption DEF InFlight, At
<1> DEFINE b == [breaker EXCEPT ![At(r)] = e]
<1>2. \A a \in Alias \ {At(r)} : breaker[a].probe # r
  BY DEF LockHeld
<1>3. Settled(b, r)
  BY <1>1, <1>2 DEF Settled, Entries, Settles
<1>4. breaker' = b /\ Finish(r, what) /\ NoNotes \in Notes /\ what \in Answer
  BY DEF Answered, NoNotes, Notes, Answer
<1> HIDE DEF b
<1>5. Entries' /\ Requests'
  BY <1>3, <1>4 DEF Settled, Entries, Requests, Finish
<1>6. LockHeld'
  <2>1. \A a \in Alias : Handed(b[a], breaker'[a], r) /\ breaker'[a].probe # r
    BY <1>3, <1>4 DEF Handed, Settled
  <2>2. \A q \in Request \ {r} : phase'[q] = phase[q] /\ pos'[q] = pos[q] /\ probing'[q] = probing[q]
    BY <1>4 DEF Finish, Requests
  <2> QED
    BY <1>3, <2>1, <2>2, LocksMove
<1>7. InFlight' /\ NotesHonest' /\ UnsatisfiableIsFinal'
  BY <1>4 DEF Finish, Requests, InFlight, NotesHonest, UnsatisfiableIsFinal
<1> QED
  BY <1>5, <1>6, <1>7

\* A request arrives: it holds no lock and has noted nothing.
LEMMA InvStart == ASSUME Inv, NEW r \in Request, Start(r) PROVE Inv'
<1>1. Settled(breaker, r)
  BY DEF Inv, Entries, Settled, LockHeld, Start
<1>2. 1 \in 1..(Len(Chain[r]) + 1) /\ NoNotes \in Notes /\ Honest(r, NoNotes, 1)
  <2>1. Len(Chain[r]) \in Nat
    BY ExecutorAssumption
  <2> QED
    BY <2>1 DEF NoNotes, Notes, Honest
<1> QED
  BY <1>1, <1>2, InvWalk DEF Start

\* An attempt ends.
LEMMA InvSettle == ASSUME Inv, NEW r \in Request, Settle(r) PROVE Inv'
<1> USE DEF Inv
<1>1. phase[r] = "attempting"
  BY SettleShape
<1>2. PICK e \in SoundEntry :
        /\ Settles(breaker[At(r)], e, r)
        /\ \/ \E what \in {"ok", "stopped"} : Answered(r, e, what)
           \/ \E n \in Notes : Honest(r, n, pos[r] + 1) /\ Fallback(r, e, n)
  BY SettleShape
<1>3. CASE \E what \in {"ok", "stopped"} : Answered(r, e, what)
  BY <1>1, <1>2, <1>3, InvAnswered
<1>4. ASSUME NEW n \in Notes, Honest(r, n, pos[r] + 1), Fallback(r, e, n)
      PROVE  Inv'
  <2> DEFINE b == [breaker EXCEPT ![At(r)] = e]
  <2>1. At(r) \in Alias /\ pos[r] \in 1..Len(Chain[r]) /\ Len(Chain[r]) \in Nat
    BY <1>1, ExecutorAssumption DEF InFlight, At
  <2>2. \A a \in Alias \ {At(r)} : breaker[a].probe # r
    BY DEF LockHeld
  <2>3. Settled(b, r)
    BY <1>2, <2>1, <2>2 DEF Settled, Entries, Settles
  <2>4. pos[r] + 1 \in 1..(Len(Chain[r]) + 1)
    BY <2>1
  <2>5. Walk(r, pos[r] + 1, b, n)
    BY <1>4 DEF Fallback
  <2> HIDE DEF b
  <2> QED
    BY <1>4, <2>3, <2>4, <2>5, InvWalk
<1> QED
  BY <1>2, <1>3, <1>4

LEMMA InvStep == Inv /\ [Next]_vars => Inv'
<1> SUFFICES ASSUME Inv, [Next]_vars PROVE Inv'
  OBVIOUS
<1> USE DEF Inv
<1>1. ASSUME NEW r \in Request, AbortSignal(r) PROVE Inv'
  <2>1. aborted' \in [Request -> BOOLEAN] /\ UNCHANGED <<breaker, phase, pos, probing, notes, answer>>
    BY <1>1 DEF AbortSignal, Requests
  <2> QED
    <3>1. Entries' /\ Requests' /\ InFlight' /\ UnsatisfiableIsFinal'
      BY <2>1 DEF Entries, Requests, InFlight, UnsatisfiableIsFinal
    <3>2. LockHeld'
      BY <2>1 DEF LockHeld, At
    <3>3. NotesHonest'
      BY <2>1 DEF NotesHonest, Honest
    <3> QED
      BY <3>1, <3>2, <3>3
<1>2. CASE Tick
  <2>1. UNCHANGED <<phase, pos, probing, aborted, notes, answer>>
    BY <1>2 DEF Tick
  <2>2. \A a \in Alias : breaker'[a] = Aged(breaker[a])
    BY <1>2 DEF Tick
  <2>3. ASSUME NEW e \in SoundEntry
        PROVE  Aged(e) \in SoundEntry /\ Aged(e).probe = e.probe /\ Aged(e).state = e.state
    <3>1. Aged(e) \in SoundEntry
      <4>1. e.opened < Cooldown => e.opened + 1 \in 0..Cooldown
        BY BreakerAssumption DEF SoundEntry, Entry
      <4> QED
        BY <4>1 DEF Aged, SoundEntry, Entry
    <3> QED
      BY <3>1 DEF Aged, SoundEntry, Entry
  <2>4. Entries'
    BY <1>2, <2>3 DEF Tick, Entries
  <2>5. LockHeld'
    BY <2>1, <2>2, <2>3 DEF LockHeld, Entries, At
  <2> QED
    BY <2>1, <2>4, <2>5 DEF Requests, InFlight, NotesHonest, UnsatisfiableIsFinal, Honest
<1>3. CASE UNCHANGED vars
  BY <1>3 DEF vars, Entries, Requests, InFlight, LockHeld, NotesHonest, UnsatisfiableIsFinal, At, Honest
<1> QED
  BY <1>1, <1>2, <1>3, InvStart, InvSettle DEF Next

LEMMA InvInit == Init => Inv
<1> SUFFICES ASSUME Init PROVE Inv
  OBVIOUS
<1>1. FreshEntry \in SoundEntry /\ FreshEntry.probe = NoToken
  <2>1. 0 \in 0..FailureThreshold /\ 0 \in 0..Cooldown /\ 0 < FailureThreshold
    BY BreakerAssumption
  <2> QED
    BY <2>1 DEF FreshEntry, SoundEntry, Entry
<1>2. Entries
  BY <1>1 DEF Init, Entries
<1>3. \A r \in Request : r # NoToken
  BY BreakerAssumption, ExecutorAssumption
<1>4. LockHeld
  BY <1>1, <1>3 DEF Init, LockHeld
<1>5. Requests
  BY DEF Init, Requests, Notes, NoNotes, Answer
<1> QED
  BY <1>2, <1>4, <1>5 DEF Inv, Init, InFlight, NotesHonest, UnsatisfiableIsFinal

\* The inductive invariant, of every state of every behaviour.
THEOREM Invariant == Spec => []Inv
  BY InvInit, InvStep, PTL DEF Spec

\* Breakers and what is kept of requests keep their types.
THEOREM TypeCorrect == Spec => []TypeOK
<1>1. Inv => TypeOK
  BY DEF Inv, Entries, SoundEntry, Requests, TypeOK
<1> QED
  BY <1>1, Invariant, PTL

\* createCircuitBreaker and execute(): a breaker that refuses is cooling down, or
\* a probe in flight at its alias holds the lock.
THEOREM RefusalsHaveReasons == Spec => []RefusalHasReason
<1>1. Inv => RefusalHasReason
  <2> SUFFICES ASSUME Inv, NEW a \in Alias, ~Allows(breaker[a]), breaker[a].state # "OPEN"
               PROVE  \E r \in Request : /\ breaker[a].probe = r
                                         /\ phase[r] = "attempting" /\ probing[r] /\ At(r) = a
    BY DEF RefusalHasReason
  <2>1. breaker[a].probe \in Request
    BY ExecutorAssumption DEF Inv, Entries, SoundEntry, Entry, Allows
  <2> QED
    BY <2>1 DEF Inv, LockHeld
<1> QED
  BY <1>1, Invariant, PTL

\* execute() answers capability_unsatisfiable only when no candidate of the chain
\* could ever serve the request.
THEOREM UnsatisfiableAlwaysFinal == Spec => []UnsatisfiableIsFinal
<1>1. Inv => UnsatisfiableIsFinal
  BY DEF Inv
<1> QED
  BY <1>1, Invariant, PTL

-----------------------------------------------------------------------------
\* What a step of r does, in one formula for the action properties: it settles,
\* then walks; it is over or further on; an aborted attempt opens nothing.
MovesBy(b, r) ==
  /\ Settled(b, r)
  /\ \A a \in Alias : Handed(b[a], breaker'[a], r)
  /\ \A q \in Request \ {r} : phase'[q] = phase[q] /\ pos'[q] = pos[q]
  /\ phase[r] = "attempting" =>
       /\ phase'[r] = "idle" \/ pos'[r] # pos[r]
       /\ r \in ImageRequest => pos'[r] = pos[r]
       /\ aborted[r] => \A a \in Alias : b[a].state = "OPEN" => breaker[a].state = "OPEN"

LEMMA EveryMove ==
  ASSUME Inv, NEW r \in Request, Start(r) \/ Settle(r)
  PROVE  \E b : MovesBy(b, r)
<1> USE DEF Inv
<1>1. CASE Start(r)
  <2>1. Settled(breaker, r)
    BY <1>1 DEF Entries, Settled, LockHeld, Start
  <2>2. 1 \in 1..(Len(Chain[r]) + 1) /\ NoNotes \in Notes /\ Honest(r, NoNotes, 1)
    <3>1. Len(Chain[r]) \in Nat
      BY ExecutorAssumption
    <3> QED
      BY <3>1 DEF NoNotes, Notes, Honest
  <2>3. Walk(r, 1, breaker, NoNotes) /\ phase[r] = "idle"
    BY <1>1 DEF Start
  <2>4. /\ \A a \in Alias : Handed(breaker[a], breaker'[a], r)
        /\ \A q \in Request \ {r} : phase'[q] = phase[q] /\ pos'[q] = pos[q]
    BY <2>1, <2>2, <2>3, WalkMoves DEF Settled
  <2> QED
    BY <2>1, <2>3, <2>4 DEF MovesBy
<1>2. CASE Settle(r)
  <2>1. phase[r] = "attempting"
    BY <1>2, SettleShape
  <2>2. PICK e \in SoundEntry :
          /\ Settles(breaker[At(r)], e, r)
          /\ aborted[r] /\ e.state = "OPEN" => breaker[At(r)].state = "OPEN"
          /\ \/ \E what \in {"ok", "stopped"} : Answered(r, e, what)
             \/ /\ r \notin ImageRequest
                /\ \E n \in Notes : Honest(r, n, pos[r] + 1) /\ Fallback(r, e, n)
    BY <1>2, SettleShape
  <2> DEFINE b == [breaker EXCEPT ![At(r)] = e]
  <2>3. At(r) \in Alias /\ pos[r] \in 1..Len(Chain[r]) /\ Len(Chain[r]) \in Nat
    BY <2>1, ExecutorAssumption DEF InFlight, At
  <2>4. \A a \in Alias \ {At(r)} : breaker[a].probe # r
    BY DEF LockHeld
  <2>5. Settled(b, r)
    BY <2>2, <2>3, <2>4 DEF Settled, Entries, Settles
  <2>6. aborted[r] => \A a \in Alias : b[a].state = "OPEN" => breaker[a].state = "OPEN"
    BY <2>2, <2>3 DEF Entries
  <2>7. ASSUME NEW what, Answered(r, e, what) PROVE MovesBy(b, r)
    <3>1. \A a \in Alias : Handed(b[a], breaker'[a], r)
      BY <2>7 DEF Answered, Handed
    <3>2. phase' = [phase EXCEPT ![r] = "idle"] /\ pos' = pos
      BY <2>7 DEF Answered, Finish
    <3>3. phase'[r] = "idle" /\ \A q \in Request \ {r} : phase'[q] = phase[q] /\ pos'[q] = pos[q]
      BY <3>2 DEF Requests
    <3> HIDE DEF b
    <3> QED
      BY <2>5, <2>6, <3>1, <3>2, <3>3 DEF MovesBy
  <2>8. ASSUME r \notin ImageRequest, NEW n \in Notes, Honest(r, n, pos[r] + 1), Fallback(r, e, n)
        PROVE  MovesBy(b, r)
    <3>1. pos[r] + 1 \in 1..(Len(Chain[r]) + 1)
      BY <2>3
    <3>2. Walk(r, pos[r] + 1, b, n)
      BY <2>8 DEF Fallback
    <3> HIDE DEF b
    <3>3. /\ Requests'
          /\ \A a \in Alias : Handed(b[a], breaker'[a], r)
          /\ phase'[r] = "attempting" => pos'[r] >= pos[r] + 1
          /\ \A q \in Request \ {r} : phase'[q] = phase[q] /\ pos'[q] = pos[q]
      BY <2>5, <2>8, <3>1, <3>2, WalkMoves DEF Settled
    <3>4. phase'[r] = "idle" \/ pos'[r] # pos[r]
      BY <2>3, <3>3 DEF Requests
    <3> QED
      BY <2>5, <2>6, <2>8, <3>3, <3>4 DEF MovesBy
  <2> QED
    BY <2>2, <2>7, <2>8
<1> QED
  BY <1>1, <1>2

\* The other steps leave locks, phases and positions, and open nothing.
LEMMA OtherSteps ==
  ASSUME Inv, Tick \/ UNCHANGED vars \/ \E r \in Request : AbortSignal(r)
  PROVE  /\ UNCHANGED <<phase, pos>>
         /\ \A a \in Alias : /\ breaker'[a].probe = breaker[a].probe
                             /\ breaker'[a].state = breaker[a].state
                             /\ breaker'[a].opened >= breaker[a].opened
<1>1. \A a \in Alias : breaker[a] \in Entry
  BY DEF Inv, Entries, SoundEntry
<1>2. \A a \in Alias : breaker[a].opened \in Nat /\ breaker[a].opened >= breaker[a].opened
                         /\ breaker[a].opened + 1 >= breaker[a].opened
  BY <1>1, BreakerAssumption DEF Entry
<1>3. CASE Tick
  <2>1. UNCHANGED <<phase, pos>> /\ \A a \in Alias : breaker'[a] = Aged(breaker[a])
    BY <1>3 DEF Tick
  <2> QED
    BY <1>1, <1>2, <2>1 DEF Aged, Entry
<1>4. CASE UNCHANGED vars \/ \E r \in Request : AbortSignal(r)
  BY <1>2, <1>4 DEF vars, AbortSignal
<1> QED
  BY <1>3, <1>4

\* runImageChain: an image request has one attempt, and no step gives it another.
THEOREM ImagesSentOnce == Spec => ImageSentOnce
<1>1. Inv /\ [Next]_vars
        => [\A r \in ImageRequest : phase[r] = "attempting" => pos'[r] = pos[r]]_vars
  <2> SUFFICES ASSUME Inv, [Next]_vars, NEW r \in ImageRequest, phase[r] = "attempting"
               PROVE  pos'[r] = pos[r]
    OBVIOUS
  <2>1. r \in Request
    BY ExecutorAssumption
  <2>2. ASSUME NEW q \in Request, NEW b, MovesBy(b, q) PROVE pos'[r] = pos[r]
    BY <2>1, <2>2 DEF MovesBy
  <2> QED
    BY <2>2, EveryMove, OtherSteps DEF Next
<1> QED
  BY <1>1, Invariant, PTL DEF Spec, ImageSentOnce

\* recordFailure on an open breaker: the cooldown goes on.
THEOREM CooldownsRunDown == Spec => CooldownRunsDown
<1>1. Inv /\ [Next]_vars
        => [\A a \in Alias : breaker[a].state = "OPEN" /\ breaker'[a].state = "OPEN"
                               => breaker'[a].opened >= breaker[a].opened]_vars
  <2> SUFFICES ASSUME Inv, [Next]_vars, NEW a \in Alias,
                      breaker[a].state = "OPEN", breaker'[a].state = "OPEN"
               PROVE  breaker'[a].opened >= breaker[a].opened
    OBVIOUS
  <2>1. breaker[a].opened \in Nat /\ breaker[a].opened >= breaker[a].opened
    BY BreakerAssumption DEF Inv, Entries, SoundEntry, Entry
  <2>2. ASSUME NEW q \in Request, NEW b, MovesBy(b, q) PROVE breaker'[a] = breaker[a]
    BY <2>2 DEF MovesBy, Handed, Settled, Settles
  <2> QED
    BY <2>1, <2>2, EveryMove, OtherSteps DEF Next
<1> QED
  BY <1>1, Invariant, PTL DEF Spec, CooldownRunsDown

\* recordAbort: what ends after its signal aborted opens no breaker.
THEOREM AbortsOpenNothing == Spec => AbortOpensNothing
<1>1. Inv /\ [Next]_vars
        => [\A r \in Request, a \in Alias :
              phase[r] = "attempting" /\ aborted[r] /\ phase'[r] = "idle"
              /\ breaker[a].state # "OPEN"
              => breaker'[a].state # "OPEN"]_vars
  <2> SUFFICES ASSUME Inv, [Next]_vars, NEW r \in Request, NEW a \in Alias,
                      phase[r] = "attempting", aborted[r], phase'[r] = "idle",
                      breaker[a].state # "OPEN"
               PROVE  breaker'[a].state # "OPEN"
    OBVIOUS
  <2>1. ASSUME NEW q \in Request, NEW b, MovesBy(b, q) PROVE breaker'[a].state # "OPEN"
    <3>1. q = r
      BY <2>1 DEF MovesBy
    <3> QED
      BY <2>1, <3>1 DEF MovesBy, Handed
  <2> QED
    BY <2>1, EveryMove, OtherSteps DEF Next
<1> QED
  BY <1>1, Invariant, PTL DEF Spec, AbortOpensNothing

\* The lock of a probe stays its own until its attempt is settled, if a breaker
\* that trips cools down for some time: with no cooldown at all, the late failure
\* that trips it could be followed by a new probe in the same step.
THEOREM LocksKept ==
  ASSUME Cooldown # 0
  PROVE  Spec => LockKeptByOwner
<1>1. Inv /\ [Next]_vars
        => [\A r \in Request, a \in Alias :
              /\ breaker[a].probe = r
              /\ UNCHANGED <<phase[r], pos[r]>>
              /\ breaker'[a].state = "HALF_OPEN"
              => breaker'[a].probe = r]_vars
  <2> SUFFICES ASSUME Inv, [Next]_vars, NEW r \in Request, NEW a \in Alias,
                      breaker[a].probe = r, UNCHANGED <<phase[r], pos[r]>>,
                      breaker'[a].state = "HALF_OPEN"
               PROVE  breaker'[a].probe = r
    OBVIOUS
  <2>1. breaker[a].state = "HALF_OPEN" /\ phase[r] = "attempting" /\ r # NoToken
    BY BreakerAssumption, ExecutorAssumption DEF Inv, LockHeld
  <2>2. ASSUME NEW q \in Request, NEW b, MovesBy(b, q) PROVE breaker'[a].probe = r
    <3>1. q # r
      BY <2>1, <2>2 DEF MovesBy
    <3>2. b[a] = breaker[a] \/ Settles(breaker[a], b[a], q)
      BY <2>2 DEF MovesBy, Settled
    <3>3. CASE b[a] = breaker[a]
      BY <2>1, <2>2, <3>3 DEF MovesBy, Handed, IsProbe, Allows, CooledDown
    <3>4. CASE b[a] # breaker[a] /\ Settles(breaker[a], b[a], q)
      <4>1. b[a].state # "HALF_OPEN" /\ (b[a].state = "OPEN" => b[a].opened = 0)
        BY <3>1, <3>4 DEF Settles
      <4>2. ~IsProbe(b[a])
        BY <4>1 DEF IsProbe, Allows, CooledDown
      <4> QED
        BY <2>2, <4>1, <4>2 DEF MovesBy, Handed
    <3> QED
      BY <3>2, <3>3, <3>4
  <2> QED
    BY <2>2, EveryMove, OtherSteps DEF Next
<1> QED
  BY <1>1, Invariant, PTL DEF Spec, LockKeptByOwner

=============================================================================
