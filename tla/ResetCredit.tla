------------------------------ MODULE ResetCredit ------------------------------
(***************************************************************************)
(* The guard on Codex reset credits.  An operator's request, or the        *)
(* automatic reset of an account whose weekly window is used up, spends    *)
(* one of a few credits at the upstream.  The attempts of all processes,   *)
(* for all the labels of one ChatGPT account, meet in four rows of the     *)
(* config store: the time of the last credit, the window it was spent on,  *)
(* the lease of the attempt under way and the redeem id last asked with.   *)
(* Every await is a step; processes crash, store calls throw before or     *)
(* after they are applied, and answers of the upstream get lost.           *)
(*                                                                         *)
(* A redeem id is the attempt that made it up.  An hour is the cooldown:   *)
(* two times of one hour are too close.                                    *)
(***************************************************************************)
EXTENDS Integers

CONSTANTS
  Process, Attempt,
  ProcessOf,   \* the process that an attempt runs in
  Drift,       \* what tells the reported deadlines of one window from each other
  StoreFails,  \* whether a store call may throw
  MaxHour, MaxWeek,
  None

ASSUME ResetCreditAssumption ==
  /\ ProcessOf \in [Attempt -> Process]
  /\ StoreFails \in BOOLEAN
  /\ MaxHour \in Nat /\ MaxWeek \in Nat
  /\ None \notin Attempt \cup (0..MaxHour) \cup [week : 0..MaxWeek, drift : Drift]
       \cup [window : [week : 0..MaxWeek, drift : Drift], id : Attempt]

VARIABLES
  hour, week,   \* the clock, and the upstream's weekly window
  lapsed,       \* the attempts whose lease has run out
  row,          \* the four rows: last, window, pending, redeem
  mem,          \* process -> its lastBySharedKey, windowBySharedKey, pendingBySharedKey
  call,         \* attempt -> its reservation and what becomes of it
  adrift,       \* redeem requests that may yet reach the upstream
  spent,        \* history: the redeem requests that cost a credit
  lost          \* history: a credit was spent and its time not recorded, or not in time

vars == <<hour, week, lapsed, row, mem, call, adrift, spent, lost>>
clock == <<hour, week, lapsed>>
upstream == <<adrift, spent, lost>>

Hour == 0..MaxHour
Week == 0..MaxWeek
\* weeklyWindowMarker: the window, and its deadline as it was reported.
Window == [week : Week, drift : Drift]
Marker == [window : Window, id : Attempt]
Row == [last : Hour \cup {None}, window : Window \cup {None},
        pending : Attempt \cup {None}, redeem : Marker \cup {None}]
Memory == [last : Hour \cup {None}, window : Window \cup {None}, pending : Attempt \cup {None}]
Request == [id : Attempt, week : Week, at : Hour]

\* Inside reserve(), without and with the lease.
Unleased == {"resolvingKey", "recalling", "checking", "claiming"}
Setup == {"confirming", "rechecking", "resolving", "marking"}
\* The attempt counts on its lease.
Reserved == Setup \cup {"asking", "answered", "noting", "dating"}
Leaving == {"withdrawing", "releasing"}
Stage == {"idle", "ended"} \cup Unleased \cup Reserved \cup Leaving

\* at is nowMs; over, the leases that had run out at nowMs; id, the redeem id.
Call == [stage : Stage, at : Hour \cup {None}, over : SUBSET Attempt,
         win : Window \cup {None}, id : Attempt \cup {None}]

Forgotten == [last |-> None, window |-> None, pending |-> None]
NoCall(s) == [stage |-> s, at |-> None, over |-> {}, win |-> None, id |-> None]

-----------------------------------------------------------------------------
(* What the guard compares.                                                *)

At(a, s) == call[a].stage = s
Here(a) == ProcessOf[a]
Go(a, s) == call' = [call EXCEPT ![a] = IF s = "ended" THEN NoCall(s) ELSE [@ EXCEPT !.stage = s]]

CooldownPassed(last, now) == last = None \/ now > last

\* compareReservedWeeklyWindow: deadlines of one window differ by less than
\* the tolerance, those of two windows by more.
SameWindow(w, v) == w # None /\ w.week = v.week

\* readReservedWindow prefers what the process remembers.
ReservedWindow(p) == IF mem[p].window # None THEN mem[p].window ELSE row.window

\* A lease keeps out whoever's nowMs it is not over at.
Blocks(lease, over) == lease # None /\ lease \notin over

\* releasePendingReservation: every later lease ends later than a's own.
Released(a) == [row EXCEPT !.pending = IF @ = a THEN None ELSE @]

\* The process forgets its lease; after a failed setup, whatever lease is there.
Freed(a) ==
  [mem EXCEPT ![Here(a)].pending = IF @ = a \/ At(a, "withdrawing") THEN None ELSE @]

-----------------------------------------------------------------------------
(* reserve(): first without the lease.                                     *)

\* A saturated window was reported; resolveSharedKey is asked whose it is.
Reserve(a) ==
  /\ At(a, "idle")
  /\ \E d \in Drift :
       call' = [call EXCEPT ![a] =
         [stage |-> "resolvingKey", at |-> hour, over |-> lapsed,
          win |-> [week |-> week, drift |-> d], id |-> None]]
  /\ UNCHANGED <<clock, row, mem, upstream>>

\* Where the local checks leave the attempt.
AfterMemory(m, c) ==
  IF Blocks(m.pending, c.over) \/ ~CooldownPassed(m.last, c.at) THEN "ended"
  ELSE IF m.last = None THEN "recalling" ELSE "checking"

\* The process looks at what it remembers of the account.
Consult(a) ==
  LET p == Here(a)
  IN  /\ At(a, "resolvingKey")
      /\ Go(a, AfterMemory(mem[p], call[a]))
      /\ mem' = [mem EXCEPT ![p].pending = IF Blocks(@, call[a].over) THEN @ ELSE None]
      /\ UNCHANGED <<clock, row, upstream>>

\* The last credit is read from the store, and remembered.
Recall(a) ==
  /\ At(a, "recalling")
  /\ mem' = [mem EXCEPT ![Here(a)].last = IF row.last = None THEN @ ELSE row.last]
  /\ Go(a, IF CooldownPassed(row.last, call[a].at) THEN "checking" ELSE "ended")
  /\ UNCHANGED <<clock, row, upstream>>

Check(a) ==
  /\ At(a, "checking")
  /\ Go(a, IF SameWindow(ReservedWindow(Here(a)), call[a].win) THEN "ended" ELSE "claiming")
  /\ UNCHANGED <<clock, row, mem, upstream>>

\* claimPendingReservation: one statement takes the lease, or finds it taken.
Claim(a) ==
  /\ At(a, "claiming")
  /\ IF Blocks(row.pending, call[a].over)
     THEN Go(a, "ended") /\ UNCHANGED <<row, mem>>
     ELSE /\ row' = [row EXCEPT !.pending = a]
          /\ mem' = [mem EXCEPT ![Here(a)].pending = a]
          /\ Go(a, "confirming")
  /\ UNCHANGED <<clock, upstream>>

-----------------------------------------------------------------------------
(* reserve(): the same checks once more, under the lease.                  *)

\* Mutant: the store is not asked for the last credit again.
ConfirmNothing(a) ==
  /\ At(a, "confirming")
  /\ Go(a, "rechecking")
  /\ UNCHANGED <<clock, row, mem, upstream>>

Confirm(a) ==
  /\ At(a, "confirming")
  /\ Go(a, IF CooldownPassed(row.last, call[a].at) THEN "rechecking" ELSE "withdrawing")
  /\ UNCHANGED <<clock, row, mem, upstream>>

Recheck(a) ==
  /\ At(a, "rechecking")
  /\ Go(a, IF SameWindow(ReservedWindow(Here(a)), call[a].win) THEN "withdrawing" ELSE "resolving")
  /\ UNCHANGED <<clock, row, mem, upstream>>

\* Mutant: every attempt asks with an id of its own.
ResolveAnew(a) ==
  /\ At(a, "resolving")
  /\ call' = [call EXCEPT ![a].stage = "marking", ![a].id = a]
  /\ UNCHANGED <<clock, row, mem, upstream>>

\* resolveRedeemRequestId: the id of this very window, or a new one.
Resolve(a) ==
  LET known == row.redeem # None /\ row.redeem.window = call[a].win
  IN  /\ At(a, "resolving")
      /\ call' = [call EXCEPT ![a].stage = IF known THEN "asking" ELSE "marking",
                              ![a].id = IF known THEN row.redeem.id ELSE a]
      /\ UNCHANGED <<clock, row, mem, upstream>>

Marked(a) == [row EXCEPT !.redeem = [window |-> call[a].win, id |-> call[a].id]]

Mark(a) ==
  /\ At(a, "marking")
  /\ row' = Marked(a)
  /\ Go(a, "asking")
  /\ UNCHANGED <<clock, mem, upstream>>

-----------------------------------------------------------------------------
(* runResetCreditAttempt().                                                *)

RequestOf(a) == [id |-> call[a].id, week |-> call[a].win.week, at |-> call[a].at]

\* The upstream has seen the redeem id of the request.
Known(q) == \E r \in spent : r.id = q.id

\* It spends a credit, unless it did so for this id before.
Redeemed(q) == IF Known(q) THEN spent ELSE spent \cup {q}

\* It answers that it did, now or before; or that there is nothing to reset or
\* no credit.
Redeem(a) ==
  /\ At(a, "asking")
  /\ \/ spent' = Redeemed(RequestOf(a)) /\ Go(a, "answered")
     \/ ~Known(RequestOf(a)) /\ Go(a, "releasing") /\ UNCHANGED spent
  /\ UNCHANGED <<clock, row, mem, adrift, lost>>

\* The answer does not come or cannot be read: consume() throws.
LoseAnswer(a) ==
  /\ At(a, "asking") \/ At(a, "answered")
  /\ adrift' = IF At(a, "asking") THEN adrift \cup {RequestOf(a)} ELSE adrift
  /\ lost' = (lost \/ At(a, "answered"))
  /\ Go(a, "releasing")
  /\ UNCHANGED <<clock, row, mem, spent>>

\* A request that nobody waits for any more reaches the upstream.
RedeemLate(q) ==
  /\ adrift' = adrift \ {q}
  /\ spent' = Redeemed(q)
  /\ lost' = (lost \/ ~Known(q))
  /\ UNCHANGED <<clock, row, mem, call>>

\* commit(), up to its first await.
Commit(a) ==
  /\ At(a, "answered")
  /\ mem' = [mem EXCEPT ![Here(a)].last = call[a].at, ![Here(a)].window = call[a].win]
  /\ Go(a, "noting")
  /\ UNCHANGED <<clock, row, upstream>>

\* The window is stored, then the time.
Noted(a) == [row EXCEPT !.window = call[a].win]
Dated(a) == [row EXCEPT !.last = call[a].at]

Note(a) ==
  /\ At(a, "noting")
  /\ row' = Noted(a)
  /\ Go(a, "dating")
  /\ UNCHANGED <<clock, mem, upstream>>

Date(a) ==
  /\ At(a, "dating")
  /\ row' = Dated(a)
  /\ Go(a, "releasing")
  /\ UNCHANGED <<clock, mem, upstream>>

\* The lease is given back.
Release(a) ==
  /\ call[a].stage \in Leaving
  /\ row' = Released(a)
  /\ mem' = Freed(a)
  /\ Go(a, "ended")
  /\ UNCHANGED <<clock, upstream>>

-----------------------------------------------------------------------------
(* Failures.                                                               *)

\* The statement that threw was applied all the same, or not.
Perhaps(new) == row' \in {row, new}

\* A read throws before the lease is claimed.
FailEarly(a) ==
  /\ \/ At(a, "resolvingKey") \/ At(a, "recalling")
     \/ At(a, "checking") /\ mem[Here(a)].window = None
  /\ Go(a, "ended")
  /\ UNCHANGED <<clock, row, mem, upstream>>

\* The claim throws; nobody gives back a lease that was taken all the same.
FailClaim(a) ==
  /\ At(a, "claiming")
  /\ IF Blocks(row.pending, call[a].over)
     THEN UNCHANGED row
     ELSE Perhaps([row EXCEPT !.pending = a])
  /\ Go(a, "ended")
  /\ UNCHANGED <<clock, mem, upstream>>

\* The setup throws under the lease.
FailSetup(a) ==
  /\ call[a].stage \in Setup
  /\ At(a, "rechecking") => mem[Here(a)].window = None
  /\ IF At(a, "marking") THEN Perhaps(Marked(a)) ELSE UNCHANGED row
  /\ Go(a, "withdrawing")
  /\ UNCHANGED <<clock, mem, upstream>>

\* The window cannot be stored: the lease is left to run out.
FailNote(a) ==
  /\ At(a, "noting")
  /\ Perhaps(Noted(a))
  /\ mem' = Freed(a)
  /\ lost' = TRUE
  /\ Go(a, "ended")
  /\ UNCHANGED <<clock, adrift, spent>>

\* The time cannot be stored: the window is enough to give the lease back.
FailDate(a) ==
  /\ At(a, "dating")
  /\ Perhaps(Dated(a))
  /\ lost' = TRUE
  /\ Go(a, "releasing")
  /\ UNCHANGED <<clock, mem, adrift, spent>>

FailRelease(a) ==
  /\ call[a].stage \in Leaving
  /\ Perhaps(Released(a))
  /\ mem' = Freed(a)
  /\ Go(a, "ended")
  /\ UNCHANGED <<clock, upstream>>

Fail(a) ==
  /\ StoreFails
  /\ \/ FailEarly(a) \/ FailClaim(a) \/ FailSetup(a)
     \/ FailNote(a) \/ FailDate(a) \/ FailRelease(a)

\* A process dies with its attempts, and another takes its place.
Crash(p) ==
  LET dying == {a \in Attempt : Here(a) = p /\ ~At(a, "idle")}
  IN  /\ call' = [a \in Attempt |-> IF a \in dying THEN NoCall("ended") ELSE call[a]]
      /\ mem' = [mem EXCEPT ![p] = Forgotten]
      /\ adrift' = adrift \cup {RequestOf(a) : a \in {b \in dying : At(b, "asking")}}
      /\ lost' = (lost \/ \E a \in dying : call[a].stage \in {"answered", "noting", "dating"})
      /\ UNCHANGED <<clock, row, spent>>

-----------------------------------------------------------------------------
(* Time.                                                                   *)

\* Two minutes are over since the nowMs of an attempt that claimed a lease.  Its
\* reserve(), a few statements, does not take that long.
Lapse(a) ==
  /\ row.pending = a \/ mem[Here(a)].pending = a
  /\ call[a].stage \notin Setup /\ a \notin lapsed
  /\ lapsed' = lapsed \cup {a}
  /\ lost' = (lost \/ call[a].stage \in Reserved)
  /\ UNCHANGED <<hour, week, row, mem, call, adrift, spent>>

\* An hour passes.
Tick ==
  /\ hour < MaxHour
  /\ hour' = hour + 1
  /\ UNCHANGED <<week, lapsed, row, mem, call, upstream>>

\* The deadline, or a reset, begins a new weekly window; not within a reserve().
NextWindow ==
  /\ week < MaxWeek
  /\ \A a \in Attempt : call[a].stage \notin Unleased \cup Setup
  /\ week' = week + 1
  /\ UNCHANGED <<hour, lapsed, row, mem, call, upstream>>

-----------------------------------------------------------------------------
Init ==
  /\ hour = 0 /\ week = 0 /\ lapsed = {}
  /\ row = [last |-> None, window |-> None, pending |-> None, redeem |-> None]
  /\ mem = [p \in Process |-> Forgotten]
  /\ call = [a \in Attempt |-> NoCall("idle")]
  /\ adrift = {} /\ spent = {} /\ lost = FALSE

Next ==
  \/ \E a \in Attempt :
       \/ Reserve(a) \/ Consult(a) \/ Recall(a) \/ Check(a) \/ Claim(a)
       \/ Confirm(a) \/ Recheck(a) \/ Resolve(a) \/ Mark(a)
       \/ Redeem(a) \/ LoseAnswer(a) \/ Commit(a) \/ Note(a) \/ Date(a)
       \/ Release(a) \/ Fail(a) \/ Lapse(a)
  \/ \E q \in adrift : RedeemLate(q)
  \/ \E p \in Process : Crash(p)
  \/ Tick \/ NextWindow

Spec == Init /\ [][Next]_vars

-----------------------------------------------------------------------------
(* Properties.                                                             *)

\* Besides the types: an attempt on its way knows its time and its window, and
\* one past the setup its redeem id.
TypeOK ==
  /\ hour \in Hour /\ week \in Week
  /\ row \in Row
  /\ mem \in [Process -> Memory]
  /\ call \in [Attempt -> Call]
  /\ \A a \in Attempt :
       /\ call[a].stage \notin {"idle", "ended"} => call[a].at # None /\ call[a].win # None
       /\ call[a].stage \in Reserved \ {"confirming", "rechecking", "resolving"} => call[a].id # None
  /\ lapsed \in SUBSET Attempt
  /\ adrift \in SUBSET Request /\ spent \in SUBSET Request
  /\ lost \in BOOLEAN

\* A weekly window costs one credit at most, although answers get lost, late
\* requests arrive, writes fail and processes die between the request and its
\* record: whoever comes next asks with the same redeem id.
OneCreditPerWindow == \A q, r \in spent : q.week = r.week => q = r

\* Two credits are spent an hour apart, in whatever processes, as long as the
\* time of each was recorded under its lease.
CooldownKept == ~lost => \A q, r \in spent : q.at = r.at => q = r

\* Whoever relies on a lease that has not run out holds it: no late release, no
\* failed setup and no claim that threw takes it from its attempt.
LeaseIsExclusive ==
  \A a \in Attempt : call[a].stage \in Reserved /\ a \notin lapsed => row.pending = a

=============================================================================
