-------------------------- MODULE ResetCredit_proofs --------------------------
(***************************************************************************)
(* Proofs about ResetCredit: its types, the exclusive lease, the hour      *)
(* between two credits and, if the deadline of a window is always reported *)
(* alike, one credit for each weekly window.                               *)
(*                                                                         *)
(* The invariant is that of the lease (Leases), then that of the redeem    *)
(* ids (Ids): all requests that cost or may yet cost a credit of a window  *)
(* ask with one id, and the row knows that of the current window.          *)
(***************************************************************************)
EXTENDS ResetCredit, TLAPS

-----------------------------------------------------------------------------
(* The invariant.                                                          *)

\* An attempt under way knows its time and window; past the setup, its id.
Sound(c) ==
  /\ c \in Call
  /\ c.stage \notin {"idle", "ended"} => c.at # None /\ c.win # None
  /\ c.stage \in Reserved \ {"confirming", "rechecking", "resolving"} => c.id # None

\* The lease of an attempt inside reserve() has not run out, and before its
\* claim nobody has heard of it.
Leases ==
  /\ LeaseIsExclusive
  /\ \A a \in Attempt :
       /\ call[a].over \subseteq lapsed
       /\ call[a].stage \in {"idle"} \cup Unleased \cup Setup => a \notin lapsed
       /\ call[a].stage \in {"idle"} \cup Unleased =>
            row.pending # a /\ \A p \in Process : mem[p].pending # a

\* The requests that cost a credit, or may.
Live == adrift \cup spent \cup {RequestOf(a) : a \in {b \in Attempt : At(b, "asking")}}

\* A request of the current window is one the redeem row knows.
Current(q) ==
  /\ q.week <= week
  /\ q.week = week => row.redeem # None /\ row.redeem.window.week = week /\ row.redeem.id = q.id

Ids ==
  /\ \A a \in Attempt : call[a].stage \in Unleased \cup Setup => call[a].win.week = week
  /\ \A a \in Attempt : At(a, "marking") => row.redeem = None \/ row.redeem.window.week # week
  /\ row.redeem # None => row.redeem.window.week <= week
  /\ \A q \in Live : Current(q)
  /\ \A q, r \in Live : q.week = r.week => q.id = r.id
  /\ OneCreditPerWindow

\* The stages after the cooldown was confirmed, and those after the credit.
Confirmed == Reserved \ {"confirming"}
Paid == {"answered", "noting", "dating"}

\* A credit's time is in the row, or on its way there.
Dates(q) ==
  \/ row.last # None /\ q.at <= row.last
  \/ \E a \in Attempt : call[a].stage \in Paid /\ call[a].at = q.at

Cooldown ==
  ~lost =>
    /\ \A a \in Attempt : call[a].stage \in Reserved => a \notin lapsed
    /\ \A a \in Attempt : call[a].stage \in Confirmed => CooldownPassed(row.last, call[a].at)
    /\ \A q \in spent : Dates(q)
    /\ CooldownKept

-----------------------------------------------------------------------------
(* Types.                                                                  *)

Identified == Reserved \ {"confirming", "rechecking", "resolving"}

\* The type invariant, part by part.
Places ==
  /\ hour \in Hour /\ week \in Week /\ lapsed \in SUBSET Attempt
  /\ row \in Row /\ mem \in [Process -> Memory]
Calls == call \in [Attempt -> Call] /\ \A a \in Attempt : Sound(call[a])
Requests == adrift \in SUBSET Request /\ spent \in SUBSET Request /\ lost \in BOOLEAN

LEMMA TypesApart == TypeOK <=> Places /\ Calls /\ Requests
  BY DEF TypeOK, Places, Calls, Requests, Sound

\* What one move of an attempt does to the calls.
LEMMA GoStep ==
  ASSUME Calls, NEW a \in Attempt, NEW s \in Stage, Go(a, s)
  PROVE  /\ call' \in [Attempt -> Call]
         /\ call'[a].stage = s /\ \A b \in Attempt \ {a} : call'[b] = call[b]
         /\ s # "ended" => call'[a].at = call[a].at /\ call'[a].over = call[a].over
                           /\ call'[a].win = call[a].win /\ call'[a].id = call[a].id
         /\ s = "ended" => call'[a] = NoCall("ended")
<1>1. call[a] \in Call
  BY DEF Calls
<1>2. NoCall("ended") \in Call
  BY DEF NoCall, Call, Stage
<1>3. [call[a] EXCEPT !.stage = s] \in Call
  BY <1>1 DEF Call
<1>4. /\ [call[a] EXCEPT !.stage = s].stage = s
      /\ [call[a] EXCEPT !.stage = s].at = call[a].at
      /\ [call[a] EXCEPT !.stage = s].over = call[a].over
      /\ [call[a] EXCEPT !.stage = s].win = call[a].win
      /\ [call[a] EXCEPT !.stage = s].id = call[a].id
  BY <1>1 DEF Call
<1>5. call' = [call EXCEPT ![a] = IF s = "ended" THEN NoCall(s) ELSE [call[a] EXCEPT !.stage = s]]
  BY DEF Go, Calls
<1> DEFINE c == IF s = "ended" THEN NoCall(s) ELSE [call[a] EXCEPT !.stage = s]
<1>6. c \in Call /\ c.stage = s
  BY <1>2, <1>3, <1>4 DEF NoCall
<1>7. call' = [call EXCEPT ![a] = c]
  BY <1>5
<1>8. call'[a] = c /\ call' \in [Attempt -> Call] /\ \A b \in Attempt \ {a} : call'[b] = call[b]
  BY <1>6, <1>7 DEF Calls
<1> QED
  BY <1>4, <1>6, <1>8

\* A move keeps the calls sound if what the new stage counts on is there.
LEMMA GoTyped ==
  ASSUME Calls, NEW a \in Attempt, NEW s \in Stage \ {"idle"}, Go(a, s),
         s # "ended" => call[a].stage \notin {"idle", "ended"},
         s \in Identified => call[a].id # None
  PROVE  Calls'
<1>1. \A b \in Attempt \ {a} : Sound(call'[b])
  BY GoStep DEF Calls
<1>2. Sound(call'[a])
  <2>1. CASE s = "ended"
    BY <2>1, GoStep DEF Sound, NoCall, Reserved, Setup
  <2>2. CASE s # "ended"
    BY <2>2, GoStep DEF Sound, Calls, Identified
  <2> QED
    BY <2>1, <2>2
<1> QED
  BY <1>1, <1>2, GoStep DEF Calls, Sound

\* The values that the actions write to the rows and to a process's memory.
LEMMA RowTyped ==
  ASSUME row \in Row
  PROVE  /\ \A a \in Attempt : [row EXCEPT !.pending = a] \in Row /\ Released(a) \in Row
         /\ \A w \in Window, i \in Attempt : [row EXCEPT !.redeem = [window |-> w, id |-> i]] \in Row
         /\ \A w \in Window : [row EXCEPT !.window = w] \in Row
         /\ \A h \in Hour : [row EXCEPT !.last = h] \in Row
  BY DEF Row, Released, Marker

LEMMA MemTyped ==
  ASSUME mem \in [Process -> Memory], NEW p \in Process
  PROVE  /\ \A x \in Attempt \cup {None} : [mem EXCEPT ![p].pending = x] \in [Process -> Memory]
         /\ \A x \in Hour \cup {None} : [mem EXCEPT ![p].last = x] \in [Process -> Memory]
         /\ \A x \in Hour, w \in Window :
              [mem EXCEPT ![p].last = x, ![p].window = w] \in [Process -> Memory]
         /\ [mem EXCEPT ![p] = Forgotten] \in [Process -> Memory]
  BY DEF Memory, Forgotten

LEMMA FreedTyped ==
  ASSUME mem \in [Process -> Memory], NEW a \in Attempt
  PROVE  Freed(a) \in [Process -> Memory]
<1>1. Here(a) \in Process
  BY ResetCreditAssumption DEF Here
<1> DEFINE x == IF mem[Here(a)].pending = a \/ At(a, "withdrawing") THEN None ELSE mem[Here(a)].pending
<1>2. x \in Attempt \cup {None}
  BY <1>1 DEF Memory
<1>3. Freed(a) = [mem EXCEPT ![Here(a)].pending = x]
  BY DEF Freed
<1> HIDE DEF x
<1>4. [mem EXCEPT ![Here(a)].pending = x] \in [Process -> Memory]
  BY <1>1, <1>2 DEF Memory
<1> QED
  BY <1>3, <1>4

\* What an attempt holds, stage by stage.
LEMMA Held ==
  ASSUME Calls, NEW a \in Attempt
  PROVE  /\ call[a].stage \in Stage /\ call[a].over \subseteq Attempt
         /\ call[a].stage \notin {"idle", "ended"} => call[a].at \in Hour /\ call[a].win \in Window
         /\ call[a].stage \in Identified => call[a].id \in Attempt
         /\ call[a].stage \in Identified => RequestOf(a) \in Request
<1>1. call[a] \in Call /\ Sound(call[a])
  BY DEF Calls
<1>2. Identified \cap {"idle", "ended"} = {}
  BY DEF Identified, Reserved, Setup
<1> QED
  BY <1>1, <1>2 DEF Sound, Call, Identified, RequestOf, Request, Window

-----------------------------------------------------------------------------
\* Every step keeps the types.
LEMMA TypeStep == TypeOK /\ [Next]_vars => TypeOK'
<1> SUFFICES ASSUME Places, Calls, Requests, [Next]_vars PROVE (Places /\ Calls /\ Requests)'
  BY DEF TypeOK, Places, Calls, Requests, Sound
<1>0. /\ \A a \in Attempt : Here(a) \in Process
      /\ row \in Row /\ mem \in [Process -> Memory] /\ None \notin Attempt
  BY ResetCreditAssumption DEF Here, Places
<1>1. ASSUME NEW a \in Attempt, Reserve(a) PROVE (Places /\ Calls /\ Requests)'
  <2>1. PICK d \in Drift :
          call' = [call EXCEPT ![a] =
             [stage |-> "resolvingKey", at |-> hour, over |-> lapsed,
              win |-> [week |-> week, drift |-> d], id |-> None]]
    BY <1>1 DEF Reserve
  <2>2. hour # None /\ [week |-> week, drift |-> d] # None /\ [week |-> week, drift |-> d] \in Window
    BY ResetCreditAssumption DEF Places, Hour, Week, Window
  <2>3. Sound([stage |-> "resolvingKey", at |-> hour, over |-> lapsed,
               win |-> [week |-> week, drift |-> d], id |-> None])
    BY <2>2 DEF Sound, Call, Stage, Unleased, Reserved, Setup, Places
  <2>4. Calls'
    BY <2>1, <2>3 DEF Calls, Sound
  <2> QED
    BY <1>1, <2>4 DEF Reserve, clock, upstream, Places, Requests
<1>2a. ASSUME NEW a \in Attempt, Consult(a) PROVE (Places /\ Calls /\ Requests)'
  <2>1. PICK s \in {"recalling", "checking", "ended"} : Go(a, s)
    BY <1>2a DEF Consult, AfterMemory
  <2>2. Calls'
    BY <1>2a, <2>1, GoTyped DEF Consult, At, Stage, Unleased, Identified, Reserved, Setup
  <2>3. PICK x \in Attempt \cup {None} : mem' = [mem EXCEPT ![Here(a)].pending = x]
    BY <1>0, <1>2a DEF Consult, Memory
  <2>4. mem' \in [Process -> Memory]
    BY <1>0, <2>3 DEF Memory
  <2> QED
    BY <1>2a, <2>2, <2>4 DEF Consult, clock, upstream, Places, Requests
<1>2. ASSUME NEW a \in Attempt, Recall(a) PROVE (Places /\ Calls /\ Requests)'
  <2>1. PICK s \in {"checking", "ended"} : Go(a, s)
    BY <1>2 DEF Recall
  <2>2. Calls'
    BY <1>2, <2>1, GoTyped DEF Recall, At, Stage, Unleased, Identified, Reserved, Setup
  <2>3. PICK x \in Hour \cup {None} : mem' = [mem EXCEPT ![Here(a)].last = x]
    BY <1>0, <1>2 DEF Recall, Memory, Row
  <2>4. mem' \in [Process -> Memory]
    BY <1>0, <2>3 DEF Memory
  <2> QED
    BY <1>2, <2>2, <2>4 DEF Recall, clock, upstream, Places, Requests
<1>3. ASSUME NEW a \in Attempt, Check(a) \/ Confirm(a) \/ Recheck(a) PROVE (Places /\ Calls /\ Requests)'
  <2>1. PICK s \in {"ended", "claiming", "rechecking", "withdrawing", "resolving"} : Go(a, s)
    BY <1>3 DEF Check, Confirm, Recheck
  <2>2. Calls'
    BY <1>3, <2>1, GoTyped
    DEF Check, Confirm, Recheck, At, Stage, Unleased, Identified, Reserved, Setup, Leaving
  <2> QED
    BY <1>3, <2>2 DEF Check, Confirm, Recheck, clock, upstream, Places, Requests
<1>4. ASSUME NEW a \in Attempt, Claim(a) \/ FailClaim(a) PROVE (Places /\ Calls /\ Requests)'
  <2>1. PICK s \in {"ended", "confirming"} : Go(a, s)
    BY <1>4 DEF Claim, FailClaim
  <2>2. Calls'
    BY <1>4, <2>1, GoTyped DEF Claim, FailClaim, At, Stage, Identified, Reserved, Setup
  <2>3. row' \in Row
    BY <1>0, <1>4, RowTyped DEF Claim, FailClaim, Perhaps
  <2>4. mem' \in [Process -> Memory]
    BY <1>0, <1>4 DEF Claim, FailClaim, Memory
  <2> QED
    BY <1>4, <2>2, <2>3, <2>4 DEF Claim, FailClaim, clock, upstream, Places, Requests
<1>5. ASSUME NEW a \in Attempt, Resolve(a) PROVE (Places /\ Calls /\ Requests)'
  <2>1. PICK s \in {"asking", "marking"}, i \in Attempt :
          call' = [call EXCEPT ![a].stage = s, ![a].id = i]
    BY <1>0, <1>5 DEF Resolve, Row, Marker
  <2>2. Sound(call[a]) /\ call \in [Attempt -> Call] /\ call[a].stage = "resolving"
    BY <1>5 DEF Calls, Resolve, At
  <2>3. Sound([call[a] EXCEPT !.stage = s, !.id = i])
    BY <1>0, <2>2 DEF Sound, Call, Stage, Reserved, Setup
  <2>4. Calls'
    BY <2>1, <2>2, <2>3 DEF Calls, Sound
  <2> QED
    BY <1>5, <2>4 DEF Resolve, clock, upstream, Places, Requests
<1>6. ASSUME NEW a \in Attempt, Mark(a) \/ FailSetup(a) PROVE (Places /\ Calls /\ Requests)'
  <2>1. PICK s \in {"asking", "withdrawing"} : Go(a, s) /\ (s = "asking" => At(a, "marking"))
    BY <1>6 DEF Mark, FailSetup
  <2>2. call[a].stage \in Setup
    BY <1>6 DEF Mark, FailSetup, At, Setup
  <2>3. Calls'
    BY <2>1, <2>2, GoTyped DEF At, Calls, Sound, Stage, Identified, Reserved, Setup, Leaving
  <2>4. At(a, "marking") => Marked(a) \in Row
    BY <1>0, Held, RowTyped DEF Marked, At, Identified, Reserved, Setup
  <2> QED
    BY <1>6, <2>3, <2>4 DEF Mark, FailSetup, Perhaps, clock, upstream, Places, Requests
<1>7. ASSUME NEW a \in Attempt, Redeem(a) \/ LoseAnswer(a) PROVE (Places /\ Calls /\ Requests)'
  <2>1. PICK s \in {"answered", "releasing"} : Go(a, s)
    BY <1>7 DEF Redeem, LoseAnswer
  <2>2. call[a].stage \in {"asking", "answered"}
    BY <1>7 DEF Redeem, LoseAnswer, At
  <2>3. Calls'
    BY <2>1, <2>2, GoTyped DEF Calls, Sound, Stage, Identified, Reserved, Setup, Leaving
  <2>4. RequestOf(a) \in Request
    BY <2>2, Held DEF Identified, Reserved, Setup
  <2> QED
    BY <1>7, <2>3, <2>4 DEF Redeem, LoseAnswer, Redeemed, clock, upstream, Places, Requests
<1>8. ASSUME NEW a \in Attempt, Commit(a) \/ Note(a) \/ Date(a) \/ FailNote(a) \/ FailDate(a)
      PROVE  (Places /\ Calls /\ Requests)'
  <2>1. PICK s \in {"noting", "dating", "releasing", "ended"} : Go(a, s)
    BY <1>8 DEF Commit, Note, Date, FailNote, FailDate
  <2>2. call[a].stage \in {"answered", "noting", "dating"}
    BY <1>8 DEF Commit, Note, Date, FailNote, FailDate, At
  <2>3. Calls'
    BY <2>1, <2>2, GoTyped DEF Calls, Sound, Stage, Identified, Reserved, Setup, Leaving
  <2>4. call[a].at \in Hour /\ call[a].win \in Window
    BY <2>2, Held
  <2>5. row' \in Row
    BY <1>0, <1>8, <2>4, RowTyped DEF Commit, Note, Date, FailNote, FailDate, Noted, Dated, Perhaps
  <2>6. mem' \in [Process -> Memory]
    <3>1. CASE Commit(a)
      BY <1>0, <2>4, <3>1, MemTyped DEF Commit
    <3>2. CASE ~Commit(a)
      BY <1>0, <1>8, <3>2, FreedTyped DEF Note, Date, FailNote, FailDate
    <3> QED
      BY <3>1, <3>2
  <2> QED
    BY <1>8, <2>3, <2>5, <2>6
    DEF Commit, Note, Date, FailNote, FailDate, clock, upstream, Places, Requests
<1>9. ASSUME NEW a \in Attempt, Release(a) \/ FailRelease(a) \/ FailEarly(a)
      PROVE  (Places /\ Calls /\ Requests)'
  <2>1. Go(a, "ended") /\ UNCHANGED <<clock, upstream>>
    BY <1>9 DEF Release, FailRelease, FailEarly
  <2>2. Calls'
    BY <2>1, GoTyped DEF Stage, Identified, Reserved, Setup
  <2>3. row' \in Row /\ mem' \in [Process -> Memory]
    BY <1>0, <1>9, RowTyped, FreedTyped DEF Release, FailRelease, FailEarly, Perhaps
  <2> QED
    BY <2>1, <2>2, <2>3 DEF clock, upstream, Places, Requests
<1>10. ASSUME NEW p \in Process, Crash(p) PROVE (Places /\ Calls /\ Requests)'
  <2> DEFINE dying == {a \in Attempt : Here(a) = p /\ ~At(a, "idle")}
  <2>1. Sound(NoCall("ended"))
    BY DEF Sound, NoCall, Call, Stage, Reserved, Setup
  <2>2. call' = [a \in Attempt |-> IF a \in dying THEN NoCall("ended") ELSE call[a]]
    BY <1>10 DEF Crash
  <2>3. Calls'
    BY <2>1, <2>2 DEF Calls, Sound
  <2>4. \A a \in Attempt : At(a, "asking") => RequestOf(a) \in Request
    BY Held DEF At, Identified, Reserved, Setup
  <2>5. adrift' \in SUBSET Request /\ spent' = spent /\ lost' \in BOOLEAN
    BY <1>10, <2>4 DEF Crash, Requests
  <2>6. mem' \in [Process -> Memory]
    BY <1>0, <1>10, MemTyped DEF Crash
  <2> QED
    BY <1>10, <2>3, <2>5, <2>6 DEF Crash, clock, Places, Requests
<1>11. ASSUME NEW q \in adrift, RedeemLate(q) PROVE (Places /\ Calls /\ Requests)'
  BY <1>11 DEF RedeemLate, Redeemed, clock, Places, Calls, Requests
<1>12. ASSUME NEW a \in Attempt, Lapse(a) PROVE (Places /\ Calls /\ Requests)'
  BY <1>12 DEF Lapse, Places, Calls, Requests
<1>13. CASE Tick \/ NextWindow \/ UNCHANGED vars
  BY <1>13, ResetCreditAssumption
  DEF Tick, NextWindow, vars, upstream, Places, Calls, Requests, Hour, Week
<1> QED
  BY <1>1, <1>2, <1>2a, <1>3, <1>4, <1>5, <1>6, <1>7, <1>8, <1>9, <1>10, <1>11, <1>12, <1>13
  DEF Next, Fail

\* Types: every value the guard, its rows and its memory take is one the code knows.
THEOREM TypeCorrect == Spec => []TypeOK
<1>1. Init => TypeOK
  <2> SUFFICES ASSUME Init PROVE Places /\ Calls /\ Requests
    BY TypesApart
  <2>1. Sound(NoCall("idle"))
    BY DEF Sound, NoCall, Call, Stage, Reserved, Setup
  <2>2. Forgotten \in Memory
    BY DEF Forgotten, Memory
  <2>3. Calls
    BY <2>1 DEF Init, Calls, Sound
  <2>4. row \in Row
    BY DEF Init, Row
  <2>5. Places
    BY <2>2, <2>4, ResetCreditAssumption DEF Init, Places, Hour, Week
  <2> QED
    BY <2>3, <2>5 DEF Init, Requests
<1> QED
  BY <1>1, TypeStep, PTL DEF Spec

-----------------------------------------------------------------------------
(* The lease.                                                              *)

\* A move of one attempt that takes no lease: it keeps or gives back its own.
LEMMA LeaseMove ==
  ASSUME Leases, NEW a \in Attempt, lapsed' = lapsed,
         \A b \in Attempt \ {a} : call'[b] = call[b],
         call'[a].over \subseteq lapsed,
         call'[a].stage \in Reserved => call[a].stage \in Reserved,
         call'[a].stage \in Setup => call[a].stage \in Setup,
         call'[a].stage \in {"idle"} \cup Unleased => call[a].stage \in {"idle"} \cup Unleased,
         row'.pending = row.pending \/ row'.pending = None,
         row'.pending = row.pending \/ (row.pending = a /\ call'[a].stage \notin Reserved),
         \A p \in Process : mem'[p].pending = mem[p].pending \/ mem'[p].pending = None
  PROVE  Leases'
<1>1. LeaseIsExclusive'
  BY DEF Leases, LeaseIsExclusive
<1>2. \A b \in Attempt : call'[b].over \subseteq lapsed'
  BY DEF Leases
<1>3. \A b \in Attempt : call'[b].stage \in {"idle"} \cup Unleased \cup Setup => b \notin lapsed'
  BY DEF Leases
<1>4. None \notin Attempt
  BY ResetCreditAssumption
<1>5. \A b \in Attempt : call'[b].stage \in {"idle"} \cup Unleased =>
        row'.pending # b /\ \A p \in Process : mem'[p].pending # b
  BY <1>4 DEF Leases
<1> QED
  BY <1>1, <1>2, <1>3, <1>5 DEF Leases

\* The claim's row is free, or its lease has run out: nobody relies on it.
LEMMA ClaimTakes ==
  ASSUME TypeOK, Leases, NEW a \in Attempt, At(a, "claiming"), ~Blocks(row.pending, call[a].over)
  PROVE  \A b \in Attempt : call[b].stage \in Reserved => b \in lapsed
<1>1. row.pending = None \/ row.pending \in lapsed
  BY DEF Blocks, Leases
<1> QED
  BY <1>1, ResetCreditAssumption DEF Leases, LeaseIsExclusive

\* Freed only forgets.
LEMMA FreedForgets ==
  ASSUME mem \in [Process -> Memory], NEW a \in Attempt, NEW p \in Process
  PROVE  Freed(a)[p].pending \in {mem[p].pending, None}
  BY ResetCreditAssumption DEF Freed, Memory, Here

\* Every step keeps the leases exclusive.
LEMMA LeaseStep == TypeOK /\ Leases /\ [Next]_vars => Leases'
<1> SUFFICES ASSUME TypeOK, Leases, [Next]_vars PROVE Leases'
  OBVIOUS
<1>0. /\ Places /\ Calls
      /\ row \in Row /\ mem \in [Process -> Memory]
      /\ \A a \in Attempt : Here(a) \in Process /\ call[a].over \subseteq lapsed
      /\ NoCall("ended").stage = "ended" /\ NoCall("ended").over = {}
  BY TypesApart, ResetCreditAssumption DEF Places, Here, NoCall, Leases
<1>1. ASSUME NEW a \in Attempt, Reserve(a) PROVE Leases'
  <2>1. /\ call'[a].stage = "resolvingKey" /\ call'[a].over \subseteq lapsed
        /\ \A b \in Attempt \ {a} : call'[b] = call[b]
    BY <1>0, <1>1 DEF Reserve, Calls
  <2>2. "resolvingKey" \notin Reserved
    BY DEF Reserved, Setup
  <2> QED
    BY <1>1, <2>1, <2>2, LeaseMove DEF Reserve, At, clock, Reserved
<1>2. ASSUME NEW a \in Attempt, NEW s \in Stage, Go(a, s), lapsed' = lapsed,
             s \in Reserved => call[a].stage \in Reserved,
             s \in Setup => call[a].stage \in Setup,
             s \in {"idle"} \cup Unleased => call[a].stage \in {"idle"} \cup Unleased,
             row'.pending = row.pending \/ row'.pending = None,
             row'.pending = row.pending \/ (row.pending = a /\ s \notin Reserved),
             \A p \in Process : mem'[p].pending = mem[p].pending \/ mem'[p].pending = None
      PROVE  Leases'
  <2>1. call'[a].stage = s /\ call'[a].over \subseteq lapsed
        /\ \A b \in Attempt \ {a} : call'[b] = call[b]
    BY <1>0, <1>2, GoStep
  <2> QED
    BY <1>2, <2>1, LeaseMove
<1>3. ASSUME NEW a \in Attempt, Recall(a) PROVE Leases'
  <2>1. PICK s \in {"checking", "ended"} : Go(a, s)
    BY <1>3 DEF Recall
  <2>2. \A p \in Process : mem'[p].pending = mem[p].pending
    BY <1>0, <1>3 DEF Recall, Memory
  <2> QED
    BY <1>2, <1>3, <2>1, <2>2 DEF Recall, At, clock, Stage, Unleased, Reserved, Setup
<1>3a. ASSUME NEW a \in Attempt, Consult(a) PROVE Leases'
  <2>1. PICK s \in {"recalling", "checking", "ended"} : Go(a, s)
    BY <1>3a DEF Consult, AfterMemory
  <2>2. \A p \in Process : mem'[p].pending = mem[p].pending \/ mem'[p].pending = None
    BY <1>0, <1>3a DEF Consult, Memory
  <2> QED
    BY <1>2, <1>3a, <2>1, <2>2 DEF Consult, At, clock, Stage, Unleased, Reserved, Setup
<1>4. ASSUME NEW a \in Attempt, Check(a) \/ Confirm(a) \/ Recheck(a) \/ FailEarly(a) PROVE Leases'
  <2>1. PICK s \in {"ended", "claiming", "rechecking", "withdrawing", "resolving"} :
          Go(a, s) /\ (s = "claiming" => At(a, "checking"))
                   /\ (s \in {"rechecking", "resolving"} => At(a, "confirming") \/ At(a, "rechecking"))
    BY <1>4 DEF Check, Confirm, Recheck, FailEarly
  <2>2. /\ s \in Stage
        /\ s \in Setup => call[a].stage \in Setup
        /\ s \in Reserved => call[a].stage \in Reserved
        /\ s \in {"idle"} \cup Unleased => call[a].stage \in {"idle"} \cup Unleased
    BY <2>1 DEF At, Stage, Unleased, Reserved, Setup, Leaving
  <2>3. lapsed' = lapsed /\ mem' = mem /\ row' = row
    BY <1>4 DEF Check, Confirm, Recheck, FailEarly, clock
  <2> QED
    BY <1>2, <2>1, <2>2, <2>3
<1>5. ASSUME NEW a \in Attempt, Claim(a) \/ FailClaim(a) PROVE Leases'
  <2>1. CASE row' = row /\ mem' = mem /\ Go(a, "ended")
    BY <1>2, <1>5, <2>1 DEF Claim, FailClaim, clock, Stage, Reserved, Setup, Unleased
  <2>2. CASE ~(row' = row /\ mem' = mem /\ Go(a, "ended"))
    <3>1. At(a, "claiming") /\ ~Blocks(row.pending, call[a].over) /\ lapsed' = lapsed
      BY <1>5, <2>2 DEF Claim, FailClaim, Perhaps, clock
    <3>2. \A b \in Attempt : call[b].stage \in Reserved => b \in lapsed
      BY <3>1, ClaimTakes
    <3>3. PICK s \in {"ended", "confirming"} : Go(a, s)
      BY <1>5 DEF Claim, FailClaim
    <3>4. call'[a].stage = s /\ call'[a].over \subseteq lapsed
          /\ \A b \in Attempt \ {a} : call'[b] = call[b]
      BY <1>0, <3>3, GoStep DEF Stage, Reserved, Setup
    <3>5. row'.pending = a
      BY <1>0, <1>5, <2>2 DEF Claim, FailClaim, Perhaps, Row
    <3>6. \A p \in Process : mem'[p].pending \in {mem[p].pending, a}
      BY <1>0, <1>5 DEF Claim, FailClaim, Memory
    <3>7. a \notin lapsed
      BY <3>1 DEF Leases, At, Unleased
    <3>8. LeaseIsExclusive'
      BY <3>1, <3>2, <3>4, <3>5 DEF LeaseIsExclusive
    <3>9. \A b \in Attempt : call'[b].stage \in {"idle"} \cup Unleased => b # a /\ call'[b] = call[b]
      BY <3>4 DEF Unleased
    <3> QED
      BY <3>1, <3>4, <3>5, <3>6, <3>7, <3>8, <3>9 DEF Leases
  <2> QED
    BY <2>1, <2>2
<1>6. ASSUME NEW a \in Attempt, Resolve(a) PROVE Leases'
  <2>1. PICK s \in {"asking", "marking"}, i \in Attempt :
          call' = [call EXCEPT ![a].stage = s, ![a].id = i]
    BY <1>0, <1>6, ResetCreditAssumption DEF Resolve, Row, Marker
  <2>2. call'[a].stage = s /\ call'[a].over = call[a].over
        /\ \A b \in Attempt \ {a} : call'[b] = call[b]
    BY <1>0, <2>1 DEF Calls, Call
  <2>3. call[a].stage \in Setup /\ s \notin {"idle"} \cup Unleased /\ call[a].stage \in Reserved
    BY <1>6 DEF Resolve, At, Unleased, Reserved, Setup
  <2>4. lapsed' = lapsed /\ mem' = mem /\ row' = row
    BY <1>6 DEF Resolve, clock
  <2> QED
    BY <1>0, <2>2, <2>3, <2>4, LeaseMove
<1>7. ASSUME NEW a \in Attempt, Mark(a) \/ FailSetup(a) PROVE Leases'
  <2>1. PICK s \in {"asking", "withdrawing"} : Go(a, s) /\ (s = "asking" => At(a, "marking"))
    BY <1>7 DEF Mark, FailSetup
  <2>2. row'.pending = row.pending
    BY <1>0, <1>7 DEF Mark, FailSetup, Perhaps, Marked, Row
  <2>3. /\ s \in Stage \ ({"idle"} \cup Unleased \cup Setup)
        /\ s \in Reserved => call[a].stage \in Reserved
    BY <2>1 DEF At, Stage, Unleased, Reserved, Setup, Leaving
  <2>4. lapsed' = lapsed /\ mem' = mem
    BY <1>7 DEF Mark, FailSetup, clock
  <2> QED
    BY <1>2, <2>1, <2>2, <2>3, <2>4
<1>8. ASSUME NEW a \in Attempt,
             Redeem(a) \/ LoseAnswer(a) \/ Commit(a) \/ Note(a) \/ Date(a) \/ FailNote(a) \/ FailDate(a)
      PROVE  Leases'
  <2>1. PICK s \in {"answered", "releasing", "noting", "dating", "ended"} : Go(a, s)
    BY <1>8 DEF Redeem, LoseAnswer, Commit, Note, Date, FailNote, FailDate
  <2>2. call[a].stage \in Reserved
    BY <1>8 DEF Redeem, LoseAnswer, Commit, Note, Date, FailNote, FailDate, At, Reserved
  <2>3. row'.pending = row.pending /\ lapsed' = lapsed
    BY <1>0, <1>8
    DEF Redeem, LoseAnswer, Commit, Note, Date, FailNote, FailDate, Noted, Dated, Perhaps, Row, clock
  <2>4. \A p \in Process : mem'[p].pending = mem[p].pending \/ mem'[p].pending = None
    <3>1. CASE Commit(a)
      BY <1>0, <3>1 DEF Commit, Memory
    <3>2. CASE ~Commit(a)
      BY <1>0, <1>8, <3>2, FreedForgets DEF Redeem, LoseAnswer, Note, Date, FailNote, FailDate
    <3> QED
      BY <3>1, <3>2
  <2>5. s \in Stage \ ({"idle"} \cup Unleased \cup Setup)
    BY <2>1 DEF Stage, Unleased, Reserved, Setup, Leaving
  <2> QED
    BY <1>2, <2>1, <2>2, <2>3, <2>4, <2>5
<1>9. ASSUME NEW a \in Attempt, Release(a) \/ FailRelease(a) PROVE Leases'
  <2>1. Go(a, "ended") /\ lapsed' = lapsed
    BY <1>9 DEF Release, FailRelease, clock
  <2>2. row'.pending = row.pending \/ (row.pending = a /\ row'.pending = None)
    <3>1. Released(a).pending = IF row.pending = a THEN None ELSE row.pending
      BY <1>0 DEF Released, Row
    <3> QED
      BY <1>9, <3>1 DEF Release, FailRelease, Perhaps
  <2>3. \A p \in Process : mem'[p].pending = mem[p].pending \/ mem'[p].pending = None
    BY <1>0, <1>9, FreedForgets DEF Release, FailRelease
  <2> QED
    BY <1>2, <2>1, <2>2, <2>3 DEF Stage, Unleased, Reserved, Setup
<1>10. ASSUME NEW p \in Process, Crash(p) PROVE Leases'
  <2>1. \A a \in Attempt : call'[a] = NoCall("ended") \/ call'[a] = call[a]
    BY <1>10 DEF Crash
  <2>2. \A q \in Process : mem'[q].pending = mem[q].pending \/ mem'[q].pending = None
    BY <1>0, <1>10 DEF Crash, Forgotten
  <2>3. None \notin Attempt
    BY ResetCreditAssumption
  <2> QED
    BY <1>0, <1>10, <2>1, <2>2, <2>3
    DEF Crash, clock, Leases, LeaseIsExclusive, Unleased, Reserved, Setup
<1>11. ASSUME NEW a \in Attempt, Lapse(a) PROVE Leases'
  <2>1. call[a].stage \notin {"idle"} \cup Unleased \cup Setup
    BY <1>0, <1>11 DEF Lapse, Leases
  <2> QED
    BY <1>11, <2>1 DEF Lapse, Leases, LeaseIsExclusive
<1>12. CASE Tick \/ NextWindow \/ (\E q \in adrift : RedeemLate(q)) \/ UNCHANGED vars
  BY <1>12 DEF Tick, NextWindow, RedeemLate, vars, clock, upstream, Leases, LeaseIsExclusive
<1> QED
  BY <1>1, <1>3, <1>3a, <1>4, <1>5, <1>6, <1>7, <1>8, <1>9, <1>10, <1>11, <1>12 DEF Next, Fail

LEMMA LeaseInit == Init => Leases
  BY ResetCreditAssumption
  DEF Init, Leases, LeaseIsExclusive, NoCall, Forgotten, Unleased, Reserved, Setup

\* Exclusion: as long as an attempt's lease has not run out, the row holds it.
THEOREM LeaseAlwaysExclusive == Spec => []LeaseIsExclusive
<1>1. Leases => LeaseIsExclusive
  BY DEF Leases
<1> QED
  BY <1>1, LeaseInit, LeaseStep, TypeCorrect, PTL DEF Spec

-----------------------------------------------------------------------------
(* The hour between two credits.                                           *)

\* One attempt at a time relies on the lease, unless something was lost.
LEMMA Alone ==
  ASSUME Leases, Cooldown, ~lost,
         NEW a \in Attempt, NEW b \in Attempt, call[a].stage \in Reserved, call[b].stage \in Reserved
  PROVE  a = b
  BY DEF Leases, LeaseIsExclusive, Cooldown

\* A move of one attempt that records nothing and loses nothing keeps the
\* invariant, if a lease is relied on as before and no credit is forgotten.
LEMMA CooldownMove ==
  ASSUME Cooldown, NEW a \in Attempt, ~lost' => ~lost,
         spent' = spent, row'.last = row.last,
         \A b \in Attempt \ {a} : call'[b] = call[b],
         \A b \in Attempt : b \in lapsed' =>
           b \in lapsed \/ ~(call'[b].stage \in Reserved),
         call'[a].stage \in Reserved => a \notin lapsed',
         call'[a].stage \in Confirmed => CooldownPassed(row.last, call'[a].at),
         call[a].stage \in Paid => call'[a].stage \in Paid /\ call'[a].at = call[a].at
  PROVE  Cooldown'
<1> SUFFICES ASSUME ~lost'
             PROVE  /\ \A b \in Attempt : call'[b].stage \in Reserved => b \notin lapsed'
                    /\ \A b \in Attempt : call'[b].stage \in Confirmed =>
                                            CooldownPassed(row'.last, call'[b].at)
                    /\ \A q \in spent' : Dates(q)'
                    /\ CooldownKept'
  BY DEF Cooldown
<1>1. \A b \in Attempt : call'[b].stage \in Reserved => b \notin lapsed'
  BY DEF Cooldown
<1>2. \A b \in Attempt : call'[b].stage \in Confirmed => CooldownPassed(row'.last, call'[b].at)
  BY DEF Cooldown
<1>3. \A q \in spent : Dates(q)'
  BY DEF Cooldown, Dates
<1>4. CooldownKept'
  BY DEF Cooldown, CooldownKept
<1> QED
  BY <1>1, <1>2, <1>3, <1>4

\* Every step keeps the cooldown's invariant.
LEMMA CooldownStep == TypeOK /\ Leases /\ Cooldown /\ [Next]_vars => Cooldown'
<1> SUFFICES ASSUME TypeOK, Leases, Cooldown, [Next]_vars PROVE Cooldown'
  OBVIOUS
<1>0. /\ Places /\ Calls /\ Requests
      /\ row \in Row
      /\ NoCall("ended").stage = "ended"
  BY TypesApart DEF Places, NoCall
<1>1. ASSUME NEW a \in Attempt, Reserve(a) PROVE Cooldown'
  <2>1. call'[a].stage = "resolvingKey" /\ \A b \in Attempt \ {a} : call'[b] = call[b]
    BY <1>0, <1>1 DEF Reserve, Calls
  <2>2. "resolvingKey" \notin Reserved \cup Confirmed /\ call[a].stage \notin Paid
    BY <1>1 DEF Reserve, At, Confirmed, Reserved, Setup, Paid
  <2> QED
    BY <1>1, <2>1, <2>2, CooldownMove DEF Reserve, clock, upstream
<1>2. ASSUME NEW a \in Attempt, NEW s \in Stage, Go(a, s), ~lost' => ~lost,
             spent' = spent, row'.last = row.last, lapsed' = lapsed,
             s \in Reserved => call[a].stage \in Reserved,
             s \in Confirmed => call[a].stage \in Confirmed \/ CooldownPassed(row.last, call[a].at),
             call[a].stage \in Paid => s \in Paid
      PROVE  Cooldown'
  <2>1. /\ call'[a].stage = s /\ \A b \in Attempt \ {a} : call'[b] = call[b]
        /\ s # "ended" => call'[a].at = call[a].at
    BY <1>0, <1>2, GoStep
  <2>2. CASE lost'
    BY <2>2 DEF Cooldown
  <2>3. CASE ~lost'
    <3>1. s \in Reserved => a \notin lapsed
      BY <1>2, <2>3 DEF Cooldown
    <3>2. s \in Confirmed => CooldownPassed(row.last, call[a].at)
      BY <1>2, <2>3 DEF Cooldown
    <3>3. "ended" \notin Confirmed \cup Paid
      BY DEF Confirmed, Reserved, Setup, Paid
    <3> QED
      BY <1>2, <2>1, <2>3, <3>1, <3>2, <3>3, CooldownMove
  <2> QED
    BY <2>2, <2>3
<1>3. ASSUME NEW a \in Attempt, Consult(a) \/ Recall(a) \/ Check(a) \/ FailEarly(a) PROVE Cooldown'
  <2>1. PICK s \in {"recalling", "checking", "claiming", "ended"} : Go(a, s)
    BY <1>3 DEF Consult, AfterMemory, Recall, Check, FailEarly
  <2>2. s \in Stage \ (Reserved \cup Confirmed) /\ call[a].stage \notin Paid
    BY <1>3, <2>1
    DEF Consult, Recall, Check, FailEarly, At, Stage, Unleased, Confirmed, Reserved, Setup, Paid
  <2>3. row' = row /\ lapsed' = lapsed /\ spent' = spent /\ lost' = lost
    BY <1>3 DEF Consult, Recall, Check, FailEarly, clock, upstream
  <2> QED
    BY <1>2, <2>1, <2>2, <2>3
<1>4. ASSUME NEW a \in Attempt, Claim(a) \/ FailClaim(a) PROVE Cooldown'
  <2>1. PICK s \in {"ended", "confirming"} : Go(a, s)
    BY <1>4 DEF Claim, FailClaim
  <2>2. call'[a].stage = s /\ \A b \in Attempt \ {a} : call'[b] = call[b]
    BY <1>0, <2>1, GoStep DEF Stage, Reserved, Setup
  <2>3. row'.last = row.last /\ lapsed' = lapsed /\ spent' = spent /\ lost' = lost
    BY <1>0, <1>4 DEF Claim, FailClaim, Perhaps, Row, clock, upstream
  <2>4. a \notin lapsed
    BY <1>4 DEF Claim, FailClaim, At, Leases, Unleased
  <2>5. s \notin Confirmed /\ call[a].stage \notin Paid
    BY <1>4 DEF Claim, FailClaim, At, Confirmed, Reserved, Setup, Paid
  <2> QED
    BY <2>2, <2>3, <2>4, <2>5, CooldownMove
<1>5. ASSUME NEW a \in Attempt, Confirm(a) \/ Recheck(a) PROVE Cooldown'
  <2>1. PICK s \in {"rechecking", "resolving", "withdrawing"} :
          /\ Go(a, s)
          /\ At(a, "confirming") /\ s # "withdrawing" => CooldownPassed(row.last, call[a].at)
    BY <1>5 DEF Confirm, Recheck, At
  <2>2. call[a].stage \in {"confirming", "rechecking"}
    BY <1>5 DEF Confirm, Recheck, At
  <2>3. row' = row /\ lapsed' = lapsed /\ spent' = spent /\ lost' = lost
    BY <1>5 DEF Confirm, Recheck, clock, upstream
  <2>4. /\ s \in Stage /\ call[a].stage \in Reserved \ Paid
        /\ s \in Confirmed => call[a].stage \in Confirmed \/ CooldownPassed(row.last, call[a].at)
    BY <2>1, <2>2 DEF At, Stage, Confirmed, Reserved, Setup, Leaving, Paid
  <2> QED
    BY <1>2, <2>1, <2>3, <2>4
<1>6. ASSUME NEW a \in Attempt, Resolve(a) PROVE Cooldown'
  <2>1. PICK s \in {"asking", "marking"}, i \in Attempt :
          call' = [call EXCEPT ![a].stage = s, ![a].id = i]
    BY <1>0, <1>6, ResetCreditAssumption DEF Resolve, Row, Marker
  <2>2. call'[a].stage = s /\ call'[a].at = call[a].at
        /\ \A b \in Attempt \ {a} : call'[b] = call[b]
    BY <1>0, <2>1 DEF Calls, Call
  <2>3. call[a].stage \in Confirmed /\ call[a].stage \in Reserved /\ call[a].stage \notin Paid
    BY <1>6 DEF Resolve, At, Confirmed, Reserved, Setup, Paid
  <2>4. row' = row /\ lapsed' = lapsed /\ spent' = spent /\ lost' = lost
    BY <1>6 DEF Resolve, clock, upstream
  <2>5. CASE lost'
    BY <2>5 DEF Cooldown
  <2>6. CASE ~lost'
    <3>1. a \notin lapsed /\ CooldownPassed(row.last, call[a].at)
      BY <2>3, <2>4, <2>6 DEF Cooldown
    <3> QED
      BY <2>2, <2>3, <2>4, <3>1, CooldownMove
  <2> QED
    BY <2>5, <2>6
<1>7. ASSUME NEW a \in Attempt, Mark(a) \/ FailSetup(a) \/ LoseAnswer(a) PROVE Cooldown'
  <2>1. CASE lost'
    BY <2>1 DEF Cooldown
  <2>2. CASE ~lost'
    <3>1. PICK s \in {"asking", "withdrawing", "releasing"} :
            Go(a, s) /\ (s = "asking" => call[a].stage \in Setup /\ At(a, "marking"))
      BY <1>7 DEF Mark, FailSetup, LoseAnswer, At, Setup
    <3>2. call[a].stage \notin Paid /\ ~lost
      <4>1. CASE LoseAnswer(a)
        BY <1>0, <2>2, <4>1 DEF LoseAnswer, At, Paid, Requests
      <4>2. CASE Mark(a) \/ FailSetup(a)
        BY <2>2, <4>2 DEF Mark, FailSetup, At, Paid, Setup, upstream
      <4> QED
        BY <1>7, <4>1, <4>2
    <3>3. row'.last = row.last
      BY <1>0, <1>7 DEF Mark, FailSetup, LoseAnswer, Perhaps, Marked, Row
    <3>4. lapsed' = lapsed /\ spent' = spent
      BY <1>7 DEF Mark, FailSetup, LoseAnswer, clock, upstream
    <3>5. /\ s \in Stage
          /\ s \in Reserved => call[a].stage \in Reserved
          /\ s \in Confirmed => call[a].stage \in Confirmed
      BY <3>1 DEF At, Stage, Confirmed, Reserved, Setup, Leaving
    <3> QED
      BY <1>2, <3>1, <3>2, <3>3, <3>4, <3>5
  <2> QED
    BY <2>1, <2>2
<1>8. ASSUME NEW a \in Attempt, Redeem(a) PROVE Cooldown'
  <2>1. PICK s \in {"answered", "releasing"} : Go(a, s) /\ (s = "releasing" => spent' = spent)
    BY <1>8 DEF Redeem
  <2>2. /\ call[a].stage = "asking" /\ call[a].stage \in Reserved \cap Confirmed
        /\ call[a].stage \notin Paid
    BY <1>8 DEF Redeem, At, Reserved, Confirmed, Setup, Paid
  <2>3. row' = row /\ lapsed' = lapsed /\ lost' = lost
    BY <1>8 DEF Redeem, clock
  <2>4. CASE spent' = spent
    <3>1. s \in Stage
      BY <2>1 DEF Stage, Reserved, Leaving
    <3> QED
      BY <1>2, <2>1, <2>2, <2>3, <2>4, <3>1
  <2>5. CASE spent' # spent
    <3> DEFINE q == RequestOf(a)
    <3>1. s = "answered" /\ spent' = spent \cup {q}
      BY <1>8, <2>1, <2>5 DEF Redeem, Redeemed
    <3>2. q.at = call[a].at /\ q \in Request /\ call[a].at \in Hour /\ spent \subseteq Request
      BY <1>0, <2>2, Held DEF RequestOf, Requests, Identified, Setup
    <3>3. /\ call'[a].stage = "answered" /\ call'[a].at = call[a].at
          /\ \A b \in Attempt \ {a} : call'[b] = call[b]
      BY <1>0, <2>1, <3>1, GoStep DEF Stage, Reserved
    <3> HIDE DEF q
    <3> SUFFICES ASSUME ~lost
                 PROVE  /\ \A b \in Attempt : call'[b].stage \in Reserved => b \notin lapsed'
                        /\ \A b \in Attempt : call'[b].stage \in Confirmed =>
                                                CooldownPassed(row'.last, call'[b].at)
                        /\ \A r \in spent' : Dates(r)'
                        /\ CooldownKept'
      BY <2>3 DEF Cooldown
    <3>4. \A b \in Attempt : call'[b].stage \in Reserved => b \notin lapsed'
      BY <2>2, <2>3, <3>3 DEF Cooldown
    <3>5. CooldownPassed(row.last, call[a].at)
      BY <2>2 DEF Cooldown
    <3>6. \A b \in Attempt : call'[b].stage \in Confirmed => CooldownPassed(row'.last, call'[b].at)
      BY <2>3, <3>3, <3>5 DEF Cooldown
    <3>7. \A b \in Attempt : call[b].stage \notin Paid
      <4> SUFFICES ASSUME NEW b \in Attempt, call[b].stage \in Paid PROVE FALSE
        OBVIOUS
      <4>1. call[b].stage \in Reserved
        BY DEF Paid, Reserved
      <4> QED
        BY <2>2, <4>1, Alone
    <3>8. \A r \in spent : row.last # None /\ r.at <= row.last
      BY <3>7 DEF Cooldown, Dates
    <3>9. \A r \in spent' : Dates(r)'
      BY <2>3, <3>1, <3>2, <3>3, <3>8 DEF Dates, Paid
    <3>10. \A r \in spent : r.at # q.at
      <4> SUFFICES ASSUME NEW r \in spent, r.at = q.at PROVE FALSE
        OBVIOUS
      <4>1. row.last \in Hour /\ r.at \in Hour
        BY <1>0, <3>2, <3>8 DEF Row
      <4> QED
        BY <3>2, <3>5, <3>8, <4>1, ResetCreditAssumption DEF CooldownPassed, Hour
    <3>11. CooldownKept'
      BY <3>1, <3>10 DEF Cooldown, CooldownKept
    <3> QED
      BY <3>4, <3>6, <3>9, <3>11
  <2> QED
    BY <2>4, <2>5
<1>9. ASSUME NEW a \in Attempt, Commit(a) \/ Note(a) PROVE Cooldown'
  <2>1. PICK s \in {"noting", "dating"} : Go(a, s)
    BY <1>9 DEF Commit, Note
  <2>2. /\ s \in Stage \cap Paid
        /\ call[a].stage \in Reserved \cap Confirmed
    BY <1>9, <2>1 DEF Commit, Note, At, Stage, Confirmed, Reserved, Setup, Paid
  <2>3. row'.last = row.last /\ lapsed' = lapsed /\ spent' = spent /\ lost' = lost
    BY <1>0, <1>9 DEF Commit, Note, Noted, Row, clock, upstream
  <2> QED
    BY <1>2, <2>1, <2>2, <2>3
<1>10. ASSUME NEW a \in Attempt, Date(a) PROVE Cooldown'
  <2>1. Go(a, "releasing") /\ lapsed' = lapsed /\ spent' = spent /\ lost' = lost
    BY <1>10 DEF Date, clock, upstream
  <2>2. row'.last = call[a].at
    BY <1>0, <1>10 DEF Date, Dated, Row
  <2>3. call[a].stage \in Reserved \cap Confirmed /\ call[a].at \in Hour
    BY <1>0, <1>10, Held DEF Date, At, Confirmed, Reserved, Setup
  <2>4. call'[a].stage = "releasing" /\ \A b \in Attempt \ {a} : call'[b] = call[b]
    BY <1>0, <2>1, GoStep DEF Stage, Leaving
  <2> SUFFICES ASSUME ~lost
               PROVE  /\ \A b \in Attempt : call'[b].stage \in Reserved => b \notin lapsed'
                      /\ \A b \in Attempt : call'[b].stage \in Confirmed =>
                                              CooldownPassed(row'.last, call'[b].at)
                      /\ \A q \in spent' : Dates(q)'
                      /\ CooldownKept'
    BY <2>1 DEF Cooldown
  <2>5. \A b \in Attempt : call'[b].stage \notin Reserved
    <3>1. "releasing" \notin Reserved
      BY DEF Reserved, Setup
    <3>2. ASSUME NEW b \in Attempt \ {a}, call'[b].stage \in Reserved PROVE FALSE
      BY <2>3, <2>4, <3>2, Alone
    <3> QED
      BY <2>4, <3>1, <3>2
  <2>6. CooldownPassed(row.last, call[a].at)
    BY <2>3 DEF Cooldown
  <2>7. \A q \in spent : Dates(q)'
    <3> SUFFICES ASSUME NEW q \in spent PROVE Dates(q)'
      OBVIOUS
    <3>1. q.at \in Hour /\ call[a].at # None
      BY <1>0, <2>3, ResetCreditAssumption DEF Requests, Request, Hour
    <3>2. CASE row.last # None /\ q.at <= row.last
      <4>1. row.last \in Hour
        BY <1>0, <3>2 DEF Row
      <4>2. q.at <= call[a].at
        BY <2>3, <2>6, <3>1, <3>2, <4>1, ResetCreditAssumption DEF CooldownPassed, Hour
      <4> QED
        BY <2>2, <3>1, <4>2 DEF Dates
    <3>3. ASSUME NEW b \in Attempt, call[b].stage \in Paid, call[b].at = q.at PROVE Dates(q)'
      <4>1. call[b].stage \in Reserved
        BY <3>3 DEF Paid, Reserved
      <4>2. q.at = call[a].at
        BY <2>3, <3>3, <4>1, Alone
      <4>3. q.at <= call[a].at
        BY <2>3, <4>2, ResetCreditAssumption DEF Hour
      <4> QED
        BY <2>2, <3>1, <4>3 DEF Dates
    <3> QED
      BY <3>2, <3>3 DEF Cooldown, Dates
  <2>8. CooldownKept'
    BY <2>1 DEF Cooldown, CooldownKept
  <2> QED
    BY <2>1, <2>5, <2>7, <2>8 DEF Confirmed
<1>11. ASSUME NEW a \in Attempt, FailNote(a) \/ FailDate(a) PROVE Cooldown'
  BY <1>11 DEF FailNote, FailDate, Cooldown
<1>12. ASSUME NEW a \in Attempt, Release(a) \/ FailRelease(a) PROVE Cooldown'
  <2>1. Go(a, "ended") /\ lapsed' = lapsed /\ spent' = spent /\ lost' = lost
    BY <1>12 DEF Release, FailRelease, clock, upstream
  <2>2. row'.last = row.last
    BY <1>0, <1>12 DEF Release, FailRelease, Perhaps, Released, Row
  <2>3. "ended" \in Stage \ (Reserved \cup Confirmed) /\ call[a].stage \notin Paid
    BY <1>12 DEF Release, FailRelease, Leaving, Stage, Confirmed, Reserved, Setup, Paid
  <2> QED
    BY <1>2, <2>1, <2>2, <2>3
<1>13. ASSUME NEW p \in Process, Crash(p) PROVE Cooldown'
  <2>1. CASE lost'
    BY <2>1 DEF Cooldown
  <2>2. CASE ~lost'
    <3>1. \A a \in Attempt : /\ call'[a] = NoCall("ended") \/ call'[a] = call[a]
                             /\ call[a].stage \in Paid => call'[a] = call[a]
      BY <1>13, <2>2 DEF Crash, Paid
    <3>2. "ended" \notin Reserved \cup Confirmed
      BY DEF Reserved, Confirmed, Setup
    <3>3. row' = row /\ lapsed' = lapsed /\ spent' = spent /\ ~lost
      BY <1>13, <2>2 DEF Crash, clock
    <3> QED
      BY <1>0, <3>1, <3>2, <3>3 DEF Cooldown, CooldownKept, Dates
  <2> QED
    BY <2>1, <2>2
<1>14. ASSUME NEW q \in adrift, RedeemLate(q) PROVE Cooldown'
  <2>1. lost' \/ spent' = spent
    BY <1>14 DEF RedeemLate, Redeemed
  <2> QED
    BY <1>14, <2>1 DEF RedeemLate, Cooldown, CooldownKept, Dates, clock
<1>15. ASSUME NEW a \in Attempt, Lapse(a) PROVE Cooldown'
  BY <1>15 DEF Lapse, Cooldown, CooldownKept, Dates
<1>16. CASE Tick \/ NextWindow \/ UNCHANGED vars
  BY <1>16 DEF Tick, NextWindow, vars, upstream, Cooldown, CooldownKept, Dates
<1> QED
  BY <1>1, <1>3, <1>4, <1>5, <1>6, <1>7, <1>8, <1>9, <1>10, <1>11, <1>12, <1>13, <1>14, <1>15, <1>16
  DEF Next, Fail

\* An hour between two credits, whatever processes spend them and whatever the
\* store and the upstream do, as long as the time of each was recorded in time.
THEOREM CooldownAlwaysKept == Spec => []CooldownKept
<1>1. Init => Cooldown
  BY DEF Init, Cooldown, CooldownKept, NoCall, Reserved, Confirmed, Setup
<1>2. Cooldown => CooldownKept
  BY DEF Cooldown, CooldownKept
<1> QED
  BY <1>1, <1>2, CooldownStep, LeaseInit, LeaseStep, TypeCorrect, PTL DEF Spec

-----------------------------------------------------------------------------
(* One credit for each window.                                             *)

\* Who is inside reserve() with the lease is alone there.
LEMMA AloneInSetup ==
  ASSUME Leases, NEW a \in Attempt, NEW b \in Attempt,
         call[a].stage \in Setup, call[b].stage \in Setup
  PROVE  a = b
  BY DEF Leases, LeaseIsExclusive, Reserved

\* A step that brings no new request and leaves the redeem row alone.
LEMMA IdsMove ==
  ASSUME Ids, row'.redeem = row.redeem, week' = week, Live' \subseteq Live,
         OneCreditPerWindow',
         \A b \in Attempt : call'[b].stage \in Unleased \cup Setup => call'[b].win.week = week,
         \A b \in Attempt : call'[b].stage = "marking" => call[b].stage = "marking"
  PROVE  Ids'
<1>1. \A q \in Live' : Current(q)'
  BY DEF Ids, Current
<1>2. \A q, r \in Live' : q.week = r.week => q.id = r.id
  BY DEF Ids
<1>3. \A b \in Attempt : At(b, "marking")' => row'.redeem = None \/ row'.redeem.window.week # week'
  BY DEF Ids, At
<1>4. row'.redeem # None => row'.redeem.window.week <= week'
  BY DEF Ids
<1> QED
  BY <1>1, <1>2, <1>3, <1>4 DEF Ids

\* The requests after a move of one attempt.
LEMMA LiveAfter ==
  ASSUME NEW a \in Attempt, \A b \in Attempt \ {a} : call'[b] = call[b],
         adrift' \subseteq Live, spent' \subseteq Live,
         call'[a].stage = "asking" => RequestOf(a)' \in Live
  PROVE  Live' \subseteq Live
  BY DEF Live, At, RequestOf

\* Every step keeps the invariant of the redeem ids.
LEMMA IdStep ==
  ASSUME NEW d, Drift = {d}
  PROVE  TypeOK /\ Leases /\ Ids /\ [Next]_vars => Ids'
<1> SUFFICES ASSUME TypeOK, Leases, Ids, [Next]_vars PROVE Ids'
  OBVIOUS
<1>0. /\ Places /\ Calls /\ Requests
      /\ row \in Row /\ week \in Nat
      /\ NoCall("ended").stage = "ended"
      /\ adrift \subseteq Live /\ spent \subseteq Live
  BY TypesApart, ResetCreditAssumption DEF Places, NoCall, Live, Week
<1>1. ASSUME NEW a \in Attempt, NEW s \in Stage, Go(a, s),
             row'.redeem = row.redeem, week' = week, adrift' \subseteq Live, spent' = spent,
             s \in Unleased \cup Setup => call[a].stage \in Unleased \cup Setup,
             s \notin {"asking", "marking"}
      PROVE  Ids'
  <2>1. /\ call'[a].stage = s /\ \A b \in Attempt \ {a} : call'[b] = call[b]
        /\ s # "ended" => call'[a].win = call[a].win
    BY <1>0, <1>1, GoStep
  <2>2. Live' \subseteq Live
    BY <1>0, <1>1, <2>1, LiveAfter
  <2>3. OneCreditPerWindow'
    BY <1>1 DEF Ids, OneCreditPerWindow
  <2>4. \A b \in Attempt : call'[b].stage \in Unleased \cup Setup => call'[b].win.week = week
    BY <1>1, <2>1 DEF Ids, Unleased, Setup
  <2> QED
    BY <1>1, <2>1, <2>2, <2>3, <2>4, IdsMove
<1>2. ASSUME NEW a \in Attempt, Reserve(a) PROVE Ids'
  <2>1. /\ call'[a].stage = "resolvingKey" /\ call'[a].win.week = week
        /\ \A b \in Attempt \ {a} : call'[b] = call[b]
    BY <1>0, <1>2 DEF Reserve, Calls
  <2>2. row' = row /\ week' = week /\ adrift' = adrift /\ spent' = spent
    BY <1>2 DEF Reserve, clock, upstream
  <2>3. Live' \subseteq Live
    BY <1>0, <2>1, <2>2, LiveAfter
  <2>4. OneCreditPerWindow'
    BY <2>2 DEF Ids, OneCreditPerWindow
  <2>5. \A b \in Attempt : call'[b].stage \in Unleased \cup Setup => call'[b].win.week = week
    BY <2>1 DEF Ids
  <2> QED
    BY <2>1, <2>2, <2>3, <2>4, <2>5, IdsMove
<1>3. ASSUME NEW a \in Attempt,
             Consult(a) \/ Recall(a) \/ Check(a) \/ Claim(a) \/ Confirm(a) \/ Recheck(a)
      PROVE  Ids'
  <2>1. PICK s \in {"recalling", "checking", "claiming", "confirming", "rechecking", "resolving",
                    "withdrawing", "ended"} : Go(a, s)
    BY <1>3 DEF Consult, AfterMemory, Recall, Check, Claim, Confirm, Recheck
  <2>2. /\ s \in Stage \ {"asking", "marking"}
        /\ call[a].stage \in Unleased \cup Setup
    BY <1>3 DEF Consult, Recall, Check, Claim, Confirm, Recheck, At, Stage, Unleased, Reserved, Setup, Leaving
  <2>3. row'.redeem = row.redeem
    BY <1>0, <1>3 DEF Consult, Recall, Check, Claim, Confirm, Recheck, Row
  <2>4. week' = week /\ adrift' = adrift /\ spent' = spent
    BY <1>3 DEF Consult, Recall, Check, Claim, Confirm, Recheck, clock, upstream
  <2> QED
    BY <1>0, <1>1, <2>1, <2>2, <2>3, <2>4
<1>4. ASSUME NEW a \in Attempt, Resolve(a) PROVE Ids'
  <2> DEFINE known == row.redeem # None /\ row.redeem.window = call[a].win
             s == IF known THEN "asking" ELSE "marking"
             i == IF known THEN row.redeem.id ELSE a
  <2>1. call' = [call EXCEPT ![a].stage = s, ![a].id = i]
    BY <1>4 DEF Resolve
  <2>2. s \in {"asking", "marking"} /\ (s = "asking" <=> known)
    OBVIOUS
  <2>3. /\ call'[a].stage = s /\ call'[a].win = call[a].win
        /\ call'[a].at = call[a].at /\ call'[a].id = i
        /\ \A b \in Attempt \ {a} : call'[b] = call[b]
    BY <1>0, <2>1 DEF Calls, Call
  <2>4. row' = row /\ week' = week /\ adrift' = adrift /\ spent' = spent
    BY <1>4 DEF Resolve, clock, upstream
  <2>5. call[a].win.week = week /\ call[a].win \in Window
    BY <1>0, <1>4, Held DEF Resolve, At, Ids, Setup
  <2>6. known => row.redeem.window.week = week /\ i = row.redeem.id
    BY <2>5
  <2>7. ~known => row.redeem = None \/ row.redeem.window.week # week
    BY <1>0, <2>5 DEF Row, Marker, Window
  <2> HIDE DEF known, s, i
  <2>8. OneCreditPerWindow'
    BY <2>4 DEF Ids, OneCreditPerWindow
  <2>9. \A b \in Attempt : call'[b].stage \in Unleased \cup Setup => call'[b].win.week = week
    BY <2>3, <2>5 DEF Ids
  <2>10. \A b \in Attempt : At(b, "marking")' => row.redeem = None \/ row.redeem.window.week # week
    BY <2>2, <2>3, <2>7 DEF Ids, At
  <2>11. \A q \in Live' : q \in Live \/ (known /\ q.week = week /\ q.id = i)
    BY <2>2, <2>3, <2>4, <2>5 DEF Live, At, RequestOf
  <2>12. \A q \in Live' : Current(q)
    BY <1>0, <2>6, <2>11 DEF Ids, Current, known
  <2>13. \A q, r \in Live' : q.week = r.week => q.id = r.id
    BY <2>6, <2>11, <2>12 DEF Ids, Current
  <2> QED
    BY <2>4, <2>8, <2>9, <2>10, <2>12, <2>13 DEF Ids, Current
<1>5. ASSUME NEW a \in Attempt, Mark(a) \/ (FailSetup(a) /\ row' # row) PROVE Ids'
  <2>1. At(a, "marking") /\ row' = Marked(a)
    BY <1>5 DEF Mark, FailSetup, Perhaps
  <2>2. PICK s \in {"asking", "withdrawing"} : Go(a, s)
    BY <1>5 DEF Mark, FailSetup
  <2>3. /\ call'[a].stage = s /\ call'[a].win = call[a].win
        /\ call'[a].id = call[a].id /\ call'[a].at = call[a].at
        /\ \A b \in Attempt \ {a} : call'[b] = call[b]
    BY <1>0, <2>2, GoStep DEF Stage, Reserved, Leaving
  <2>4. week' = week /\ adrift' = adrift /\ spent' = spent
    BY <1>5 DEF Mark, FailSetup, clock, upstream
  <2>5. call[a].win.week = week /\ call[a].win \in Window /\ call[a].id \in Attempt
    BY <1>0, <2>1, Held DEF At, Ids, Setup, Identified, Reserved
  <2>6. row'.redeem = [window |-> call[a].win, id |-> call[a].id]
    BY <1>0, <2>1 DEF Marked, Row
  <2>7. row'.redeem # None /\ row'.redeem.window.week = week /\ row'.redeem.id = call[a].id
    <3>1. None # [window |-> call[a].win, id |-> call[a].id]
      BY <2>5, ResetCreditAssumption DEF Window, Week
    <3> QED
      BY <2>5, <2>6, <3>1
  <2>8. OneCreditPerWindow'
    BY <2>4 DEF Ids, OneCreditPerWindow
  <2>9. \A b \in Attempt : call'[b].stage \in Unleased \cup Setup => call'[b].win.week = week
    BY <2>3, <2>5 DEF Ids
  <2>10. \A b \in Attempt : ~At(b, "marking")'
    <3>1. s # "marking"
      OBVIOUS
    <3>2. ASSUME NEW b \in Attempt \ {a}, call'[b].stage = "marking" PROVE FALSE
      BY <2>1, <2>3, <3>2, AloneInSetup DEF At, Setup
    <3> QED
      BY <2>3, <3>1, <3>2 DEF At
  <2>11. \A q \in Live : q.week <= week /\ q.week # week
    BY <2>1 DEF Ids, Current
  <2>12. \A q \in Live' : q \in Live \/ (q.week = week /\ q.id = call[a].id)
    BY <2>3, <2>4, <2>5 DEF Live, At, RequestOf
  <2>13. \A q \in Live' : Current(q)'
    BY <1>0, <2>4, <2>7, <2>11, <2>12 DEF Current
  <2>14. \A q, r \in Live' : q.week = r.week => q.id = r.id
    BY <2>11, <2>12 DEF Ids
  <2>15. row'.redeem.window.week <= week'
    BY <1>0, <2>4, <2>7
  <2> QED
    BY <2>4, <2>8, <2>9, <2>10, <2>13, <2>14, <2>15 DEF Ids
<1>6. ASSUME NEW a \in Attempt,
             FailEarly(a) \/ FailClaim(a) \/ (FailSetup(a) /\ row' = row) \/ LoseAnswer(a)
      PROVE  Ids'
  <2>1. PICK s \in {"ended", "withdrawing", "releasing"} : Go(a, s)
    BY <1>6 DEF FailEarly, FailClaim, FailSetup, LoseAnswer
  <2>2. s \in Stage \ ({"asking", "marking"} \cup Unleased \cup Setup)
    BY DEF Stage, Unleased, Reserved, Setup, Leaving
  <2>3. row'.redeem = row.redeem
    BY <1>0, <1>6 DEF FailEarly, FailClaim, FailSetup, LoseAnswer, Perhaps, Row
  <2>4. week' = week /\ adrift' \subseteq Live /\ spent' = spent
    BY <1>0, <1>6 DEF FailEarly, FailClaim, FailSetup, LoseAnswer, clock, upstream, Live
  <2> QED
    BY <1>1, <2>1, <2>2, <2>3, <2>4
<1>7. ASSUME NEW q \in Live, spent' = Redeemed(q) PROVE OneCreditPerWindow'
  <2>1. \A r \in spent : ~Known(q) => r.week # q.week
    BY <1>0 DEF Ids, Known
  <2> QED
    BY <1>7, <2>1 DEF Redeemed, Ids, OneCreditPerWindow
<1>8. ASSUME NEW a \in Attempt, Redeem(a) PROVE Ids'
  <2>1. PICK s \in {"answered", "releasing"} : Go(a, s)
    BY <1>8 DEF Redeem
  <2>2. RequestOf(a) \in Live
    BY <1>8 DEF Redeem, Live
  <2>3. row' = row /\ week' = week /\ adrift' = adrift
    BY <1>8 DEF Redeem, clock
  <2>4. /\ call'[a].stage = s /\ \A b \in Attempt \ {a} : call'[b] = call[b]
        /\ s \notin {"asking", "marking"} \cup Unleased \cup Setup
    BY <1>0, <2>1, GoStep DEF Stage, Unleased, Reserved, Setup, Leaving
  <2>5. spent' \subseteq Live
    BY <1>0, <1>8, <2>2 DEF Redeem, Redeemed
  <2>6. Live' \subseteq Live
    BY <1>0, <2>3, <2>4, <2>5, LiveAfter
  <2>7. OneCreditPerWindow'
    BY <1>7, <1>8, <2>2 DEF Redeem, Ids, OneCreditPerWindow
  <2>8. \A b \in Attempt : call'[b].stage \in Unleased \cup Setup => call'[b].win.week = week
    BY <2>4 DEF Ids
  <2> QED
    BY <2>3, <2>4, <2>6, <2>7, <2>8, IdsMove
<1>9. ASSUME NEW q \in adrift, RedeemLate(q) PROVE Ids'
  <2>1. q \in Live /\ spent' = Redeemed(q)
    BY <1>0, <1>9 DEF RedeemLate
  <2>2. row' = row /\ week' = week /\ call' = call /\ adrift' \subseteq adrift
    BY <1>9 DEF RedeemLate, clock
  <2>3. Live' \subseteq Live
    BY <1>0, <2>1, <2>2 DEF Live, Redeemed, At, RequestOf
  <2>4. OneCreditPerWindow'
    BY <1>7, <2>1
  <2> QED
    BY <2>2, <2>3, <2>4, IdsMove DEF Ids
<1>10. ASSUME NEW a \in Attempt,
              Commit(a) \/ Note(a) \/ Date(a) \/ FailNote(a) \/ FailDate(a) \/ Release(a) \/ FailRelease(a)
       PROVE  Ids'
  <2>1. PICK s \in {"noting", "dating", "releasing", "ended"} : Go(a, s)
    BY <1>10 DEF Commit, Note, Date, FailNote, FailDate, Release, FailRelease
  <2>2. s \in Stage \ ({"asking", "marking"} \cup Unleased \cup Setup)
    BY DEF Stage, Unleased, Reserved, Setup, Leaving
  <2>3. row'.redeem = row.redeem
    BY <1>0, <1>10
    DEF Commit, Note, Date, FailNote, FailDate, Release, FailRelease, Perhaps, Noted, Dated, Released, Row
  <2>4. week' = week /\ adrift' = adrift /\ spent' = spent
    BY <1>10 DEF Commit, Note, Date, FailNote, FailDate, Release, FailRelease, clock, upstream
  <2> QED
    BY <1>0, <1>1, <2>1, <2>2, <2>3, <2>4
<1>11. ASSUME NEW p \in Process, Crash(p) PROVE Ids'
  <2>1. \A a \in Attempt : call'[a] = NoCall("ended") \/ call'[a] = call[a]
    BY <1>11 DEF Crash
  <2>2. row' = row /\ week' = week /\ spent' = spent
    BY <1>11 DEF Crash, clock
  <2>3. adrift' \subseteq Live
    BY <1>0, <1>11 DEF Crash, Live
  <2>4. \A a \in Attempt : call'[a].stage \in {"asking", "marking"} \cup Unleased \cup Setup =>
                              call'[a] = call[a]
    BY <1>0, <2>1 DEF Unleased, Setup
  <2>5. Live' \subseteq Live
    BY <1>0, <2>2, <2>3, <2>4 DEF Live, At, RequestOf
  <2>6. OneCreditPerWindow'
    BY <2>2 DEF Ids, OneCreditPerWindow
  <2>7. \A b \in Attempt : call'[b].stage \in Unleased \cup Setup => call'[b].win.week = week
    BY <2>4 DEF Ids
  <2> QED
    BY <2>2, <2>4, <2>5, <2>6, <2>7, IdsMove
<1>12. CASE NextWindow
  <2>1. week' = week + 1 /\ row' = row /\ call' = call /\ adrift' = adrift /\ spent' = spent
    BY <1>12 DEF NextWindow, upstream
  <2>2. \A a \in Attempt : call[a].stage \notin Unleased \cup Setup
    BY <1>12 DEF NextWindow
  <2>3. Live' = Live
    BY <2>1 DEF Live, At, RequestOf
  <2>4. \A q \in Live : q.week \in Nat
    BY <1>0, Held DEF Live, Requests, Request, At, Identified, Reserved, Setup, Week
  <2>5. \A q \in Live : Current(q)'
    BY <1>0, <2>1, <2>4 DEF Ids, Current
  <2>6. row.redeem # None => row.redeem.window.week <= week'
    BY <1>0, <2>1 DEF Ids, Row, Marker, Window, Week
  <2>7. \A a \in Attempt : ~At(a, "marking")
    BY <2>2 DEF At, Setup
  <2> QED
    BY <2>1, <2>2, <2>3, <2>5, <2>6, <2>7 DEF Ids, OneCreditPerWindow, At
<1>13. CASE Tick \/ (\E a \in Attempt : Lapse(a)) \/ UNCHANGED vars
  <2>1. row' = row /\ week' = week /\ call' = call /\ adrift' = adrift /\ spent' = spent
    BY <1>13 DEF Tick, Lapse, vars, upstream
  <2>2. Live' = Live /\ OneCreditPerWindow'
    BY <2>1 DEF Live, At, RequestOf, Ids, OneCreditPerWindow
  <2> QED
    BY <2>1, <2>2, IdsMove DEF Ids
<1> QED
  BY <1>2, <1>3, <1>4, <1>5, <1>6, <1>8, <1>9, <1>10, <1>11, <1>12, <1>13 DEF Next, Fail

\* A weekly window costs one credit at most, whatever is lost, late or written in
\* vain, as long as its deadline is reported alike to all who ask.
THEOREM OneCreditAlways ==
  ASSUME NEW d, Drift = {d}
  PROVE  Spec => []OneCreditPerWindow
<1>1. Init => Ids
  BY DEF Init, Ids, Live, OneCreditPerWindow, NoCall, At, Unleased, Setup
<1>2. Ids => OneCreditPerWindow
  BY DEF Ids
<1>3. TypeOK /\ Leases /\ Ids /\ [Next]_vars => Ids'
  BY IdStep
<1> QED
  BY <1>1, <1>2, <1>3, LeaseInit, LeaseStep, TypeCorrect, PTL DEF Spec

=============================================================================
