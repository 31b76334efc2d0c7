-------------------------- MODULE ConcurrencyGate --------------------------
(***************************************************************************)
(* The concurrency gate of one process (createConcurrencyGate) with the    *)
(* local semaphore: a call first takes a slot of its API key, then one of  *)
(* the process, and keeps both until its response, streamed or not, is     *)
(* over.  The key's slot has a watchdog, the process's has none.  The      *)
(* admin changes the settings and a key's limit while calls are waiting;   *)
(* a call goes by what it read when it came.                               *)
(*                                                                         *)
(* A call turned away at once (its queue is full, or its signal is already *)
(* aborted) leaves everything as it was and is not a step.                 *)
(***************************************************************************)
EXTENDS KeyedSemaphore, FiniteSets

CONSTANTS Call,        \* callers, each of which may come again and again
          Key,         \* API keys
          KeyOf,       \* the key each caller uses
          KeyLimits,   \* values of concurrency_limit, 0 for null
          Settings,    \* live settings: [enabled : BOOLEAN, global : Nat]
          Multiplier,  \* multiplier
          MinSize      \* minSize

ASSUME GateAssumption ==
  /\ IsFiniteSet(Call)
  /\ KeyOf \in [Call -> Key]
  /\ KeyLimits \subseteq Nat
  /\ Settings \subseteq [enabled : BOOLEAN, global : Nat]
  /\ Multiplier \in Nat
  /\ MinSize \in Nat

VARIABLES
  settings,     \* what getConfig() returns
  keyLimit,     \* key -> its limit, as authentication finds it
  seen,         \* call -> the settings it read on its way in (cfg)
  stage,        \* call -> how far it is
  keySem,       \* key -> entry of deps.semaphore
  globalSem,    \* the entry "global" of globalSemaphore
  keyLease,     \* calls with a key lease that is not released
  globalLease   \* calls with a process lease that is not released

vars == <<settings, keyLimit, seen, stage, keySem, globalSem, keyLease, globalLease>>

\* "keyed": past the key's semaphore and before the process's.
Stage == {"idle", "key_wait", "keyed", "global_wait", "running"}

\* The capacity of a key's queue.
MaxQueue(limit) ==
  IF Multiplier > 0 /\ Multiplier * limit > MinSize THEN Multiplier * limit ELSE MinSize

-----------------------------------------------------------------------------
\* Calls that go on to `next` when a slot is handed to them.
Resumed(calls, next) == [c \in Call |-> IF c \in calls THEN next ELSE stage[c]]

\* acquire(): the key's slot, or a place in its queue.
Enter(c) ==
  LET k == KeyOf[c]
      limit == keyLimit[k]
      gated == settings.enabled /\ limit > 0
  IN  /\ stage[c] = "idle"
      /\ seen' = [seen EXCEPT ![c] = settings]
      /\ \/ /\ ~gated
            /\ stage' = [stage EXCEPT ![c] = "keyed"]
            /\ UNCHANGED <<keySem, keyLease>>
         \/ /\ gated
            /\ HasRoom(keySem[k], limit)
            /\ keySem' = [keySem EXCEPT ![k] = Take(@)]
            /\ keyLease' = keyLease \cup {c}
            /\ stage' = [stage EXCEPT ![c] = "keyed"]
         \/ /\ gated
            /\ MayQueue(keySem[k], limit, MaxQueue(limit))
            /\ keySem' = [keySem EXCEPT ![k] = Wait(@, c)]
            /\ stage' = [stage EXCEPT ![c] = "key_wait"]
            /\ UNCHANGED keyLease
      /\ UNCHANGED <<settings, keyLimit, globalSem, globalLease>>

\* Mutant: the watchdog's release and the call's own both free the slot.
ReleaseKeyAgain(c, stages) ==
  LET k == KeyOf[c]
      next == NextUp(keySem[k])
  IN  /\ keySem' = [keySem EXCEPT ![k] = IF @.active > 0 THEN Handoff(@) ELSE @]
      /\ keyLease' = (keyLease \ {c}) \cup next
      /\ stage' = [d \in Call |-> IF d \in next THEN "keyed" ELSE stages[d]]

\* A lease of the key is released, by its call or by the watchdog.
ReleaseKey(c, stages) ==
  LET k == KeyOf[c]
      next == NextUp(keySem[k])
  IN  IF c \in keyLease
      THEN /\ keySem' = [keySem EXCEPT ![k] = Handoff(@)]
           /\ keyLease' = (keyLease \ {c}) \cup next
           /\ stage' = [d \in Call |-> IF d \in next THEN "keyed" ELSE stages[d]]
      ELSE /\ stage' = stages
           /\ UNCHANGED <<keySem, keyLease>>

\* Mutant: no finally block: a call that fails at the second semaphore keeps
\* what it took from the first.
QuitHoldingKey(c) ==
  /\ globalSem' = Leave(globalSem, c)
  /\ stage' = [stage EXCEPT ![c] = "idle"]
  /\ UNCHANGED <<globalLease, keySem, keyLease>>

\* The wait for the process's slot failed: the finally block gives the key's
\* slot back.
Quit(c) ==
  /\ globalSem' = Leave(globalSem, c)
  /\ ReleaseKey(c, [stage EXCEPT ![c] = "idle"])
  /\ UNCHANGED globalLease

\* The key's slot is there: on to the process's, if there is such a limit.
EnterGlobal(c) ==
  LET limit == seen[c].global
      gated == seen[c].enabled /\ limit > 0
  IN  /\ stage[c] = "keyed"
      /\ \/ /\ ~gated
            /\ stage' = [stage EXCEPT ![c] = "running"]
            /\ UNCHANGED <<globalSem, globalLease, keySem, keyLease>>
         \/ /\ gated
            /\ HasRoom(globalSem, limit)
            /\ globalSem' = Take(globalSem)
            /\ globalLease' = globalLease \cup {c}
            /\ stage' = [stage EXCEPT ![c] = "running"]
            /\ UNCHANGED <<keySem, keyLease>>
         \/ /\ gated
            /\ MayQueue(globalSem, limit, MinSize)
            /\ globalSem' = Wait(globalSem, c)
            /\ stage' = [stage EXCEPT ![c] = "global_wait"]
            /\ UNCHANGED <<globalLease, keySem, keyLease>>
         \/ /\ gated
            /\ ~HasRoom(globalSem, limit)
            /\ ~MayQueue(globalSem, limit, MinSize)
            /\ Quit(c)
      /\ UNCHANGED <<settings, keyLimit, seen>>

\* The wait timeout fires or the signal aborts; between the two semaphores
\* only the signal can end the call.
GiveUp(c) ==
  /\ \/ /\ stage[c] = "key_wait"
        /\ keySem' = [keySem EXCEPT ![KeyOf[c]] = Leave(@, c)]
        /\ stage' = [stage EXCEPT ![c] = "idle"]
        /\ UNCHANGED <<globalSem, globalLease, keyLease>>
     \/ /\ stage[c] = "global_wait" \/ (stage[c] = "keyed" /\ seen[c].enabled /\ seen[c].global > 0)
        /\ Quit(c)
  /\ UNCHANGED <<settings, keyLimit, seen>>

\* Mutant: the watchdog frees the slot and wakes nobody.
WatchdogFrees(c) ==
  /\ c \in keyLease
  /\ keySem' = [keySem EXCEPT ![KeyOf[c]].active = @ - 1]
  /\ keyLease' = keyLease \ {c}
  /\ UNCHANGED <<settings, keyLimit, seen, stage, globalSem, globalLease>>

\* A key lease is held for maxHoldMs: its slot goes on, its call does too.
Watchdog(c) ==
  /\ c \in keyLease
  /\ ReleaseKey(c, stage)
  /\ UNCHANGED <<settings, keyLimit, seen, globalSem, globalLease>>

\* The response is over: the process's slot is released, then the key's.
Release(c) ==
  LET next == IF c \in globalLease THEN NextUp(globalSem) ELSE {}
  IN  /\ stage[c] = "running"
      /\ globalSem' = IF c \in globalLease THEN Handoff(globalSem) ELSE globalSem
      /\ globalLease' = (globalLease \ {c}) \cup next
      /\ ReleaseKey(c, [Resumed(next, "running") EXCEPT ![c] = "idle"])
      /\ UNCHANGED <<settings, keyLimit, seen>>

\* The admin saves the runtime settings, or a key.
ChangeSettings ==
  /\ settings' \in Settings \ {settings}
  /\ UNCHANGED <<keyLimit, seen, stage, keySem, globalSem, keyLease, globalLease>>

ChangeKeyLimit(k) ==
  /\ \E limit \in KeyLimits \ {keyLimit[k]} : keyLimit' = [keyLimit EXCEPT ![k] = limit]
  /\ UNCHANGED <<settings, seen, stage, keySem, globalSem, keyLease, globalLease>>

-----------------------------------------------------------------------------
Init ==
  /\ settings \in Settings
  /\ keyLimit \in [Key -> KeyLimits]
  /\ seen = [c \in Call |-> settings]
  /\ stage = [c \in Call |-> "idle"]
  /\ keySem = [k \in Key |-> IdleEntry]
  /\ globalSem = IdleEntry
  /\ keyLease = {}
  /\ globalLease = {}

Next ==
  \/ \E c \in Call : Enter(c) \/ EnterGlobal(c) \/ GiveUp(c) \/ Watchdog(c) \/ Release(c)
  \/ ChangeSettings
  \/ \E k \in Key : ChangeKeyLimit(k)

Spec == Init /\ [][Next]_vars

(* Fairness: a resolved promise's continuation runs, and a response ends    *)
(* (its request has a deadline).  No timeout, abort or watchdog is assumed  *)
(* to come to anybody's rescue.                                             *)
FairSpec == Spec /\ \A c \in Call : WF_vars(EnterGlobal(c)) /\ WF_vars(Release(c))

-----------------------------------------------------------------------------
(* Properties.                                                             *)

TypeOK ==
  /\ settings \in Settings
  /\ keyLimit \in [Key -> KeyLimits]
  /\ seen \in [Call -> Settings]
  /\ stage \in [Call -> Stage]
  /\ keySem \in [Key -> Entry(Call)]
  /\ globalSem \in Entry(Call)
  /\ keyLease \in SUBSET Call
  /\ globalLease \in SUBSET Call

HoldersOf(k) == {c \in keyLease : KeyOf[c] = k}

\* A count is never off: it is the number of leases not yet released, whichever
\* of watchdog, abort, timeout, refusal at the second semaphore and normal end
\* released the others, and however often.
CountsAreLeases ==
  /\ \A k \in Key : keySem[k].active = Cardinality(HoldersOf(k))
  /\ globalSem.active = Cardinality(globalLease)

\* A caller that is gone holds nothing and waits nowhere, and one that still
\* waits for its key takes nothing of the process's capacity.
GoneHoldsNothing ==
  \A c \in Call :
    /\ stage[c] \in {"idle", "key_wait"} => c \notin keyLease \cup globalLease
    /\ stage[c] # "key_wait" => \A i \in DOMAIN keySem[KeyOf[c]].waiters :
                                  keySem[KeyOf[c]].waiters[i] # c
    /\ stage[c] # "global_wait" => \A i \in DOMAIN globalSem.waiters :
                                     globalSem.waiters[i] # c

\* Whoever waits has a release ahead of it: with a slot free and nobody to hand
\* it over, a waiter would sleep until its timeout.  Limits may change meanwhile.
NobodyStranded ==
  /\ \A k \in Key : keySem[k].waiters # <<>> => HoldersOf(k) # {}
  /\ globalSem.waiters # <<>> => globalLease # {}

\* However the settings change under the calls in flight, the process never
\* does more work under its global limit than the highest limit allows.
HighestGlobal == CHOOSE g \in {s.global : s \in Settings} : \A s \in Settings : s.global <= g
GlobalLimitHolds == Cardinality(globalLease) <= HighestGlobal

\* Of two calls in a queue the earlier one is served first, unless it gives up.
Position(q, c) == CHOOSE i \in DOMAIN q : q[i] = c
ServedInOrder ==
  [][\A c, d \in Call :
       /\ stage[c] = "key_wait" /\ stage[d] = "key_wait" /\ KeyOf[c] = KeyOf[d]
       /\ Position(keySem[KeyOf[c]].waiters, c) < Position(keySem[KeyOf[c]].waiters, d)
       /\ stage'[d] = "keyed"
       => stage'[c] # "key_wait"]_vars

\* No wait is endless: the two semaphores never have calls waiting for each
\* other, and the queue's order lets nobody be passed over for ever.
WaitEnds == \A c \in Call : stage[c] \in {"key_wait", "global_wait"} ~> stage[c] \in {"idle", "running"}

=============================================================================
