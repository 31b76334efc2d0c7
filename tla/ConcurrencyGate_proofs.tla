------------------------ MODULE ConcurrencyGate_proofs ------------------------
(***************************************************************************)
(* Proofs about ConcurrencyGate, for any callers, keys, limits, settings   *)
(* and queue capacities.                                                   *)
(*                                                                         *)
(* A semaphore's entry is in order when it counts its holders, queues its  *)
(* waiters and has a holder for every waiter to wait for.  Each of its     *)
(* operations keeps it so, and the gate's steps are made of these.         *)
(***************************************************************************)
EXTENDS ConcurrencyGate, FiniteSetTheorems, TLAPS

Members(q) == {q[i] : i \in DOMAIN q}
Distinct(q) == \A i, j \in DOMAIN q : q[i] = q[j] => i = j

\* Entry e is that of a semaphore held by `holders` and waited for by `waiting`.
InOrder(e, holders, waiting) ==
  /\ e \in Entry(Call) /\ holders \subseteq Call
  /\ Distinct(e.waiters) /\ Members(e.waiters) = waiting
  /\ e.active = Cardinality(holders)
  /\ waiting # {} => holders # {}

-----------------------------------------------------------------------------
\* A call joins a queue, leaves it from anywhere, or is first in it.
LEMMA JoinQueue ==
  ASSUME NEW S, NEW q \in Seq(S), NEW x \in S, Distinct(q), x \notin Members(q)
  PROVE  /\ Append(q, x) \in Seq(S) /\ Distinct(Append(q, x))
         /\ Members(Append(q, x)) = Members(q) \cup {x}
<1>1. /\ Len(q) \in Nat /\ DOMAIN q = 1..Len(q)
      /\ Append(q, x) \in Seq(S) /\ DOMAIN Append(q, x) = 1..(Len(q) + 1)
      /\ \A i \in DOMAIN q : Append(q, x)[i] = q[i]
      /\ Append(q, x)[Len(q) + 1] = x
  OBVIOUS
<1>2. 1..(Len(q) + 1) = 1..Len(q) \cup {Len(q) + 1}
  BY <1>1
<1> QED
  BY <1>1, <1>2 DEF Distinct, Members

LEMMA LeaveQueue ==
  ASSUME NEW S, NEW q \in Seq(S), NEW x, Distinct(q)
  PROVE  /\ Without(q, x) \in Seq(S) /\ Distinct(Without(q, x))
         /\ Members(Without(q, x)) = Members(q) \ {x}
<1>1. CASE \E i \in DOMAIN q : q[i] = x
  <2> DEFINE at == CHOOSE i \in DOMAIN q : q[i] = x
             w == [j \in 1..(Len(q) - 1) |-> q[IF j < at THEN j ELSE j + 1]]
  <2>1. at \in DOMAIN q /\ q[at] = x
    BY <1>1
  <2>2. Without(q, x) = w
    BY <1>1 DEF Without
  <2>3. /\ Len(q) \in Nat \ {0} /\ DOMAIN q = 1..Len(q) /\ Len(q) - 1 \in Nat
        /\ \A i \in DOMAIN q : q[i] \in S
    BY <1>1
  <2> HIDE DEF at
  <2>4. /\ DOMAIN w = 1..(Len(q) - 1)
        /\ \A j \in 1..(Len(q) - 1) :
             /\ j < at => w[j] = q[j] /\ j \in DOMAIN q
             /\ ~(j < at) => w[j] = q[j + 1] /\ j + 1 \in DOMAIN q /\ j + 1 # at
    BY <2>1, <2>3
  <2>5. \A i \in DOMAIN q : \/ i = at
                            \/ i < at /\ i \in 1..(Len(q) - 1)
                            \/ ~(i - 1 < at) /\ i - 1 \in 1..(Len(q) - 1) /\ (i - 1) + 1 = i
    BY <2>1, <2>3
  <2>6. w \in Seq(S)
    <3>1. \A j \in 1..(Len(q) - 1) : w[j] \in S
      BY <2>3, <2>4
    <3> QED
      BY <2>3, <3>1
  <2> HIDE DEF w
  <2>7. Distinct(w)
    <3> SUFFICES ASSUME NEW i \in 1..(Len(q) - 1), NEW j \in 1..(Len(q) - 1), w[i] = w[j] PROVE i = j
      BY <2>4 DEF Distinct
    <3> QED
      BY <2>1, <2>3, <2>4 DEF Distinct
  <2>8. Members(w) \subseteq Members(q) \ {x}
    <3> SUFFICES ASSUME NEW j \in 1..(Len(q) - 1) PROVE w[j] \in Members(q) /\ w[j] # x
      BY <2>4 DEF Members
    <3>1. CASE j < at
      <4>1. w[j] = q[j] /\ j \in DOMAIN q /\ j # at
        BY <2>1, <2>3, <2>4, <3>1
      <4> QED
        BY <2>1, <4>1 DEF Members, Distinct
    <3>2. CASE ~(j < at)
      <4>1. w[j] = q[j + 1] /\ j + 1 \in DOMAIN q /\ j + 1 # at
        BY <2>4, <3>2
      <4> QED
        BY <2>1, <4>1 DEF Members, Distinct
    <3> QED
      BY <3>1, <3>2
  <2>9. Members(q) \ {x} \subseteq Members(w)
    <3> SUFFICES ASSUME NEW i \in DOMAIN q, q[i] # x PROVE q[i] \in Members(w)
      BY DEF Members
    <3>1. CASE i < at /\ i \in 1..(Len(q) - 1)
      <4>1. w[i] = q[i] /\ i \in DOMAIN w
        BY <2>4, <3>1
      <4> QED
        BY <4>1 DEF Members
    <3>2. CASE ~(i - 1 < at) /\ i - 1 \in 1..(Len(q) - 1) /\ (i - 1) + 1 = i
      <4>1. w[i - 1] = q[i] /\ i - 1 \in DOMAIN w
        BY <2>4, <3>2
      <4> QED
        BY <4>1 DEF Members
    <3> QED
      BY <2>1, <2>5, <3>1, <3>2
  <2> QED
    BY <2>2, <2>6, <2>7, <2>8, <2>9
<1>2. CASE ~\E i \in DOMAIN q : q[i] = x
  BY <1>2 DEF Without, Members
<1> QED
  BY <1>1, <1>2

LEMMA FirstOfQueue ==
  ASSUME NEW S, NEW q \in Seq(S), q # <<>>
  PROVE  Head(q) \in Members(q) /\ Head(q) = q[1] /\ 1 \in DOMAIN q
<1>1. Head(q) = q[1] /\ 1 \in DOMAIN q
  OBVIOUS
<1> QED
  BY <1>1 DEF Members

-----------------------------------------------------------------------------
\* Each operation of a semaphore keeps its entry in order.
LEMMA IdleInOrder == InOrder(IdleEntry, {}, {})
<1>1. <<>> \in Seq(Call) /\ Distinct(<<>>) /\ Members(<<>>) = {} /\ Cardinality({}) = 0
  BY FS_EmptySet DEF Distinct, Members
<1> QED
  BY <1>1 DEF InOrder, IdleEntry, Entry

LEMMA TakeInOrder ==
  ASSUME NEW e, NEW H, NEW W, InOrder(e, H, W), NEW c \in Call, c \notin H
  PROVE  InOrder(Take(e), H \cup {c}, W) /\ Take(e).active = e.active + 1
<1>1. Take(e) = [e EXCEPT !.active = e.active + 1]
  BY DEF Take
<1>2. e.active \in Nat /\ Take(e) \in Entry(Call) /\ Take(e).waiters = e.waiters /\ Take(e).active = e.active + 1
  BY <1>1 DEF InOrder, Entry
<1>3. IsFiniteSet(H)
  BY FS_Subset, GateAssumption DEF InOrder
<1>4. Cardinality(H \cup {c}) = Cardinality(H) + 1
  BY <1>3, FS_AddElement
<1> QED
  BY <1>2, <1>4 DEF InOrder

LEMMA WaitInOrder ==
  ASSUME NEW e, NEW H, NEW W, InOrder(e, H, W), NEW c \in Call, c \notin W,
         NEW limit \in Nat, limit > 0, ~HasRoom(e, limit)
  PROVE  InOrder(Wait(e, c), H, W \cup {c}) /\ Wait(e, c).active = e.active
<1>1. Wait(e, c) = [e EXCEPT !.waiters = Append(e.waiters, c)]
  BY DEF Wait
<1>2. e.waiters \in Seq(Call) /\ c \notin Members(e.waiters) /\ Distinct(e.waiters)
  BY DEF InOrder, Entry
<1>3. Append(e.waiters, c) \in Seq(Call) /\ Distinct(Append(e.waiters, c))
      /\ Members(Append(e.waiters, c)) = W \cup {c}
  BY <1>2, JoinQueue DEF InOrder
<1>4. Wait(e, c) \in Entry(Call) /\ Wait(e, c).active = e.active /\ Wait(e, c).waiters = Append(e.waiters, c)
  BY <1>1, <1>3 DEF InOrder, Entry
<1>5. H # {}
  <2>1. e.active > 0
    BY DEF HasRoom, InOrder, Entry
  <2>2. Cardinality({}) = 0
    BY FS_EmptySet
  <2> QED
    BY <2>1, <2>2 DEF InOrder
<1> QED
  BY <1>3, <1>4, <1>5 DEF InOrder

LEMMA LeaveInOrder ==
  ASSUME NEW e, NEW H, NEW W, InOrder(e, H, W), NEW c
  PROVE  InOrder(Leave(e, c), H, W \ {c}) /\ Leave(e, c).active = e.active
<1>1. Leave(e, c) = [e EXCEPT !.waiters = Without(e.waiters, c)]
  BY DEF Leave
<1>2. e.waiters \in Seq(Call) /\ Distinct(e.waiters)
  BY DEF InOrder, Entry
<1>3. Without(e.waiters, c) \in Seq(Call) /\ Distinct(Without(e.waiters, c))
      /\ Members(Without(e.waiters, c)) = W \ {c}
  BY <1>2, LeaveQueue DEF InOrder
<1>4. /\ Leave(e, c) \in Entry(Call) /\ Leave(e, c).active = e.active
      /\ Leave(e, c).waiters = Without(e.waiters, c)
  BY <1>1, <1>3 DEF InOrder, Entry
<1> QED
  BY <1>3, <1>4 DEF InOrder

LEMMA HandoffInOrder ==
  ASSUME NEW e, NEW H, NEW W, InOrder(e, H, W), NEW c \in H, H \cap W = {}
  PROVE  /\ NextUp(e) \subseteq W /\ (NextUp(e) = {} => W = {})
         /\ \A d \in NextUp(e) : d = e.waiters[1] /\ 1 \in DOMAIN e.waiters
         /\ InOrder(Handoff(e), (H \ {c}) \cup NextUp(e), W \ NextUp(e))
         /\ Handoff(e).active <= e.active
<1>1. e.waiters \in Seq(Call) /\ e.active \in Nat /\ H \subseteq Call /\ IsFiniteSet(H)
  BY FS_Subset, GateAssumption DEF InOrder, Entry
<1>2. Cardinality(H \ {c}) = Cardinality(H) - 1 /\ IsFiniteSet(H \ {c})
  BY <1>1, FS_RemoveElement
<1>3. CASE e.waiters = <<>>
  <2>1. Handoff(e) = [e EXCEPT !.active = e.active - 1] /\ NextUp(e) = {}
    BY <1>3 DEF Handoff, NextUp
  <2>2. W = {}
    BY <1>3 DEF InOrder, Members
  <2>3. e.active - 1 \in Nat
    <3>1. Cardinality(H \ {c}) \in Nat
      BY <1>2, FS_CardinalityType
    <3> QED
      BY <1>2, <3>1 DEF InOrder
  <2>4. Handoff(e) \in Entry(Call) /\ Handoff(e).active = e.active - 1 /\ Handoff(e).waiters = e.waiters
    BY <2>1, <2>3 DEF InOrder, Entry
  <2> QED
    BY <1>1, <1>2, <2>1, <2>2, <2>4 DEF InOrder
<1>4. CASE e.waiters # <<>>
  <2> DEFINE d == Head(e.waiters)
  <2>1. Handoff(e) = Leave(e, d) /\ NextUp(e) = {d}
    BY <1>4 DEF Handoff, NextUp, First
  <2>2. d \in W /\ d = e.waiters[1] /\ 1 \in DOMAIN e.waiters
    BY <1>1, <1>4, FirstOfQueue DEF InOrder
  <2> HIDE DEF d
  <2>3. InOrder(Leave(e, d), H, W \ {d}) /\ Leave(e, d).active = e.active
    BY LeaveInOrder
  <2>4. d \notin H \ {c}
    BY <2>2
  <2>5. Cardinality((H \ {c}) \cup {d}) = Cardinality(H)
    <3>1. Cardinality((H \ {c}) \cup {d}) = Cardinality(H \ {c}) + 1
      BY <1>2, <2>4, FS_AddElement
    <3>2. Cardinality(H) \in Nat
      BY <1>1, FS_CardinalityType
    <3> QED
      BY <1>2, <3>1, <3>2
  <2>6. d \in Call
    BY <1>1, <2>2
  <2>7. InOrder(Leave(e, d), (H \ {c}) \cup {d}, W \ {d})
    BY <1>1, <2>3, <2>5, <2>6 DEF InOrder
  <2>8. InOrder(Handoff(e), (H \ {c}) \cup NextUp(e), W \ NextUp(e)) /\ Handoff(e).active = e.active
    BY <2>1, <2>3, <2>7
  <2>9. NextUp(e) \subseteq W /\ NextUp(e) # {}
    BY <2>1, <2>2
  <2>10. \A x \in NextUp(e) : x = e.waiters[1] /\ 1 \in DOMAIN e.waiters
    BY <2>1, <2>2
  <2>11. Handoff(e).active <= e.active
    BY <1>1, <2>8
  <2> QED
    BY <2>8, <2>9, <2>10, <2>11
<1> QED
  BY <1>3, <1>4

-----------------------------------------------------------------------------
\* The keys' semaphores, given who holds a lease and how far every call is.
Held == {"keyed", "global_wait", "running"}
KeyHolders(lease, k) == {c \in lease : KeyOf[c] = k}
KeyWaiters(st, k) == {c \in Call : KeyOf[c] = k /\ st[c] = "key_wait"}
EntriesOK(sems, lease, st) ==
  /\ sems \in [Key -> Entry(Call)] /\ lease \subseteq Call
  /\ \A k \in Key : InOrder(sems[k], KeyHolders(lease, k), KeyWaiters(st, k))
KeysOK(sems, lease, st) == EntriesOK(sems, lease, st) /\ \A c \in lease : st[c] \in Held

\* The process's semaphore, likewise.
GlobalWaiters(st) == {c \in Call : st[c] = "global_wait"}
GlobalOK(sem, lease, st) == InOrder(sem, lease, GlobalWaiters(st)) /\ \A c \in lease : st[c] = "running"

\* A step at one key leaves the others as they were.
LEMMA OneKey ==
  ASSUME NEW sems, NEW lease, NEW st, EntriesOK(sems, lease, st),
         NEW k \in Key, NEW e, NEW lease2 \in SUBSET Call, NEW st2,
         InOrder(e, KeyHolders(lease2, k), KeyWaiters(st2, k)),
         \A c \in Call : KeyOf[c] # k => /\ c \in lease2 <=> c \in lease
                                         /\ st2[c] = "key_wait" <=> st[c] = "key_wait"
  PROVE  EntriesOK([sems EXCEPT ![k] = e], lease2, st2)
<1>1. e \in Entry(Call)
  BY DEF InOrder
<1>2. [sems EXCEPT ![k] = e] \in [Key -> Entry(Call)]
  BY <1>1 DEF EntriesOK
<1>3. ASSUME NEW j \in Key
      PROVE  InOrder([sems EXCEPT ![k] = e][j], KeyHolders(lease2, j), KeyWaiters(st2, j))
  <2>1. CASE j = k
    <3>1. [sems EXCEPT ![k] = e][j] = e
      BY <2>1 DEF EntriesOK
    <3> QED
      BY <2>1, <3>1
  <2>2. CASE j # k
    <3>1. [sems EXCEPT ![k] = e][j] = sems[j]
      BY <2>2 DEF EntriesOK
    <3>2. KeyHolders(lease2, j) = KeyHolders(lease, j)
      BY <2>2 DEF KeyHolders, EntriesOK
    <3>3. KeyWaiters(st2, j) = KeyWaiters(st, j)
      BY <2>2 DEF KeyWaiters
    <3> QED
      BY <3>1, <3>2, <3>3 DEF EntriesOK
  <2> QED
    BY <2>1, <2>2
<1> QED
  BY <1>2, <1>3 DEF EntriesOK

\* A step at no key leaves all as they were.
LEMMA NoKey ==
  ASSUME NEW sems, NEW lease, NEW st, EntriesOK(sems, lease, st), NEW st2,
         \A c \in Call : st2[c] = "key_wait" <=> st[c] = "key_wait"
  PROVE  EntriesOK(sems, lease, st2)
<1>1. \A k \in Key : KeyWaiters(st2, k) = KeyWaiters(st, k)
  BY DEF KeyWaiters
<1> QED
  BY <1>1 DEF EntriesOK

\* A released key's lease goes to the first in its queue, and only to it.
LEMMA KeyReleased ==
  ASSUME NEW c \in Call, NEW stages \in [Call -> Stage], ReleaseKey(c, stages),
         EntriesOK(keySem, keyLease, stages),
         \A d \in keyLease : d # c => stages[d] \in Held,
         c \in keyLease => stages[c] # "key_wait"
  PROVE  /\ EntriesOK(keySem', keyLease', stage')
         /\ stage' \in [Call -> Stage]
         /\ \A d \in keyLease' : d # c /\ stage'[d] \in Held
         /\ \A d \in Call : \/ stage'[d] = stages[d]
                            \/ /\ stages[d] = "key_wait" /\ stage'[d] = "keyed" /\ d # c
                               /\ d = keySem[KeyOf[d]].waiters[1]
                               /\ 1 \in DOMAIN keySem[KeyOf[d]].waiters
<1> DEFINE k == KeyOf[c]
           e == keySem[k]
           H == KeyHolders(keyLease, k)
           W == KeyWaiters(stages, k)
<1>1. k \in Key
  BY GateAssumption
<1>2. CASE c \in keyLease
  <2>1. InOrder(e, H, W) /\ c \in H /\ H \cap W = {}
    <3>1. c \in H
      BY <1>2 DEF KeyHolders
    <3>2. \A d \in keyLease : stages[d] # "key_wait"
      BY DEF Held
    <3>3. H \cap W = {}
      BY <3>2 DEF KeyHolders, KeyWaiters
    <3> QED
      BY <1>1, <3>1, <3>3 DEF EntriesOK
  <2>2. /\ NextUp(e) \subseteq W
        /\ \A d \in NextUp(e) : d = e.waiters[1] /\ 1 \in DOMAIN e.waiters
        /\ InOrder(Handoff(e), (H \ {c}) \cup NextUp(e), W \ NextUp(e))
    BY <2>1, HandoffInOrder
  <2>3. /\ keySem' = [keySem EXCEPT ![k] = Handoff(e)]
        /\ keyLease' = (keyLease \ {c}) \cup NextUp(e)
        /\ stage' = [d \in Call |-> IF d \in NextUp(e) THEN "keyed" ELSE stages[d]]
    BY <1>2 DEF ReleaseKey
  <2>4. \A d \in W : d \in Call /\ KeyOf[d] = k /\ stages[d] = "key_wait"
    BY DEF KeyWaiters
  <2>5. c \notin NextUp(e)
    BY <1>2, <2>2, <2>4
  <2>6. KeyHolders(keyLease', k) = (H \ {c}) \cup NextUp(e)
    BY <2>2, <2>3, <2>4 DEF KeyHolders
  <2>7. KeyWaiters(stage', k) = W \ NextUp(e)
    BY <2>3 DEF KeyWaiters
  <2>8. keyLease' \in SUBSET Call
    BY <2>2, <2>3, <2>4 DEF EntriesOK
  <2>9. \A d \in Call : KeyOf[d] # k => /\ d \in keyLease' <=> d \in keyLease
                                        /\ stage'[d] = "key_wait" <=> stages[d] = "key_wait"
    BY <2>2, <2>3, <2>4
  <2>10. stage' \in [Call -> Stage]
    BY <2>3 DEF Stage
  <2>11. \A d \in keyLease' : d # c /\ stage'[d] \in Held
    BY <2>2, <2>3, <2>4, <2>5, <2>8 DEF Held
  <2>12. \A d \in Call : \/ stage'[d] = stages[d]
                         \/ /\ stages[d] = "key_wait" /\ stage'[d] = "keyed" /\ d # c
                            /\ d = keySem[KeyOf[d]].waiters[1]
                            /\ 1 \in DOMAIN keySem[KeyOf[d]].waiters
    BY <2>2, <2>3, <2>4, <2>5
  <2> HIDE DEF k, e, H, W
  <2>13. InOrder(Handoff(e), KeyHolders(keyLease', k), KeyWaiters(stage', k))
    BY <2>2, <2>6, <2>7
  <2>14. EntriesOK([keySem EXCEPT ![k] = Handoff(e)], keyLease', stage')
    BY <1>1, <2>8, <2>9, <2>13, OneKey
  <2> QED
    BY <2>3, <2>10, <2>11, <2>12, <2>14, Zenon
<1>3. CASE c \notin keyLease
  <2>1. stage' = stages /\ keySem' = keySem /\ keyLease' = keyLease
    BY <1>3 DEF ReleaseKey
  <2>2. \A d \in keyLease : d # c
    BY <1>3
  <2> QED
    BY <2>1, <2>2
<1> QED
  BY <1>2, <1>3

-----------------------------------------------------------------------------
\* The process never has more leases than the highest of the limits.
Bounded == \A m \in Nat : (\A s \in Settings : s.global <= m) => globalSem.active <= m

Inv ==
  /\ settings \in Settings /\ keyLimit \in [Key -> KeyLimits]
  /\ seen \in [Call -> Settings] /\ stage \in [Call -> Stage]
  /\ KeysOK(keySem, keyLease, stage)
  /\ GlobalOK(globalSem, globalLease, stage)
  /\ Bounded

\* Only the first of a key's queue gets a slot handed.
Served ==
  \A d \in Call : stage[d] = "key_wait" /\ stage'[d] = "keyed"
                    => d = keySem[KeyOf[d]].waiters[1] /\ 1 \in DOMAIN keySem[KeyOf[d]].waiters

LEMMA Initially == Init => Inv
<1> SUFFICES ASSUME Init PROVE Inv
  OBVIOUS
<1>1. stage \in [Call -> Stage] /\ seen \in [Call -> Settings]
  BY DEF Init, Stage
<1>2. GlobalWaiters(stage) = {} /\ \A k \in Key : KeyHolders(keyLease, k) = {} /\ KeyWaiters(stage, k) = {}
  BY DEF Init, GlobalWaiters, KeyHolders, KeyWaiters
<1>3. IdleEntry \in Entry(Call)
  BY IdleInOrder DEF InOrder
<1>4. KeysOK(keySem, keyLease, stage)
  BY <1>2, <1>3, IdleInOrder DEF Init, KeysOK, EntriesOK
<1>5. GlobalOK(globalSem, globalLease, stage)
  BY <1>2, IdleInOrder DEF Init, GlobalOK
<1>6. Bounded
  BY DEF Init, Bounded, IdleEntry
<1> QED
  BY <1>1, <1>4, <1>5, <1>6 DEF Init, Inv

LEMMA KeyTypes ==
  ASSUME Inv, NEW c \in Call
  PROVE  /\ KeyOf[c] \in Key /\ keyLimit[KeyOf[c]] \in Nat
         /\ settings.global \in Nat /\ settings.enabled \in BOOLEAN
         /\ seen[c].global \in Nat /\ seen[c].enabled \in BOOLEAN
         /\ seen[c] \in Settings
<1>1. KeyOf[c] \in Key /\ seen[c] \in Settings /\ settings \in Settings
  BY GateAssumption DEF Inv
<1>2. keyLimit[KeyOf[c]] \in Nat
  BY <1>1, GateAssumption DEF Inv
<1>3. \A s \in Settings : s.global \in Nat /\ s.enabled \in BOOLEAN
  BY GateAssumption
<1> QED
  BY <1>1, <1>2, <1>3

LEMMA EnterKeeps == ASSUME Inv, NEW c \in Call, Enter(c) PROVE Inv' /\ Served
<1> DEFINE k == KeyOf[c]
           e == keySem[k]
           limit == keyLimit[k]
           gated == settings.enabled /\ limit > 0
<1>1. k \in Key /\ limit \in Nat /\ stage[c] = "idle" /\ c \notin keyLease /\ c \notin globalLease
  BY KeyTypes DEF Inv, KeysOK, GlobalOK, Held, Enter
<1>2. /\ settings' = settings /\ keyLimit' = keyLimit
      /\ globalSem' = globalSem /\ globalLease' = globalLease
      /\ seen' = [seen EXCEPT ![c] = settings]
  BY DEF Enter
<1>3. \/ stage' = [stage EXCEPT ![c] = "keyed"] /\ keySem' = keySem /\ keyLease' = keyLease
      \/ /\ HasRoom(e, limit) /\ keySem' = [keySem EXCEPT ![k] = Take(e)]
         /\ keyLease' = keyLease \cup {c} /\ stage' = [stage EXCEPT ![c] = "keyed"]
      \/ /\ limit > 0 /\ ~HasRoom(e, limit) /\ keySem' = [keySem EXCEPT ![k] = Wait(e, c)]
         /\ keyLease' = keyLease /\ stage' = [stage EXCEPT ![c] = "key_wait"]
  BY Zenon DEF Enter, MayQueue
<1>4. InOrder(e, KeyHolders(keyLease, k), KeyWaiters(stage, k)) /\ EntriesOK(keySem, keyLease, stage)
  BY <1>1 DEF Inv, KeysOK, EntriesOK
<1>5. seen' \in [Call -> Settings] /\ stage' \in [Call -> Stage]
  BY <1>2, <1>3 DEF Inv, Stage
<1>6. \A d \in Call : d # c => stage'[d] = stage[d]
  BY <1>3 DEF Inv
<1>7. stage'[c] \in {"keyed", "key_wait"}
  BY <1>3 DEF Inv
<1>8. GlobalWaiters(stage') = GlobalWaiters(stage)
  BY <1>1, <1>6, <1>7 DEF GlobalWaiters
<1>9. GlobalOK(globalSem, globalLease, stage')
  BY <1>1, <1>6, <1>8 DEF Inv, GlobalOK, InOrder
<1>10. KeysOK(keySem', keyLease', stage')
  <2>1. CASE stage' = [stage EXCEPT ![c] = "keyed"] /\ keySem' = keySem /\ keyLease' = keyLease
    <3>1. stage'[c] = "keyed"
      BY <2>1 DEF Inv
    <3>2. \A d \in Call : stage'[d] = "key_wait" <=> stage[d] = "key_wait"
      BY <1>1, <1>6, <3>1
    <3>3. EntriesOK(keySem, keyLease, stage')
      BY <1>4, <3>2, NoKey
    <3> QED
      BY <1>6, <2>1, <3>1, <3>3 DEF Inv, KeysOK, EntriesOK, Held
  <2>2. CASE /\ HasRoom(e, limit) /\ keySem' = [keySem EXCEPT ![k] = Take(e)]
             /\ keyLease' = keyLease \cup {c} /\ stage' = [stage EXCEPT ![c] = "keyed"]
    <3>1. stage'[c] = "keyed"
      BY <2>2 DEF Inv
    <3>2. KeyWaiters(stage', k) = KeyWaiters(stage, k)
      BY <1>1, <1>6, <3>1 DEF KeyWaiters
    <3>3. KeyHolders(keyLease', k) = KeyHolders(keyLease, k) \cup {c} /\ c \notin KeyHolders(keyLease, k)
      BY <1>1, <2>2 DEF KeyHolders
    <3>4. keyLease' \in SUBSET Call
      BY <2>2 DEF Inv, KeysOK, EntriesOK
    <3>5. \A d \in Call : KeyOf[d] # k => /\ d \in keyLease' <=> d \in keyLease
                                          /\ stage'[d] = "key_wait" <=> stage[d] = "key_wait"
      BY <1>6, <2>2
    <3>6. \A d \in keyLease' : stage'[d] \in Held
      BY <1>6, <2>2, <3>1 DEF Inv, KeysOK, EntriesOK, Held
    <3> HIDE DEF k, e, limit
    <3>7. InOrder(Take(e), KeyHolders(keyLease', k), KeyWaiters(stage', k))
      BY <1>4, <3>2, <3>3, TakeInOrder
    <3>8. EntriesOK([keySem EXCEPT ![k] = Take(e)], keyLease', stage')
      BY <1>1, <1>4, <3>4, <3>5, <3>7, OneKey
    <3> QED
      BY <2>2, <3>6, <3>8 DEF KeysOK
  <2>3. CASE /\ limit > 0 /\ ~HasRoom(e, limit) /\ keySem' = [keySem EXCEPT ![k] = Wait(e, c)]
             /\ keyLease' = keyLease /\ stage' = [stage EXCEPT ![c] = "key_wait"]
    <3>1. stage'[c] = "key_wait"
      BY <2>3 DEF Inv
    <3>2. KeyWaiters(stage', k) = KeyWaiters(stage, k) \cup {c} /\ c \notin KeyWaiters(stage, k)
      BY <1>1, <1>6, <3>1 DEF KeyWaiters
    <3>3. keyLease \in SUBSET Call
      BY DEF Inv, KeysOK, EntriesOK
    <3>4. \A d \in Call : KeyOf[d] # k => /\ d \in keyLease <=> d \in keyLease
                                          /\ stage'[d] = "key_wait" <=> stage[d] = "key_wait"
      BY <1>6
    <3>5. \A d \in keyLease : stage'[d] \in Held
      BY <1>1, <1>6 DEF Inv, KeysOK, EntriesOK
    <3> HIDE DEF k, e, limit
    <3>6. InOrder(Wait(e, c), KeyHolders(keyLease, k), KeyWaiters(stage', k))
      <4>1. InOrder(Wait(e, c), KeyHolders(keyLease, k), KeyWaiters(stage, k) \cup {c})
        BY <1>1, <1>4, <2>3, <3>2, WaitInOrder, Zenon
      <4> QED
        BY <3>2, <4>1
    <3>7. EntriesOK([keySem EXCEPT ![k] = Wait(e, c)], keyLease, stage')
      BY <1>1, <1>4, <3>3, <3>4, <3>6, OneKey
    <3> QED
      BY <2>3, <3>5, <3>7 DEF KeysOK
  <2> QED
    BY <1>3, <2>1, <2>2, <2>3, Zenon
<1>11. Bounded'
  BY <1>2 DEF Inv, Bounded
<1>12. Served
  BY <1>1, <1>6 DEF Served
<1> QED
  BY <1>2, <1>5, <1>9, <1>10, <1>11, <1>12 DEF Inv

LEMMA QuitKeeps ==
  ASSUME Inv, NEW c \in Call, stage[c] \in {"keyed", "global_wait"}, Quit(c),
         UNCHANGED <<settings, keyLimit, seen>>
  PROVE  Inv' /\ Served
<1> DEFINE stages == [stage EXCEPT ![c] = "idle"]
<1>1. /\ globalSem' = Leave(globalSem, c) /\ globalLease' = globalLease
      /\ ReleaseKey(c, stages)
  BY DEF Quit
<1>2. /\ stages \in [Call -> Stage] /\ stages[c] = "idle"
      /\ \A d \in Call : d # c => stages[d] = stage[d]
  BY DEF Inv, Stage
<1> HIDE DEF stages
<1>3. EntriesOK(keySem, keyLease, stages)
  <2>1. \A d \in Call : stages[d] = "key_wait" <=> stage[d] = "key_wait"
    BY <1>2
  <2> QED
    BY <2>1, NoKey DEF Inv, KeysOK
<1>4. \A d \in keyLease : d # c => stages[d] \in Held
  BY <1>2 DEF Inv, KeysOK, EntriesOK
<1>5. /\ EntriesOK(keySem', keyLease', stage')
      /\ stage' \in [Call -> Stage]
      /\ \A d \in keyLease' : stage'[d] \in Held
      /\ \A d \in Call : \/ stage'[d] = stages[d]
                         \/ /\ stages[d] = "key_wait" /\ stage'[d] = "keyed" /\ d # c
                            /\ d = keySem[KeyOf[d]].waiters[1]
                            /\ 1 \in DOMAIN keySem[KeyOf[d]].waiters
  BY <1>1, <1>2, <1>3, <1>4, KeyReleased
<1>6. GlobalWaiters(stage') = GlobalWaiters(stage) \ {c}
  BY <1>2, <1>5 DEF GlobalWaiters
<1>7. InOrder(globalSem, globalLease, GlobalWaiters(stage))
  BY DEF Inv, GlobalOK
<1>8. InOrder(globalSem', globalLease', GlobalWaiters(stage')) /\ globalSem'.active = globalSem.active
  BY <1>1, <1>6, <1>7, LeaveInOrder
<1>9. \A d \in globalLease : stage'[d] = "running"
  BY <1>2, <1>5 DEF Inv, GlobalOK, InOrder
<1>10. Served
  BY <1>2, <1>5 DEF Served
<1>11. Bounded'
  BY <1>8 DEF Inv, Bounded
<1>12. KeysOK(keySem, keyLease, stage)'
  BY <1>5 DEF KeysOK
<1>13. GlobalOK(globalSem, globalLease, stage)'
  BY <1>1, <1>8, <1>9 DEF GlobalOK
<1> QED
  BY <1>5, <1>10, <1>11, <1>12, <1>13 DEF Inv

LEMMA EnterGlobalKeeps == ASSUME Inv, NEW c \in Call, EnterGlobal(c) PROVE Inv' /\ Served
<1> DEFINE limit == seen[c].global
<1>1. limit \in Nat /\ stage[c] = "keyed" /\ c \notin globalLease /\ (\E s \in Settings : s.global = limit)
  BY KeyTypes DEF Inv, GlobalOK, EnterGlobal
<1>2. UNCHANGED <<settings, keyLimit, seen>>
  BY DEF EnterGlobal
<1>3. \/ /\ stage' = [stage EXCEPT ![c] = "running"]
         /\ globalSem' = globalSem /\ globalLease' = globalLease /\ keySem' = keySem /\ keyLease' = keyLease
      \/ /\ HasRoom(globalSem, limit) /\ globalSem' = Take(globalSem)
         /\ globalLease' = globalLease \cup {c} /\ stage' = [stage EXCEPT ![c] = "running"]
         /\ keySem' = keySem /\ keyLease' = keyLease
      \/ /\ limit > 0 /\ ~HasRoom(globalSem, limit) /\ globalSem' = Wait(globalSem, c)
         /\ stage' = [stage EXCEPT ![c] = "global_wait"]
         /\ globalLease' = globalLease /\ keySem' = keySem /\ keyLease' = keyLease
      \/ Quit(c)
  BY Zenon DEF EnterGlobal, MayQueue
<1>4. ASSUME NEW to \in {"running", "global_wait"}, stage' = [stage EXCEPT ![c] = to],
             keySem' = keySem, keyLease' = keyLease
      PROVE  /\ stage' \in [Call -> Stage] /\ stage'[c] = to
             /\ \A d \in Call : d # c => stage'[d] = stage[d]
             /\ KeysOK(keySem, keyLease, stage)' /\ Served
  <2>1. /\ stage' \in [Call -> Stage] /\ stage'[c] = to
        /\ \A d \in Call : d # c => stage'[d] = stage[d]
    BY <1>4 DEF Inv, Stage
  <2>2. \A d \in Call : stage'[d] = "key_wait" <=> stage[d] = "key_wait"
    BY <1>1, <2>1
  <2>3. EntriesOK(keySem, keyLease, stage')
    BY <2>2, NoKey DEF Inv, KeysOK
  <2>4. \A d \in keyLease : stage'[d] \in Held
    BY <2>1 DEF Inv, KeysOK, EntriesOK, Held
  <2>5. KeysOK(keySem, keyLease, stage)'
    BY <1>4, <2>3, <2>4 DEF KeysOK
  <2>6. Served
    BY <1>1, <2>1 DEF Served
  <2> QED
    BY <2>1, <2>5, <2>6
<1>5. InOrder(globalSem, globalLease, GlobalWaiters(stage)) /\ \A d \in globalLease : stage[d] = "running"
  BY DEF Inv, GlobalOK
<1>6. globalSem \in Entry(Call) /\ globalLease \subseteq Call
  BY <1>5 DEF InOrder
<1>7. CASE /\ stage' = [stage EXCEPT ![c] = "running"]
           /\ globalSem' = globalSem /\ globalLease' = globalLease /\ keySem' = keySem /\ keyLease' = keyLease
  <2>1. /\ stage' \in [Call -> Stage] /\ stage'[c] = "running"
        /\ \A d \in Call : d # c => stage'[d] = stage[d]
        /\ KeysOK(keySem, keyLease, stage)' /\ Served
    BY <1>4, <1>7
  <2>2. GlobalWaiters(stage') = GlobalWaiters(stage)
    BY <1>1, <2>1 DEF GlobalWaiters
  <2>3. \A d \in globalLease : stage'[d] = "running"
    BY <1>5, <1>6, <2>1
  <2>4. GlobalOK(globalSem, globalLease, stage)'
    BY <1>5, <1>7, <2>2, <2>3 DEF GlobalOK
  <2>5. Bounded'
    BY <1>7 DEF Inv, Bounded
  <2> QED
    BY <1>2, <2>1, <2>4, <2>5 DEF Inv
<1>8. CASE /\ HasRoom(globalSem, limit) /\ globalSem' = Take(globalSem)
           /\ globalLease' = globalLease \cup {c} /\ stage' = [stage EXCEPT ![c] = "running"]
           /\ keySem' = keySem /\ keyLease' = keyLease
  <2>1. /\ stage' \in [Call -> Stage] /\ stage'[c] = "running"
        /\ \A d \in Call : d # c => stage'[d] = stage[d]
        /\ KeysOK(keySem, keyLease, stage)' /\ Served
    BY <1>4, <1>8
  <2>2. GlobalWaiters(stage') = GlobalWaiters(stage)
    BY <1>1, <2>1 DEF GlobalWaiters
  <2>3. \A d \in globalLease' : stage'[d] = "running"
    BY <1>5, <1>6, <1>8, <2>1
  <2>4. InOrder(Take(globalSem), globalLease \cup {c}, GlobalWaiters(stage))
        /\ Take(globalSem).active = globalSem.active + 1
    BY <1>1, <1>5, TakeInOrder
  <2>5. GlobalOK(globalSem, globalLease, stage)'
    BY <1>8, <2>2, <2>3, <2>4 DEF GlobalOK
  <2>6. globalSem.active \in Nat /\ globalSem.active < limit /\ globalSem'.active = globalSem.active + 1
    BY <1>6, <1>8, <2>4 DEF HasRoom, Entry
  <2>7. Bounded'
    <3> SUFFICES ASSUME NEW m \in Nat, \A s \in Settings : s.global <= m
                 PROVE  globalSem'.active <= m
      BY DEF Bounded
    <3>1. limit <= m
      BY <1>1
    <3> HIDE DEF limit
    <3> QED
      BY <1>1, <2>6, <3>1
  <2> QED
    BY <1>2, <2>1, <2>5, <2>7 DEF Inv
<1>9. CASE /\ limit > 0 /\ ~HasRoom(globalSem, limit) /\ globalSem' = Wait(globalSem, c)
           /\ stage' = [stage EXCEPT ![c] = "global_wait"]
           /\ globalLease' = globalLease /\ keySem' = keySem /\ keyLease' = keyLease
  <2>1. /\ stage' \in [Call -> Stage] /\ stage'[c] = "global_wait"
        /\ \A d \in Call : d # c => stage'[d] = stage[d]
        /\ KeysOK(keySem, keyLease, stage)' /\ Served
    BY <1>4, <1>9
  <2>2. GlobalWaiters(stage') = GlobalWaiters(stage) \cup {c} /\ c \notin GlobalWaiters(stage)
    BY <1>1, <2>1 DEF GlobalWaiters
  <2>3. \A d \in globalLease : stage'[d] = "running"
    BY <1>1, <1>5, <1>6, <2>1
  <2> HIDE DEF limit
  <2>4. InOrder(Wait(globalSem, c), globalLease, GlobalWaiters(stage) \cup {c})
        /\ Wait(globalSem, c).active = globalSem.active
    BY <1>1, <1>5, <1>9, <2>2, WaitInOrder, Zenon
  <2>5. GlobalOK(globalSem, globalLease, stage)'
    BY <1>9, <2>2, <2>3, <2>4 DEF GlobalOK
  <2>6. Bounded'
    BY <1>9, <2>4 DEF Inv, Bounded
  <2> QED
    BY <1>2, <2>1, <2>5, <2>6 DEF Inv
<1>10. CASE Quit(c)
  BY <1>1, <1>2, <1>10, QuitKeeps
<1> QED
  BY <1>3, <1>7, <1>8, <1>9, <1>10, Zenon

LEMMA GiveUpKeeps == ASSUME Inv, NEW c \in Call, GiveUp(c) PROVE Inv' /\ Served
<1> DEFINE k == KeyOf[c]
           e == keySem[k]
<1>1. UNCHANGED <<settings, keyLimit, seen>>
  BY DEF GiveUp
<1>2. CASE stage[c] \in {"keyed", "global_wait"}
  <2>1. Quit(c)
    BY <1>2 DEF GiveUp
  <2> QED
    BY <1>1, <1>2, <2>1, QuitKeeps
<1>3. CASE stage[c] = "key_wait"
  <2>1. /\ keySem' = [keySem EXCEPT ![k] = Leave(e, c)]
        /\ stage' = [stage EXCEPT ![c] = "idle"]
        /\ globalSem' = globalSem /\ globalLease' = globalLease /\ keyLease' = keyLease
    BY <1>3 DEF GiveUp
  <2>2. k \in Key /\ EntriesOK(keySem, keyLease, stage) /\ keyLease \in SUBSET Call
    BY GateAssumption DEF Inv, KeysOK, EntriesOK
  <2>3. InOrder(e, KeyHolders(keyLease, k), KeyWaiters(stage, k))
    BY <2>2 DEF EntriesOK
  <2>4. /\ stage' \in [Call -> Stage] /\ stage'[c] = "idle"
        /\ \A d \in Call : d # c => stage'[d] = stage[d]
    BY <2>1 DEF Inv, Stage
  <2>5. KeyWaiters(stage', k) = KeyWaiters(stage, k) \ {c}
    BY <2>4 DEF KeyWaiters
  <2>6. \A d \in Call : KeyOf[d] # k => /\ d \in keyLease <=> d \in keyLease
                                        /\ stage'[d] = "key_wait" <=> stage[d] = "key_wait"
    BY <2>4
  <2>7. \A d \in keyLease : stage'[d] \in Held
    BY <1>3, <2>4 DEF Inv, KeysOK, EntriesOK, Held
  <2>8. GlobalWaiters(stage') = GlobalWaiters(stage)
    BY <1>3, <2>4 DEF GlobalWaiters
  <2>9. \A d \in globalLease : stage'[d] = "running"
    BY <1>3, <2>4 DEF Inv, GlobalOK, InOrder
  <2>10. GlobalOK(globalSem, globalLease, stage)'
    BY <2>1, <2>8, <2>9 DEF Inv, GlobalOK
  <2>11. Served
    BY <2>4 DEF Served
  <2>12. Bounded'
    BY <2>1 DEF Inv, Bounded
  <2> HIDE DEF k, e
  <2>13. InOrder(Leave(e, c), KeyHolders(keyLease, k), KeyWaiters(stage', k))
    BY <2>3, <2>5, LeaveInOrder
  <2>14. EntriesOK([keySem EXCEPT ![k] = Leave(e, c)], keyLease, stage')
    BY <2>2, <2>6, <2>13, OneKey
  <2>15. KeysOK(keySem, keyLease, stage)'
    BY <2>1, <2>7, <2>14 DEF KeysOK
  <2> QED
    BY <1>1, <2>4, <2>10, <2>11, <2>12, <2>15 DEF Inv
<1> QED
  BY <1>2, <1>3 DEF GiveUp

LEMMA WatchdogKeeps == ASSUME Inv, NEW c \in Call, Watchdog(c) PROVE Inv' /\ Served
<1>1. /\ ReleaseKey(c, stage) /\ c \in keyLease
      /\ UNCHANGED <<settings, keyLimit, seen, globalSem, globalLease>>
  BY DEF Watchdog
<1>2. EntriesOK(keySem, keyLease, stage) /\ stage \in [Call -> Stage] /\ \A d \in keyLease : stage[d] \in Held
  BY DEF Inv, KeysOK
<1>3. stage[c] # "key_wait"
  BY <1>1, <1>2 DEF Held
<1>4. /\ EntriesOK(keySem', keyLease', stage')
      /\ stage' \in [Call -> Stage]
      /\ \A d \in keyLease' : stage'[d] \in Held
      /\ \A d \in Call : \/ stage'[d] = stage[d]
                         \/ /\ stage[d] = "key_wait" /\ stage'[d] = "keyed" /\ d # c
                            /\ d = keySem[KeyOf[d]].waiters[1]
                            /\ 1 \in DOMAIN keySem[KeyOf[d]].waiters
  BY <1>1, <1>2, <1>3, KeyReleased
<1>5. GlobalWaiters(stage') = GlobalWaiters(stage)
  BY <1>4 DEF GlobalWaiters
<1>6. \A d \in globalLease : stage'[d] = "running"
  BY <1>4 DEF Inv, GlobalOK, InOrder
<1>7. GlobalOK(globalSem, globalLease, stage)'
  BY <1>1, <1>5, <1>6 DEF Inv, GlobalOK
<1>8. KeysOK(keySem, keyLease, stage)'
  BY <1>4 DEF KeysOK
<1>9. Bounded' /\ Served
  BY <1>1, <1>4 DEF Inv, Bounded, Served
<1> QED
  BY <1>1, <1>4, <1>7, <1>8, <1>9 DEF Inv

LEMMA ReleaseKeeps == ASSUME Inv, NEW c \in Call, Release(c) PROVE Inv' /\ Served
<1> DEFINE next == IF c \in globalLease THEN NextUp(globalSem) ELSE {}
           stages == [Resumed(next, "running") EXCEPT ![c] = "idle"]
<1>1. /\ stage[c] = "running"
      /\ globalSem' = IF c \in globalLease THEN Handoff(globalSem) ELSE globalSem
      /\ globalLease' = (globalLease \ {c}) \cup next
      /\ ReleaseKey(c, stages)
      /\ UNCHANGED <<settings, keyLimit, seen>>
  BY DEF Release
<1>2. InOrder(globalSem, globalLease, GlobalWaiters(stage)) /\ \A d \in globalLease : stage[d] = "running"
  BY DEF Inv, GlobalOK
<1>3. /\ next \subseteq GlobalWaiters(stage)
      /\ InOrder(globalSem', globalLease', GlobalWaiters(stage) \ next)
      /\ globalSem'.active <= globalSem.active /\ globalSem.active \in Nat /\ globalSem'.active \in Nat
  <2>1. globalSem.active \in Nat
    BY <1>2 DEF InOrder, Entry
  <2>2. CASE c \in globalLease
    <3>1. globalLease \cap GlobalWaiters(stage) = {}
      BY <1>2 DEF GlobalWaiters
    <3>2. /\ NextUp(globalSem) \subseteq GlobalWaiters(stage)
          /\ InOrder(Handoff(globalSem), (globalLease \ {c}) \cup NextUp(globalSem),
                     GlobalWaiters(stage) \ NextUp(globalSem))
          /\ Handoff(globalSem).active <= globalSem.active
      BY <1>2, <2>2, <3>1, HandoffInOrder
    <3>3. Handoff(globalSem).active \in Nat
      BY <3>2 DEF InOrder, Entry
    <3> QED
      BY <1>1, <2>1, <2>2, <3>2, <3>3
  <2>3. CASE c \notin globalLease
    <3>1. next = {} /\ globalLease' = globalLease /\ globalSem' = globalSem
      BY <1>1, <2>3
    <3> QED
      BY <1>2, <2>1, <3>1
  <2> QED
    BY <2>2, <2>3
<1> HIDE DEF next
<1>4. /\ stages \in [Call -> Stage] /\ stages[c] = "idle"
      /\ \A d \in Call : d # c /\ d \in next => stages[d] = "running"
      /\ \A d \in Call : d # c /\ d \notin next => stages[d] = stage[d]
  BY DEF Inv, Stage, Resumed
<1> HIDE DEF stages
<1>5. \A d \in next : d \in Call /\ stage[d] = "global_wait" /\ d # c
  BY <1>1, <1>3 DEF GlobalWaiters
<1>6. EntriesOK(keySem, keyLease, stages)
  <2>1. \A d \in Call : stages[d] = "key_wait" <=> stage[d] = "key_wait"
    BY <1>1, <1>4, <1>5
  <2> QED
    BY <2>1, NoKey DEF Inv, KeysOK
<1>7. \A d \in keyLease : d # c => stages[d] \in Held
  BY <1>4, <1>5 DEF Inv, KeysOK, EntriesOK, Held
<1>8. /\ EntriesOK(keySem', keyLease', stage')
      /\ stage' \in [Call -> Stage]
      /\ \A d \in keyLease' : stage'[d] \in Held
      /\ \A d \in Call : \/ stage'[d] = stages[d]
                         \/ /\ stages[d] = "key_wait" /\ stage'[d] = "keyed" /\ d # c
                            /\ d = keySem[KeyOf[d]].waiters[1]
                            /\ 1 \in DOMAIN keySem[KeyOf[d]].waiters
  BY <1>1, <1>4, <1>6, <1>7, KeyReleased
<1>9. GlobalWaiters(stage') = GlobalWaiters(stage) \ next
  BY <1>1, <1>4, <1>5, <1>8 DEF GlobalWaiters
<1>10. \A d \in globalLease' : stage'[d] = "running"
  <2> SUFFICES ASSUME NEW d \in globalLease' PROVE stage'[d] = "running"
    OBVIOUS
  <2>1. d \in Call /\ d # c /\ stages[d] = "running"
    BY <1>1, <1>2, <1>4, <1>5 DEF InOrder
  <2> QED
    BY <1>8, <2>1
<1>11. GlobalOK(globalSem, globalLease, stage)'
  BY <1>3, <1>9, <1>10 DEF GlobalOK
<1>12. KeysOK(keySem, keyLease, stage)'
  BY <1>8 DEF KeysOK
<1>13. Bounded'
  <2> SUFFICES ASSUME NEW m \in Nat, \A s \in Settings : s.global <= m
               PROVE  globalSem'.active <= m
    BY DEF Bounded
  <2>1. globalSem.active <= m
    BY DEF Inv, Bounded
  <2> QED
    BY <1>3, <2>1
<1>14. Served
  BY <1>4, <1>5, <1>8 DEF Served
<1> QED
  BY <1>1, <1>8, <1>11, <1>12, <1>13, <1>14 DEF Inv

LEMMA Step == ASSUME Inv, [Next]_vars PROVE Inv' /\ Served
<1>1. CASE UNCHANGED vars
  <2>1. Served
    BY <1>1 DEF vars, Served
  <2>2. Inv'
    BY <1>1 DEF vars, Inv, KeysOK, EntriesOK, GlobalOK, Bounded, KeyWaiters, GlobalWaiters
  <2> QED
    BY <2>1, <2>2
<1>2. CASE ChangeSettings
  <2>1. Served
    BY <1>2 DEF ChangeSettings, Served
  <2>2. /\ settings' \in Settings
        /\ UNCHANGED <<keyLimit, seen, stage, keySem, globalSem, keyLease, globalLease>>
    BY <1>2 DEF ChangeSettings
  <2>3. Inv'
    BY <2>2 DEF Inv, KeysOK, EntriesOK, GlobalOK, Bounded, KeyWaiters, GlobalWaiters
  <2> QED
    BY <2>1, <2>3
<1>3. ASSUME NEW k \in Key, ChangeKeyLimit(k) PROVE Inv' /\ Served
  <2>1. Served
    BY <1>3 DEF ChangeKeyLimit, Served
  <2>2. /\ keyLimit' \in [Key -> KeyLimits]
        /\ UNCHANGED <<settings, seen, stage, keySem, globalSem, keyLease, globalLease>>
    BY <1>3 DEF ChangeKeyLimit, Inv
  <2>3. Inv'
    BY <2>2 DEF Inv, KeysOK, EntriesOK, GlobalOK, Bounded, KeyWaiters, GlobalWaiters
  <2> QED
    BY <2>1, <2>3
<1> QED
  BY <1>1, <1>2, <1>3, EnterKeeps, EnterGlobalKeeps, GiveUpKeeps, WatchdogKeeps, ReleaseKeeps DEF Next

-----------------------------------------------------------------------------
\* The gate's invariant: both semaphores are in order whatever the calls, the
\* timeouts, the watchdog and the admin do (acquire, release, fail and
\* maxHoldMs of the keyed semaphore under createConcurrencyGate).
THEOREM Invariant == Spec => []Inv
<1>1. Inv /\ [Next]_vars => Inv'
  BY Step
<1> QED
  BY <1>1, Initially, PTL DEF Spec

\* Every variable keeps its type: no count goes below zero, and only callers
\* are ever in a queue.
THEOREM TypeCorrect == Spec => []TypeOK
<1>1. Inv => TypeOK
  BY DEF Inv, KeysOK, EntriesOK, GlobalOK, InOrder, TypeOK
<1> QED
  BY <1>1, Invariant, PTL

\* Whoever released the others and however often, a semaphore's count is the
\* number of leases of acquire() that are still to be released.
THEOREM CountsAlwaysLeases == Spec => []CountsAreLeases
<1>1. Inv => CountsAreLeases
  BY DEF Inv, KeysOK, EntriesOK, GlobalOK, InOrder, CountsAreLeases, HoldersOf, KeyHolders
<1> QED
  BY <1>1, Invariant, PTL

\* A call that was answered, refused, aborted or timed out holds no slot of the
\* gate and is in no queue.
THEOREM GoneAlwaysHoldNothing == Spec => []GoneHoldsNothing
<1>1. ASSUME Inv PROVE GoneHoldsNothing
  <2> SUFFICES ASSUME NEW c \in Call
               PROVE  /\ stage[c] \in {"idle", "key_wait"} => c \notin keyLease \cup globalLease
                      /\ stage[c] # "key_wait" => \A i \in DOMAIN keySem[KeyOf[c]].waiters :
                                                    keySem[KeyOf[c]].waiters[i] # c
                      /\ stage[c] # "global_wait" => \A i \in DOMAIN globalSem.waiters :
                                                       globalSem.waiters[i] # c
    BY DEF GoneHoldsNothing
  <2>1. c \in keyLease \cup globalLease => stage[c] \in Held
    BY <1>1 DEF Inv, KeysOK, GlobalOK, Held
  <2>2. Members(keySem[KeyOf[c]].waiters) = KeyWaiters(stage, KeyOf[c])
    BY <1>1, GateAssumption DEF Inv, KeysOK, EntriesOK, InOrder
  <2>3. Members(globalSem.waiters) = GlobalWaiters(stage)
    BY <1>1 DEF Inv, GlobalOK, InOrder
  <2>4. stage[c] # "key_wait" => c \notin Members(keySem[KeyOf[c]].waiters)
    BY <2>2 DEF KeyWaiters
  <2>5. stage[c] # "global_wait" => c \notin Members(globalSem.waiters)
    BY <2>3 DEF GlobalWaiters
  <2> QED
    BY <2>1, <2>4, <2>5 DEF Members, Held
<1> QED
  BY <1>1, Invariant, PTL

\* Nobody waits in a queue of the gate without a lease ahead of it whose
\* release will hand a slot over, whatever the limits have become since.
THEOREM NobodyEverStranded == Spec => []NobodyStranded
<1>1. ASSUME Inv PROVE NobodyStranded
  <2>1. ASSUME NEW e, NEW H, NEW W, InOrder(e, H, W), e.waiters # <<>> PROVE H # {}
    <3>1. e.waiters \in Seq(Call)
      BY <2>1 DEF InOrder, Entry
    <3>2. Head(e.waiters) \in Members(e.waiters)
      BY <2>1, <3>1, FirstOfQueue
    <3> QED
      BY <2>1, <3>2 DEF InOrder
  <2>2. \A k \in Key : InOrder(keySem[k], HoldersOf(k), KeyWaiters(stage, k))
    BY <1>1 DEF Inv, KeysOK, EntriesOK, KeyHolders, HoldersOf
  <2>3. InOrder(globalSem, globalLease, GlobalWaiters(stage))
    BY <1>1 DEF Inv, GlobalOK
  <2> QED
    BY <2>1, <2>2, <2>3 DEF NobodyStranded
<1> QED
  BY <1>1, Invariant, PTL

\* If one of the global limits is the highest, the process never has more calls
\* past its semaphore than that, though a call goes by the limit it read when
\* it came.
THEOREM GlobalLimitAlwaysHolds ==
  ASSUME \E g \in {s.global : s \in Settings} : \A s \in Settings : s.global <= g
  PROVE  Spec => []GlobalLimitHolds
<1>1. ASSUME Inv PROVE GlobalLimitHolds
  <2>1. /\ HighestGlobal \in {s.global : s \in Settings}
        /\ \A s \in Settings : s.global <= HighestGlobal
    BY DEF HighestGlobal
  <2>2. HighestGlobal \in Nat
    BY <2>1, GateAssumption
  <2>3. globalSem.active <= HighestGlobal
    BY <1>1, <2>1, <2>2 DEF Inv, Bounded
  <2> QED
    BY <1>1, <2>3 DEF Inv, GlobalOK, InOrder, GlobalLimitHolds
<1> QED
  BY <1>1, Invariant, PTL

\* No call gets a slot of its key while one that came earlier still waits in
\* the same queue.
THEOREM AlwaysServedInOrder == Spec => ServedInOrder
<1> DEFINE Earlier(c, d) ==
      /\ stage[c] = "key_wait" /\ stage[d] = "key_wait" /\ KeyOf[c] = KeyOf[d]
      /\ Position(keySem[KeyOf[c]].waiters, c) < Position(keySem[KeyOf[c]].waiters, d)
<1>1. ASSUME Inv, [Next]_vars, NEW c \in Call, NEW d \in Call, Earlier(c, d), stage'[d] = "keyed"
      PROVE  FALSE
  <2> DEFINE q == keySem[KeyOf[c]].waiters
  <2>1. Served
    BY <1>1, Step
  <2>2. d = q[1] /\ 1 \in DOMAIN q
    BY <1>1, <2>1 DEF Served
  <2>3. InOrder(keySem[KeyOf[c]], KeyHolders(keyLease, KeyOf[c]), KeyWaiters(stage, KeyOf[c]))
    BY <1>1, GateAssumption DEF Inv, KeysOK, EntriesOK
  <2>4. q \in Seq(Call) /\ Distinct(q) /\ Members(q) = KeyWaiters(stage, KeyOf[c])
    BY <2>3 DEF InOrder, Entry
  <2>5. c \in Members(q)
    BY <1>1, <2>4 DEF KeyWaiters
  <2>6. Position(q, c) < Position(q, d)
    BY <1>1
  <2> HIDE DEF q
  <2>7. Position(q, d) = 1
    BY <2>2, <2>4 DEF Position, Distinct
  <2>8. Position(q, c) \in DOMAIN q
    BY <2>5 DEF Position, Members
  <2>9. DOMAIN q = 1..Len(q) /\ Len(q) \in Nat
    BY <2>4
  <2> QED
    BY <2>6, <2>7, <2>8, <2>9
<1>2. ASSUME Inv, [Next]_vars
      PROVE  [\A c, d \in Call : Earlier(c, d) /\ stage'[d] = "keyed" => stage'[c] # "key_wait"]_vars
  BY <1>1, <1>2
<1>3. Inv /\ [Next]_vars =>
        [\A c, d \in Call :
           /\ stage[c] = "key_wait" /\ stage[d] = "key_wait" /\ KeyOf[c] = KeyOf[d]
           /\ Position(keySem[KeyOf[c]].waiters, c) < Position(keySem[KeyOf[c]].waiters, d)
           /\ stage'[d] = "keyed"
           => stage'[c] # "key_wait"]_vars
  BY <1>2
<1> QED
  BY <1>3, Invariant, PTL DEF Spec, ServedInOrder

=============================================================================
