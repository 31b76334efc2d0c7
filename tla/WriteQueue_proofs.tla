--------------------------- MODULE WriteQueue_proofs ---------------------------
(***************************************************************************)
(* Proofs about WriteQueue, for any items, kinds, costs, limits, pauses    *)
(* and stops.                                                              *)
(*                                                                         *)
(* Everything rests on how an item may move (Moves): forward only, and     *)
(* into the queue only while it is neither paused nor stopped.  On top of  *)
(* that: each queue holds what is in its stage, once; the queues keep the  *)
(* order of the calls; a drain that has come so far has nothing behind it; *)
(* the queue's bytes, a sum over its items, grow by the cost of the item   *)
(* that is let in and by nothing else.                                     *)
(***************************************************************************)
EXTENDS WriteQueue, FiniteSetTheorems, TLAPS

Distinct(q) == \A i, j \in DOMAIN q : q[i] = q[j] => i = j

\* The queue q holds the items that are in one of the stages `where`, each once.
Holds(q, where, st) == q \in Seq(Item) /\ Distinct(q) /\ ToSet(q) = At(where, st)

\* The batches of c are apart, and together what is on its way to the store.
ChainHolds(c, st) ==
  /\ c \in Seq(SUBSET Item)
  /\ UNION ToSet(c) = At({"inflight"}, st)
  /\ \A p, q \in DOMAIN c : p # q => c[p] \cap c[q] = {}

Types ==
  /\ stage \in [Item -> Stage]
  /\ calls \in Seq(Item)
  /\ blockers \subseteq Item
  /\ timer \in BOOLEAN /\ stopped \in BOOLEAN
  /\ pausedBy \in SUBSET Pause
  /\ barrier \in [Pause \cup Stop -> [phase : Phase, awaits : SUBSET Item]]
  /\ Holds(admission, {"waiting"}, stage)
  /\ Holds(tasks, {"queued"}, stage)
  /\ ChainHolds(chain, stage)

-----------------------------------------------------------------------------
\* An item joins a queue at its end, and leaves it at its head.
LEMMA Joins ==
  ASSUME NEW S, NEW q \in Seq(S), NEW x \in S, Distinct(q), x \notin ToSet(q)
  PROVE  /\ Append(q, x) \in Seq(S) /\ Distinct(Append(q, x))
         /\ ToSet(Append(q, x)) = ToSet(q) \cup {x}
<1>1. /\ Len(q) \in Nat /\ DOMAIN q = 1..Len(q)
      /\ Append(q, x) \in Seq(S) /\ DOMAIN Append(q, x) = 1..(Len(q) + 1)
      /\ \A i \in DOMAIN q : Append(q, x)[i] = q[i]
      /\ Append(q, x)[Len(q) + 1] = x
  OBVIOUS
<1>2. 1..(Len(q) + 1) = 1..Len(q) \cup {Len(q) + 1}
  BY <1>1
<1> QED
  BY <1>1, <1>2 DEF Distinct, ToSet

LEMMA Leaves ==
  ASSUME NEW S, NEW q \in Seq(S), q # <<>>
  PROVE  /\ Head(q) = q[1] /\ 1 \in DOMAIN q /\ Head(q) \in S
         /\ Tail(q) \in Seq(S)
         /\ \A i \in DOMAIN Tail(q) : Tail(q)[i] = q[i + 1] /\ i + 1 \in DOMAIN q /\ i + 1 # 1
         /\ \A i \in DOMAIN q : i # 1 => i - 1 \in DOMAIN Tail(q) /\ q[i] = Tail(q)[i - 1]
  OBVIOUS

LEMMA LeavesDistinct ==
  ASSUME NEW S, NEW q \in Seq(S), q # <<>>, Distinct(q)
  PROVE  /\ Distinct(Tail(q)) /\ Head(q) \in ToSet(q)
         /\ ToSet(Tail(q)) = ToSet(q) \ {Head(q)}
<1>1. /\ Head(q) = q[1] /\ 1 \in DOMAIN q
      /\ \A i \in DOMAIN Tail(q) : Tail(q)[i] = q[i + 1] /\ i + 1 \in DOMAIN q /\ i + 1 # 1
      /\ \A i \in DOMAIN q : i # 1 => i - 1 \in DOMAIN Tail(q) /\ q[i] = Tail(q)[i - 1]
      /\ DOMAIN Tail(q) \subseteq Nat
  BY Leaves
<1>2. Distinct(Tail(q))
  <2> SUFFICES ASSUME NEW i \in DOMAIN Tail(q), NEW j \in DOMAIN Tail(q), Tail(q)[i] = Tail(q)[j]
               PROVE  i = j
    BY DEF Distinct
  <2>1. i + 1 = j + 1
    BY <1>1 DEF Distinct
  <2> QED
    BY <1>1, <2>1
<1>3. ToSet(Tail(q)) \subseteq ToSet(q) \ {Head(q)}
  <2> SUFFICES ASSUME NEW i \in DOMAIN Tail(q) PROVE Tail(q)[i] \in ToSet(q) /\ Tail(q)[i] # q[1]
    BY <1>1 DEF ToSet
  <2>1. Tail(q)[i] = q[i + 1] /\ i + 1 \in DOMAIN q /\ i + 1 # 1
    BY <1>1
  <2> QED
    BY <1>1, <2>1 DEF ToSet, Distinct
<1>4. ToSet(q) \ {Head(q)} \subseteq ToSet(Tail(q))
  <2> SUFFICES ASSUME NEW i \in DOMAIN q, i # 1 PROVE q[i] \in ToSet(Tail(q))
    BY <1>1 DEF ToSet
  <2>1. q[i] = Tail(q)[i - 1] /\ i - 1 \in DOMAIN Tail(q)
    BY <1>1
  <2> QED
    BY <2>1 DEF ToSet
<1>5. Head(q) \in ToSet(q)
  BY <1>1 DEF ToSet
<1> QED
  BY <1>2, <1>3, <1>4, <1>5

\* A queue without repetitions is as long as the set of its items is large.
LEMMA LengthOfDistinct ==
  ASSUME NEW q \in Seq(Item), Distinct(q)
  PROVE  Len(q) = Cardinality(ToSet(q))
<1>1. Len(q) \in Nat /\ DOMAIN q = 1..Len(q)
  OBVIOUS
<1>2. q \in Bijection(1..Len(q), ToSet(q))
  BY <1>1 DEF Distinct, ToSet, Bijection, Injection, Surjection, IsInjective
<1>3. IsFiniteSet(1..Len(q)) /\ Cardinality(1..Len(q)) = Len(q)
  BY <1>1, FS_Interval
<1>4. ExistsBijection(1..Len(q), ToSet(q))
  BY <1>2 DEF ExistsBijection
<1> QED
  BY <1>3, <1>4, FS_Bijection

\* The types and what the queues hold make up the module's type invariant.
LEMMA TypesAreTypeOK == Types => WQTypeOK
<1> SUFFICES ASSUME Types PROVE WQTypeOK
  OBVIOUS
<1>1. Len(admission) = Cardinality(ToSet(admission)) /\ Len(tasks) = Cardinality(ToSet(tasks))
  BY LengthOfDistinct DEF Types, Holds
<1> QED
  BY <1>1 DEF Types, Holds, ChainHolds, WQTypeOK

-----------------------------------------------------------------------------
\* A flush sends what is buffered on its way, as one batch more.
LEMMA Flushes ==
  ASSUME NEW st \in [Item -> Stage], ChainHolds(chain, st), DoFlush(st)
  PROVE  /\ stage' \in [Item -> Stage]
         /\ \A j \in Item : stage'[j] = IF st[j] = "buffered" THEN "inflight" ELSE st[j]
         /\ ChainHolds(chain', stage')
         /\ timer' = FALSE
<1> DEFINE batch == At({"buffered"}, st)
<1>1. /\ stage' = [i \in Item |-> IF i \in batch THEN "inflight" ELSE st[i]]
      /\ chain' = IF batch = {} THEN chain ELSE Append(chain, batch)
      /\ timer' = FALSE
  BY DEF DoFlush
<1>2. /\ stage' \in [Item -> Stage]
      /\ \A j \in Item : stage'[j] = IF st[j] = "buffered" THEN "inflight" ELSE st[j]
      /\ At({"inflight"}, stage') = At({"inflight"}, st) \cup batch
      /\ batch \subseteq Item /\ At({"inflight"}, st) \cap batch = {}
  BY <1>1 DEF At, Stage
<1> HIDE DEF batch
<1>3. CASE batch = {}
  BY <1>1, <1>2, <1>3 DEF ChainHolds
<1>4. CASE batch # {}
  <2>1. /\ Len(chain) \in Nat /\ DOMAIN chain = 1..Len(chain)
        /\ chain' \in Seq(SUBSET Item) /\ DOMAIN chain' = 1..(Len(chain) + 1)
        /\ \A p \in DOMAIN chain : chain'[p] = chain[p]
        /\ chain'[Len(chain) + 1] = batch
    BY <1>1, <1>2, <1>4 DEF ChainHolds
  <2>2. 1..(Len(chain) + 1) = 1..Len(chain) \cup {Len(chain) + 1}
    BY <2>1
  <2>3. UNION ToSet(chain') = (UNION ToSet(chain)) \cup batch
    BY <2>1, <2>2 DEF ToSet
  <2>4. \A p \in DOMAIN chain : chain[p] \cap batch = {}
    BY <1>2 DEF ChainHolds, ToSet
  <2>5. UNION ToSet(chain') = At({"inflight"}, stage')
    BY <1>2, <2>3 DEF ChainHolds
  <2>6. ASSUME NEW p \in DOMAIN chain', NEW q \in DOMAIN chain', p # q
        PROVE  chain'[p] \cap chain'[q] = {}
    BY <2>1, <2>2, <2>4, <2>6 DEF ChainHolds
  <2>7. ChainHolds(chain', stage')
    BY <2>1, <2>5, <2>6 DEF ChainHolds
  <2> QED
    BY <1>1, <1>2, <2>7
<1> QED
  BY <1>1, <1>2, <1>3, <1>4

\* The chain does not change with items that are not on their way to the store.
LEMMA ChainStays ==
  ASSUME ChainHolds(chain, stage), chain' = chain,
         At({"inflight"}, stage') = At({"inflight"}, stage)
  PROVE  ChainHolds(chain', stage')
BY DEF ChainHolds

\* What Admit does: the item is buffered, on its way or queued, and of the others
\* at most what was buffered moves.
Admitted(i) ==
  /\ stage' \in [Item -> Stage]
  /\ \A j \in Item : \/ j = i \/ stage'[j] = stage[j]
                     \/ stage[j] = "buffered" /\ stage'[j] = "inflight"
  /\ \/ Kind[i] = "task" /\ stage'[i] = "queued" /\ tasks' = Append(tasks, i)
     \/ Kind[i] # "task" /\ stage'[i] \in {"buffered", "inflight"} /\ tasks' = tasks
  /\ timer' \in BOOLEAN
  /\ Holds(tasks', {"queued"}, stage')
  /\ ChainHolds(chain', stage')

LEMMA Admits ==
  ASSUME Types, NEW i \in Item, stage[i] \in {"new", "waiting"}, Admit(i)
  PROVE  Admitted(i)
<1> DEFINE st == [stage EXCEPT ![i] = "buffered"]
<1>1. CASE /\ Kind[i] = "task"
           /\ stage' = [stage EXCEPT ![i] = "queued"]
           /\ tasks' = Append(tasks, i)
           /\ UNCHANGED <<chain, timer>>
  <2>1. /\ stage' \in [Item -> Stage] /\ stage'[i] = "queued"
        /\ \A j \in Item : j # i => stage'[j] = stage[j]
    BY <1>1 DEF Types, Stage
  <2>2. /\ At({"inflight"}, stage') = At({"inflight"}, stage)
        /\ At({"queued"}, stage') = At({"queued"}, stage) \cup {i}
        /\ i \notin At({"queued"}, stage)
    BY <2>1 DEF At
  <2>3. ChainHolds(chain', stage')
    BY <1>1, <2>2, ChainStays DEF Types
  <2>4. tasks \in Seq(Item) /\ Distinct(tasks) /\ ToSet(tasks) = At({"queued"}, stage)
    BY DEF Types, Holds
  <2>5. Holds(tasks', {"queued"}, stage')
    <3>1. /\ Append(tasks, i) \in Seq(Item) /\ Distinct(Append(tasks, i))
          /\ ToSet(Append(tasks, i)) = ToSet(tasks) \cup {i}
      BY <2>2, <2>4, Joins
    <3> QED
      BY <1>1, <2>2, <2>4, <3>1 DEF Holds
  <2> QED
    BY <1>1, <2>1, <2>3, <2>5 DEF Types, Admitted
<1>2. ASSUME Kind[i] # "task", UNCHANGED tasks,
             stage' \in [Item -> Stage], stage'[i] \in {"buffered", "inflight"},
             \A j \in Item : \/ j = i \/ stage'[j] = stage[j]
                             \/ stage[j] = "buffered" /\ stage'[j] = "inflight",
             timer' \in BOOLEAN, ChainHolds(chain', stage')
      PROVE  Admitted(i)
  <2>1. At({"queued"}, stage') = At({"queued"}, stage)
    BY <1>2 DEF At
  <2>2. Holds(tasks', {"queued"}, stage')
    BY <1>2, <2>1 DEF Types, Holds
  <2> QED
    BY <1>2, <2>2 DEF Admitted
<1>3. CASE Kind[i] # "task" /\ DoFlush(st) /\ UNCHANGED tasks
  <2>1. /\ st \in [Item -> Stage] /\ st[i] = "buffered"
        /\ \A j \in Item : j # i => st[j] = stage[j]
    BY DEF Types, Stage
  <2>2. At({"inflight"}, st) = At({"inflight"}, stage)
    BY <2>1 DEF At
  <2>3. ChainHolds(chain, st)
    BY <2>2 DEF Types, ChainHolds
  <2> HIDE DEF st
  <2>4. /\ stage' \in [Item -> Stage]
        /\ \A j \in Item : stage'[j] = IF st[j] = "buffered" THEN "inflight" ELSE st[j]
        /\ ChainHolds(chain', stage')
        /\ timer' = FALSE
    BY <1>3, <2>1, <2>3, Flushes
  <2> QED
    BY <1>2, <1>3, <2>1, <2>4
<1>4. CASE Kind[i] # "task" /\ stage' = st /\ ScheduleTimer /\ UNCHANGED <<chain, tasks>>
  <2>1. /\ stage' \in [Item -> Stage] /\ stage'[i] = "buffered"
        /\ \A j \in Item : j # i => stage'[j] = stage[j]
    BY <1>4 DEF Types, Stage
  <2>2. At({"inflight"}, stage') = At({"inflight"}, stage)
    BY <2>1 DEF At
  <2>3. ChainHolds(chain', stage')
    BY <1>4, <2>2, ChainStays DEF Types
  <2>4. timer' \in BOOLEAN
    BY <1>4 DEF ScheduleTimer, Types
  <2> QED
    BY <1>2, <1>4, <2>1, <2>3, <2>4
<1> QED
  BY <1>1, <1>3, <1>4 DEF Admit

-----------------------------------------------------------------------------
\* The types, one action after the other.
LEMMA EnqueueTypes ==
  ASSUME Types, NEW i \in Item, Enqueue(i)
  PROVE  Types'
<1>1. /\ stage[i] = "new" /\ stage \in [Item -> Stage]
      /\ UNCHANGED <<blockers, pausedBy, stopped, barrier>>
  BY DEF Enqueue, Refuses, Types
<1>2. Called(i) \in Seq(Item)
  BY DEF Types, Called
<1>3. ASSUME NEW to \in Stage \ {"queued", "inflight"},
             stage' = [stage EXCEPT ![i] = to], UNCHANGED <<chain, tasks, timer>>,
             calls' \in Seq(Item), Holds(admission', {"waiting"}, stage')
      PROVE  Types'
  <2>1. /\ At({"inflight"}, stage') = At({"inflight"}, stage)
        /\ At({"queued"}, stage') = At({"queued"}, stage)
        /\ stage' \in [Item -> Stage]
    BY <1>1, <1>3 DEF At
  <2>2. ChainHolds(chain', stage')
    BY <1>3, <2>1, ChainStays DEF Types
  <2>3. Holds(tasks', {"queued"}, stage')
    BY <1>3, <2>1 DEF Types, Holds
  <2> QED
    BY <1>1, <1>3, <2>1, <2>2, <2>3 DEF Types
<1>4. ASSUME NEW to \in {"refused", "dropped"},
             stage' = [stage EXCEPT ![i] = to], UNCHANGED <<calls, admission, chain, tasks, timer>>
      PROVE  Types'
  <2>1. At({"waiting"}, stage') = At({"waiting"}, stage)
    BY <1>1, <1>4 DEF At
  <2>2. Holds(admission', {"waiting"}, stage')
    BY <1>4, <2>1 DEF Types, Holds
  <2>3. calls' \in Seq(Item) /\ to \in Stage \ {"queued", "inflight"}
    BY <1>4 DEF Types, Stage
  <2> QED
    BY <1>3, <1>4, <2>2, <2>3
<1>5. CASE Admit(i) /\ calls' = Called(i) /\ UNCHANGED admission
  <2>1. Admitted(i)
    BY <1>1, <1>5, Admits
  <2>2. At({"waiting"}, stage') = At({"waiting"}, stage)
    BY <1>1, <2>1 DEF At, Admitted
  <2>3. Holds(admission', {"waiting"}, stage')
    BY <1>5, <2>2 DEF Types, Holds
  <2> QED
    BY <1>1, <1>2, <1>5, <2>1, <2>3 DEF Types, Admitted
<1>6. CASE /\ stage' = [stage EXCEPT ![i] = "waiting"]
           /\ calls' = Called(i)
           /\ admission' = Append(admission, i)
           /\ UNCHANGED <<chain, tasks, timer>>
  <2>1. /\ admission \in Seq(Item) /\ Distinct(admission)
        /\ ToSet(admission) = At({"waiting"}, stage)
    BY DEF Types, Holds
  <2>2. /\ At({"waiting"}, stage') = At({"waiting"}, stage) \cup {i}
        /\ i \notin At({"waiting"}, stage)
    BY <1>1, <1>6 DEF At
  <2>3. Holds(admission', {"waiting"}, stage')
    <3>1. /\ Append(admission, i) \in Seq(Item) /\ Distinct(Append(admission, i))
          /\ ToSet(Append(admission, i)) = ToSet(admission) \cup {i}
      BY <2>1, <2>2, Joins
    <3> QED
      BY <1>6, <2>1, <2>2, <3>1 DEF Holds
  <2>4. "waiting" \in Stage \ {"queued", "inflight"}
    BY DEF Stage
  <2> QED
    BY <1>2, <1>3, <1>6, <2>3, <2>4
<1> QED
  BY <1>4, <1>5, <1>6 DEF Enqueue, Refuses

LEMMA FlushTypes ==
  ASSUME Types, DoFlush(stage), UNCHANGED <<calls, admission, tasks, pausedBy, stopped, barrier>>,
         blockers' \subseteq Item
  PROVE  Types'
<1>1. /\ stage' \in [Item -> Stage]
      /\ \A j \in Item : stage'[j] = IF stage[j] = "buffered" THEN "inflight" ELSE stage[j]
      /\ ChainHolds(chain', stage')
      /\ timer' = FALSE
  BY Flushes DEF Types
<1>2. /\ At({"waiting"}, stage') = At({"waiting"}, stage)
      /\ At({"queued"}, stage') = At({"queued"}, stage)
  BY <1>1 DEF At
<1>3. Holds(admission', {"waiting"}, stage') /\ Holds(tasks', {"queued"}, stage')
  BY <1>2 DEF Types, Holds
<1> QED
  BY <1>1, <1>3 DEF Types

LEMMA AdmitHeadTypes ==
  ASSUME Types, AdmitHead
  PROVE  Types'
<1> DEFINE i == Head(admission)
<1>1. CASE DoFlush(stage) /\ blockers' = Backlog /\ UNCHANGED <<admission, tasks>>
  <2>1. blockers' \subseteq Item
    BY <1>1 DEF Backlog, At
  <2> QED
    BY <1>1, <2>1, FlushTypes DEF AdmitHead
<1>2. CASE Admit(i) /\ admission' = Tail(admission) /\ blockers' = {}
  <2>1. /\ admission \in Seq(Item) /\ admission # <<>> /\ Distinct(admission)
        /\ ToSet(admission) = At({"waiting"}, stage)
    BY DEF Types, Holds, AdmitHead
  <2>2. /\ Distinct(Tail(admission)) /\ Tail(admission) \in Seq(Item)
        /\ ToSet(Tail(admission)) = ToSet(admission) \ {i}
        /\ i \in Item /\ stage[i] = "waiting"
    BY <2>1, Leaves, LeavesDistinct DEF At
  <2> HIDE DEF i
  <2>3. Admitted(i)
    BY <1>2, <2>2, Admits
  <2>4. At({"waiting"}, stage') = At({"waiting"}, stage) \ {i}
    BY <2>2, <2>3 DEF At, Admitted
  <2>5. Holds(admission', {"waiting"}, stage')
    BY <1>2, <2>1, <2>2, <2>4 DEF Holds
  <2> QED
    BY <1>2, <2>3, <2>5 DEF Types, Admitted, AdmitHead
<1> QED
  BY <1>1, <1>2 DEF AdmitHead

\* What is in the first batch moves, and nothing else.
BatchMoves ==
  /\ chain # <<>> /\ Head(chain) \subseteq Item
  /\ stage' \in [Item -> Stage]
  /\ \A j \in Item : \/ j \in Head(chain) /\ stage[j] = "inflight" /\ stage'[j] \in Settled
                        /\ (stage'[j] = "failed" => j \in Poison)
                     \/ j \notin Head(chain) /\ stage'[j] = stage[j]

LEMMA BatchSettlesMoves ==
  ASSUME Types, BatchSettles
  PROVE  BatchMoves
<1>1. chain \in Seq(SUBSET Item) /\ chain # <<>> /\ stage \in [Item -> Stage]
  BY DEF Types, ChainHolds, BatchSettles
<1>2. Head(chain) \subseteq Item /\ \A j \in Head(chain) : stage[j] = "inflight"
  <2>1. Head(chain) \in SUBSET Item /\ Head(chain) \in ToSet(chain)
    BY <1>1, Leaves DEF ToSet
  <2> QED
    BY <2>1 DEF Types, ChainHolds, At
<1>3. PICK stale \in SUBSET {i \in Head(chain) : Kind[i] = "payload"} :
        LET rows == Head(chain) \ stale
            of(kind) == {i \in rows : Kind[i] = kind}
            lost == Refused(of("telemetry")) \cup Refused(of("payload"))
        IN  stage' = [i \in Item |-> IF i \in stale THEN "skipped"
                                     ELSE IF i \in lost THEN "failed"
                                     ELSE IF i \in rows THEN "written" ELSE stage[i]]
  BY DEF BatchSettles
<1> DEFINE rows == Head(chain) \ stale
           lost == Refused({i \in rows : Kind[i] = "telemetry"})
                     \cup Refused({i \in rows : Kind[i] = "payload"})
<1>4. /\ lost \subseteq rows \cap Poison
      /\ \A j \in Item : stage'[j] = IF j \in stale THEN "skipped"
                                     ELSE IF j \in lost THEN "failed"
                                     ELSE IF j \in rows THEN "written" ELSE stage[j]
  BY <1>3 DEF Refused
<1>5. stage' \in [Item -> Stage]
  BY <1>1, <1>3 DEF Stage
<1>6. stale \subseteq Head(chain)
  OBVIOUS
<1> HIDE DEF lost
<1>7. ASSUME NEW j \in Item
      PROVE  \/ j \in Head(chain) /\ stage[j] = "inflight" /\ stage'[j] \in Settled
                /\ (stage'[j] = "failed" => j \in Poison)
             \/ j \notin Head(chain) /\ stage'[j] = stage[j]
  BY <1>2, <1>4, <1>6 DEF Settled
<1> QED
  BY <1>1, <1>2, <1>5, <1>7 DEF BatchMoves

LEMMA BatchSettlesTypes ==
  ASSUME Types, BatchSettles
  PROVE  Types'
<1>1. BatchMoves /\ chain' = Tail(chain)
      /\ UNCHANGED <<calls, admission, blockers, tasks, timer, pausedBy, stopped, barrier>>
  BY BatchSettlesMoves DEF BatchSettles
<1>2. /\ At({"waiting"}, stage') = At({"waiting"}, stage)
      /\ At({"queued"}, stage') = At({"queued"}, stage)
      /\ At({"inflight"}, stage') = At({"inflight"}, stage) \ Head(chain)
  <2>1. \A j \in Item : IF j \in Head(chain)
                        THEN stage[j] = "inflight" /\ stage'[j] \notin {"waiting", "queued", "inflight"}
                        ELSE stage'[j] = stage[j]
    BY <1>1 DEF BatchMoves, Settled
  <2> QED
    BY <2>1 DEF At
<1>3. Holds(admission', {"waiting"}, stage') /\ Holds(tasks', {"queued"}, stage')
  BY <1>1, <1>2 DEF Types, Holds
<1>4. /\ chain \in Seq(SUBSET Item) /\ chain # <<>>
      /\ UNION ToSet(chain) = At({"inflight"}, stage)
      /\ \A p, q \in DOMAIN chain : p # q => chain[p] \cap chain[q] = {}
  BY <1>1 DEF Types, ChainHolds, BatchMoves
<1>5. /\ Head(chain) = chain[1] /\ 1 \in DOMAIN chain
      /\ chain' \in Seq(SUBSET Item)
      /\ \A i \in DOMAIN chain' : chain'[i] = chain[i + 1] /\ i + 1 \in DOMAIN chain /\ i + 1 # 1
      /\ \A i \in DOMAIN chain : i # 1 => i - 1 \in DOMAIN chain' /\ chain[i] = chain'[i - 1]
      /\ DOMAIN chain' \subseteq Nat
  BY <1>1, <1>4, Leaves
<1>6. \A p, q \in DOMAIN chain' : p # q => chain'[p] \cap chain'[q] = {}
  <2> SUFFICES ASSUME NEW p \in DOMAIN chain', NEW q \in DOMAIN chain', p # q
               PROVE  chain[p + 1] \cap chain[q + 1] = {}
    BY <1>5
  <2>1. p + 1 \in DOMAIN chain /\ q + 1 \in DOMAIN chain /\ p + 1 # q + 1
    BY <1>5
  <2> QED
    BY <1>4, <2>1
<1>7. UNION ToSet(chain') \subseteq (UNION ToSet(chain)) \ Head(chain)
  <2> SUFFICES ASSUME NEW p \in DOMAIN chain', NEW x \in chain'[p]
               PROVE  x \in UNION ToSet(chain) /\ x \notin chain[1]
    BY <1>5 DEF ToSet
  <2>1. p + 1 \in DOMAIN chain /\ p + 1 # 1 /\ x \in chain[p + 1]
    BY <1>5
  <2> QED
    BY <1>4, <1>5, <2>1 DEF ToSet
<1>8. (UNION ToSet(chain)) \ Head(chain) \subseteq UNION ToSet(chain')
  <2> SUFFICES ASSUME NEW p \in DOMAIN chain, NEW x \in chain[p], x \notin chain[1]
               PROVE  x \in UNION ToSet(chain')
    BY <1>5 DEF ToSet
  <2>1. p - 1 \in DOMAIN chain' /\ x \in chain'[p - 1]
    BY <1>5
  <2> QED
    BY <2>1 DEF ToSet
<1>9. ChainHolds(chain', stage')
  BY <1>2, <1>4, <1>5, <1>6, <1>7, <1>8 DEF ChainHolds
<1> QED
  BY <1>1, <1>3, <1>9 DEF Types, BatchMoves

\* The first task moves, and nothing else.
TaskMoves ==
  /\ tasks # <<>> /\ Head(tasks) \in Item /\ stage[Head(tasks)] = "queued"
  /\ stage' \in [Item -> Stage]
  /\ stage'[Head(tasks)] \in {"written", "failed"}
  /\ stage'[Head(tasks)] = "failed" => Head(tasks) \in Poison
  /\ \A j \in Item : j # Head(tasks) => stage'[j] = stage[j]

LEMMA TaskSettlesMoves ==
  ASSUME Types, TaskSettles
  PROVE  /\ TaskMoves
         /\ Tail(tasks) \in Seq(Item) /\ Distinct(Tail(tasks))
         /\ ToSet(Tail(tasks)) = ToSet(tasks) \ {Head(tasks)}
<1>1. /\ tasks \in Seq(Item) /\ tasks # <<>> /\ Distinct(tasks)
      /\ ToSet(tasks) = At({"queued"}, stage)
  BY DEF Types, Holds, TaskSettles
<1>2. /\ Tail(tasks) \in Seq(Item) /\ Distinct(Tail(tasks))
      /\ ToSet(Tail(tasks)) = ToSet(tasks) \ {Head(tasks)}
      /\ Head(tasks) \in Item /\ stage[Head(tasks)] = "queued"
  BY <1>1, Leaves, LeavesDistinct DEF At
<1>3. TaskMoves
  BY <1>1, <1>2 DEF TaskMoves, TaskSettles, Types, Stage
<1> QED
  BY <1>2, <1>3

LEMMA TaskSettlesTypes ==
  ASSUME Types, TaskSettles
  PROVE  Types'
<1>1. /\ TaskMoves
      /\ Tail(tasks) \in Seq(Item) /\ Distinct(Tail(tasks))
      /\ ToSet(Tail(tasks)) = ToSet(tasks) \ {Head(tasks)}
  BY TaskSettlesMoves
<1>2. /\ tasks' = Tail(tasks)
      /\ UNCHANGED <<calls, admission, blockers, chain, timer, pausedBy, stopped, barrier>>
  BY DEF TaskSettles
<1>3. /\ At({"waiting"}, stage') = At({"waiting"}, stage)
      /\ At({"inflight"}, stage') = At({"inflight"}, stage)
      /\ At({"queued"}, stage') = At({"queued"}, stage) \ {Head(tasks)}
  BY <1>1 DEF TaskMoves, At
<1>4. Holds(admission', {"waiting"}, stage') /\ Holds(tasks', {"queued"}, stage')
  BY <1>1, <1>2, <1>3 DEF Types, Holds
<1>5. ChainHolds(chain', stage')
  BY <1>2, <1>3, ChainStays DEF Types
<1> QED
  BY <1>1, <1>2, <1>4, <1>5 DEF Types, TaskMoves

LEMMA DrainTypes ==
  ASSUME Types, NEW b \in Pause \cup Stop, Drain(b)
  PROVE  Types'
<1>1. /\ UNCHANGED <<stage, calls, admission, blockers, chain, tasks>>
      /\ timer' = FALSE
      /\ barrier' = [barrier EXCEPT ![b] = [phase |-> "admission", awaits |-> ToSet(admission)]]
      /\ stopped' \in BOOLEAN /\ pausedBy' \in SUBSET Pause
  BY DEF Drain, Types
<1>2. ToSet(admission) \subseteq Item /\ "admission" \in Phase
  BY DEF Types, Holds, At, Phase
<1>3. [phase |-> "admission", awaits |-> ToSet(admission)] \in [phase : Phase, awaits : SUBSET Item]
  BY <1>2
<1>4. barrier' \in [Pause \cup Stop -> [phase : Phase, awaits : SUBSET Item]]
  BY <1>1, <1>3 DEF Types
<1>5. /\ Holds(admission', {"waiting"}, stage') /\ Holds(tasks', {"queued"}, stage')
      /\ ChainHolds(chain', stage')
  BY <1>1 DEF Types
<1> QED
  BY <1>1, <1>4, <1>5 DEF Types

\* A step of a drain, by the phase that it ends.
NextPhase(b, from, to, pending, awaits) ==
  /\ barrier[b].phase = from
  /\ barrier[b].awaits \cap At(pending, stage) = {}
  /\ barrier' = [barrier EXCEPT ![b] = [phase |-> to, awaits |-> awaits]]
  /\ UNCHANGED <<calls, admission, blockers, tasks, pausedBy, stopped>>

LEMMA DrainStepPhases ==
  ASSUME NEW b \in Pause \cup Stop, DrainStep(b)
  PROVE  \/ /\ NextPhase(b, "admission", "batch", {"waiting"}, At({"buffered", "inflight"}, stage))
            /\ DoFlush(stage)
         \/ /\ \/ NextPhase(b, "batch", "writes", {"inflight", "queued"}, At({"inflight"}, stage))
               \/ NextPhase(b, "writes", "tasks", {"inflight", "queued"}, At({"queued"}, stage))
               \/ NextPhase(b, "tasks", "done", {"inflight", "queued"}, {})
            /\ UNCHANGED <<stage, chain, timer>>
<1>1. barrier[b].phase \in {"admission", "batch", "writes", "tasks"}
  BY DEF DrainStep
<1>2. CASE barrier[b].phase = "admission"
  BY <1>2 DEF DrainStep, NextPhase
<1>3. CASE barrier[b].phase = "batch"
  BY <1>3 DEF DrainStep, NextPhase
<1>4. CASE barrier[b].phase = "writes"
  BY <1>4 DEF DrainStep, NextPhase
<1>5. CASE barrier[b].phase = "tasks"
  BY <1>5 DEF DrainStep, NextPhase
<1> QED
  BY <1>1, <1>2, <1>3, <1>4, <1>5

LEMMA DrainStepTypes ==
  ASSUME Types, NEW b \in Pause \cup Stop, DrainStep(b)
  PROVE  Types'
<1>1. ASSUME NEW from, NEW to \in Phase, NEW pending, NEW awaits \in SUBSET Item,
             NextPhase(b, from, to, pending, awaits)
      PROVE  barrier' \in [Pause \cup Stop -> [phase : Phase, awaits : SUBSET Item]]
  <2>1. [phase |-> to, awaits |-> awaits] \in [phase : Phase, awaits : SUBSET Item]
    OBVIOUS
  <2> QED
    BY <1>1, <2>1 DEF NextPhase, Types
<1>2. /\ At({"buffered", "inflight"}, stage) \in SUBSET Item /\ {} \in SUBSET Item
      /\ At({"inflight"}, stage) \in SUBSET Item /\ At({"queued"}, stage) \in SUBSET Item
      /\ {"batch", "writes", "tasks", "done"} \subseteq Phase
  BY DEF At, Phase
<1>3. barrier' \in [Pause \cup Stop -> [phase : Phase, awaits : SUBSET Item]]
  BY <1>1, <1>2, DrainStepPhases
<1>4. UNCHANGED <<calls, admission, blockers, tasks, pausedBy, stopped>>
  BY DEF DrainStep
<1>5. CASE DoFlush(stage)
  <2>1. /\ stage' \in [Item -> Stage]
        /\ \A j \in Item : stage'[j] = IF stage[j] = "buffered" THEN "inflight" ELSE stage[j]
        /\ ChainHolds(chain', stage')
        /\ timer' = FALSE
    BY <1>5, Flushes DEF Types
  <2>2. /\ At({"waiting"}, stage') = At({"waiting"}, stage)
        /\ At({"queued"}, stage') = At({"queued"}, stage)
    BY <2>1 DEF At
  <2>3. Holds(admission', {"waiting"}, stage') /\ Holds(tasks', {"queued"}, stage')
    BY <1>4, <2>2 DEF Types, Holds
  <2> QED
    BY <1>3, <1>4, <2>1, <2>3 DEF Types
<1>6. CASE UNCHANGED <<stage, chain, timer>>
  BY <1>3, <1>4, <1>6 DEF Types
<1> QED
  BY <1>5, <1>6, DrainStepPhases

LEMMA InitTypes == WQInit => Types
<1> SUFFICES ASSUME WQInit PROVE Types
  OBVIOUS
<1>1. /\ stage = [i \in Item |-> "new"]
      /\ calls = <<>> /\ admission = <<>> /\ blockers = {}
      /\ chain = <<>> /\ tasks = <<>>
      /\ timer = FALSE /\ pausedBy = {} /\ stopped = FALSE
      /\ barrier = [b \in Pause \cup Stop |-> [phase |-> "new", awaits |-> {}]]
  BY DEF WQInit
<1>2. /\ At({"waiting"}, stage) = {} /\ At({"queued"}, stage) = {} /\ At({"inflight"}, stage) = {}
      /\ stage \in [Item -> Stage]
  BY <1>1 DEF At, Stage
<1>3. \A S : <<>> \in Seq(S) /\ ToSet(<<>>) = {} /\ DOMAIN <<>> = {}
  BY DEF ToSet
<1>4. Holds(admission, {"waiting"}, stage) /\ Holds(tasks, {"queued"}, stage)
  BY <1>1, <1>2, <1>3 DEF Holds, Distinct
<1>5. ChainHolds(chain, stage)
  BY <1>1, <1>2, <1>3 DEF ChainHolds
<1>6. [phase |-> "new", awaits |-> {}] \in [phase : Phase, awaits : SUBSET Item]
  BY DEF Phase
<1> QED
  BY <1>1, <1>2, <1>3, <1>4, <1>5, <1>6 DEF Types

LEMMA NextTypes == Types /\ [Next]_wqVars => Types'
<1> SUFFICES ASSUME Types, [Next]_wqVars PROVE Types'
  OBVIOUS
<1>1. CASE TimerFires
  <2>1. blockers' \subseteq Item
    BY <1>1 DEF TimerFires, Types
  <2> QED
    BY <1>1, <2>1, FlushTypes DEF TimerFires
<1>2. CASE Resume
  BY <1>2 DEF Resume, Types
<1>3. CASE UNCHANGED wqVars
  BY <1>3 DEF wqVars, Types
<1> QED
  BY <1>1, <1>2, <1>3, EnqueueTypes, AdmitHeadTypes, BatchSettlesTypes, TaskSettlesTypes,
     DrainTypes, DrainStepTypes DEF Next

\* Every item is in one stage, every queue holds what is in its stage, once, and
\* nothing is in two batches.
THEOREM TypeCorrect == Spec => []WQTypeOK
BY InitTypes, NextTypes, TypesAreTypeOK, PTL DEF Spec

-----------------------------------------------------------------------------
\* How an item moves in a step.
Moves(i) ==
  \/ stage'[i] = stage[i]
  \/ stage[i] = "new" /\ stage'[i] \in {"refused", "dropped"}
  \/ /\ stage[i] = "new" /\ ~stopped /\ pausedBy = {}
     /\ stage'[i] \in {"waiting", "buffered", "inflight", "queued"}
  \/ stage[i] = "waiting" /\ stage'[i] \in {"buffered", "inflight", "queued"}
  \/ stage[i] = "buffered" /\ stage'[i] = "inflight"
  \/ /\ stage[i] \in {"inflight", "queued"} /\ stage'[i] \in Settled
     /\ stage'[i] = "failed" => i \in Poison

LEMMA FlushMoves ==
  ASSUME Types, DoFlush(stage)
  PROVE  \A i \in Item : Moves(i)
<1>1. \A j \in Item : stage'[j] = IF stage[j] = "buffered" THEN "inflight" ELSE stage[j]
  BY Flushes DEF Types
<1> QED
  BY <1>1 DEF Moves

LEMMA EnqueueMoves ==
  ASSUME Types, NEW x \in Item, Enqueue(x)
  PROVE  \A i \in Item : Moves(i)
<1>1. stage[x] = "new" /\ stage \in [Item -> Stage]
  BY DEF Enqueue, Refuses, Types
<1>2. CASE ~stopped /\ pausedBy = {} /\ Admit(x)
  <2>1. Admitted(x)
    BY <1>1, <1>2, Admits
  <2> QED
    BY <1>1, <1>2, <2>1 DEF Admitted, Moves
<1>3. CASE \/ stage' = [stage EXCEPT ![x] = "refused"] \/ stage' = [stage EXCEPT ![x] = "dropped"]
           \/ ~stopped /\ pausedBy = {} /\ stage' = [stage EXCEPT ![x] = "waiting"]
  BY <1>1, <1>3 DEF Moves
<1> QED
  BY <1>2, <1>3 DEF Enqueue, Refuses

\* The head of the waiting calls flushes, or is admitted.
HeadAdmitted ==
  /\ admission # <<>> /\ Head(admission) \in Item /\ stage[Head(admission)] = "waiting"
  /\ Admitted(Head(admission))
  /\ admission' = Tail(admission)

LEMMA AdmitHeadCases ==
  ASSUME Types, AdmitHead
  PROVE  (DoFlush(stage) /\ UNCHANGED <<admission, tasks>>) \/ HeadAdmitted
<1>1. CASE Admit(Head(admission)) /\ admission' = Tail(admission)
  <2>1. /\ admission \in Seq(Item) /\ admission # <<>> /\ Distinct(admission)
        /\ ToSet(admission) = At({"waiting"}, stage)
    BY DEF Types, Holds, AdmitHead
  <2>2. Head(admission) \in Item /\ stage[Head(admission)] = "waiting"
    BY <2>1, LeavesDistinct DEF At
  <2> QED
    BY <1>1, <2>1, <2>2, Admits DEF HeadAdmitted
<1> QED
  BY <1>1 DEF AdmitHead

LEMMA AllMove ==
  ASSUME Types, [Next]_wqVars
  PROVE  \A i \in Item : Moves(i)
<1>1. CASE AdmitHead
  <2>1. CASE HeadAdmitted
    BY <2>1 DEF HeadAdmitted, Admitted, Moves
  <2> QED
    BY <1>1, <2>1, AdmitHeadCases, FlushMoves
<1>2. CASE TimerFires
  BY <1>2, FlushMoves DEF TimerFires
<1>3. CASE BatchSettles
  BY <1>3, BatchSettlesMoves DEF BatchMoves, Moves
<1>4. CASE TaskSettles
  BY <1>4, TaskSettlesMoves DEF TaskMoves, Moves, Settled
<1>5. CASE Resume \/ UNCHANGED wqVars \/ \E b \in Pause \cup Stop : Drain(b)
  BY <1>5 DEF Resume, wqVars, Drain, Moves
<1>6. ASSUME NEW b \in Pause \cup Stop, DrainStep(b)
      PROVE  \A i \in Item : Moves(i)
  <2>1. CASE UNCHANGED <<stage, chain, timer>>
    BY <2>1 DEF Moves
  <2> QED
    BY <1>6, <2>1, DrainStepPhases, FlushMoves
<1> QED
  BY <1>1, <1>2, <1>3, <1>4, <1>5, <1>6, EnqueueMoves DEF Next

LEMMA InitNoLoss == WQInit => NoCollateralLoss
BY DEF WQInit, NoCollateralLoss, At

LEMMA NextNoLoss == Types /\ NoCollateralLoss /\ [Next]_wqVars => NoCollateralLoss'
<1> SUFFICES ASSUME Types, NoCollateralLoss, [Next]_wqVars,
                    NEW i \in Item, stage'[i] = "failed"
             PROVE  i \in Poison
  BY DEF NoCollateralLoss, At
<1>1. stage[i] = "failed" => i \in Poison
  BY DEF NoCollateralLoss, At
<1>2. Moves(i)
  BY AllMove
<1> QED
  BY <1>1, <1>2 DEF Moves

\* No row is lost for the sake of another: what failed was refused by the store
\* itself, or its own task threw.
THEOREM NoCollateralLossAlways == Spec => []NoCollateralLoss
BY InitTypes, NextTypes, InitNoLoss, NextNoLoss, PTL DEF Spec

-----------------------------------------------------------------------------
\* The drain b is in force: nothing is let into the queue.
InForce(b) == IF b \in Stop THEN stopped ELSE pausedBy = {b}

\* What is left behind a drain that has come so far.
Behind(b) ==
  LET phase == barrier[b].phase
      awaits == barrier[b].awaits
  IN  /\ phase = "admission" => At({"waiting"}, stage) \subseteq awaits
      /\ phase \in {"batch", "writes", "tasks", "done"} => At({"waiting", "buffered"}, stage) = {}
      /\ phase = "batch" => At({"inflight"}, stage) \subseteq awaits
      /\ phase \in {"writes", "tasks", "done"} => At({"inflight"}, stage) = {}
      /\ phase = "tasks" => At({"queued"}, stage) \subseteq awaits
      /\ phase = "done" => At({"queued"}, stage) = {}

DrainInv ==
  \A b \in Pause \cup Stop :
    /\ b \in Stop /\ barrier[b].phase # "new" => stopped
    /\ InForce(b) => Behind(b)

\* As long as nothing is let in, what waits can only get less, and so can what is
\* on its way when nothing is left that could follow it.
LEMMA Quiet ==
  ASSUME Types, [Next]_wqVars, stopped \/ pausedBy # {}
  PROVE  /\ At({"waiting"}, stage') \subseteq At({"waiting"}, stage)
         /\ At({"waiting", "buffered"}, stage') \subseteq At({"waiting", "buffered"}, stage)
         /\ At({"waiting", "buffered"}, stage) = {} =>
              /\ At({"inflight"}, stage') \subseteq At({"inflight"}, stage)
              /\ At({"queued"}, stage') \subseteq At({"queued"}, stage)
BY AllMove DEF Moves, At, Settled

\* A step in which the drain b itself does nothing.
LEMMA OthersKeepBehind ==
  ASSUME Types, DrainInv, [Next]_wqVars, NEW b \in Pause \cup Stop,
         barrier'[b] = barrier[b], barrier[b].phase # "new", InForce(b)
  PROVE  Behind(b)'
<1>1. stopped \/ pausedBy # {}
  BY DEF InForce
<1>2. Behind(b)
  BY DEF DrainInv
<1>3. /\ At({"waiting"}, stage') \subseteq At({"waiting"}, stage)
      /\ At({"waiting", "buffered"}, stage') \subseteq At({"waiting", "buffered"}, stage)
      /\ At({"waiting", "buffered"}, stage) = {} =>
           /\ At({"inflight"}, stage') \subseteq At({"inflight"}, stage)
           /\ At({"queued"}, stage') \subseteq At({"queued"}, stage)
  BY <1>1, Quiet
<1> QED
  BY <1>2, <1>3 DEF Behind

LEMMA DrainStarts ==
  ASSUME Types, NEW b \in Pause \cup Stop, Drain(b)
  PROVE  Behind(b)'
<1>1. /\ stage' = stage /\ b \in DOMAIN barrier
      /\ barrier' = [barrier EXCEPT ![b] = [phase |-> "admission", awaits |-> ToSet(admission)]]
      /\ ToSet(admission) = At({"waiting"}, stage)
  BY DEF Drain, Types, Holds
<1>2. barrier'[b].phase = "admission" /\ barrier'[b].awaits = At({"waiting"}, stage)
  BY <1>1
<1> QED
  BY <1>1, <1>2 DEF Behind

\* A drain goes on when what it waited for is over.
LEMMA DrainGoesOn ==
  ASSUME Types, NEW b \in Pause \cup Stop, Behind(b), DrainStep(b)
  PROVE  Behind(b)'
<1>0. b \in DOMAIN barrier
  BY DEF Types
<1>1. CASE /\ NextPhase(b, "admission", "batch", {"waiting"}, At({"buffered", "inflight"}, stage))
           /\ DoFlush(stage)
  <2>1. \A j \in Item : stage'[j] = IF stage[j] = "buffered" THEN "inflight" ELSE stage[j]
    BY <1>1, Flushes DEF Types
  <2>2. At({"waiting"}, stage) = {}
    BY <1>1 DEF NextPhase, Behind
  <2>3. /\ At({"waiting", "buffered"}, stage') = {}
        /\ At({"inflight"}, stage') = At({"buffered", "inflight"}, stage)
    BY <2>1, <2>2 DEF At
  <2>4. barrier'[b].phase = "batch" /\ barrier'[b].awaits = At({"buffered", "inflight"}, stage)
    BY <1>0, <1>1 DEF NextPhase
  <2> QED
    BY <2>3, <2>4 DEF Behind
<1>2. /\ At({"inflight"}, stage) \subseteq At({"inflight", "queued"}, stage)
      /\ At({"queued"}, stage) \subseteq At({"inflight", "queued"}, stage)
  BY DEF At
<1>3. CASE /\ NextPhase(b, "batch", "writes", {"inflight", "queued"}, At({"inflight"}, stage))
           /\ UNCHANGED <<stage, chain, timer>>
  <2>1. barrier'[b].phase = "writes"
    BY <1>0, <1>3 DEF NextPhase
  <2>2. At({"inflight"}, stage) = {} /\ At({"waiting", "buffered"}, stage) = {}
    BY <1>2, <1>3 DEF NextPhase, Behind
  <2> QED
    BY <1>3, <2>1, <2>2 DEF Behind
<1>4. CASE /\ NextPhase(b, "writes", "tasks", {"inflight", "queued"}, At({"queued"}, stage))
           /\ UNCHANGED <<stage, chain, timer>>
  <2>1. barrier'[b].phase = "tasks" /\ barrier'[b].awaits = At({"queued"}, stage)
    BY <1>0, <1>4 DEF NextPhase
  <2>2. At({"inflight"}, stage) = {} /\ At({"waiting", "buffered"}, stage) = {}
    BY <1>4 DEF NextPhase, Behind
  <2> QED
    BY <1>4, <2>1, <2>2 DEF Behind
<1>5. CASE /\ NextPhase(b, "tasks", "done", {"inflight", "queued"}, {})
           /\ UNCHANGED <<stage, chain, timer>>
  <2>1. barrier'[b].phase = "done"
    BY <1>0, <1>5 DEF NextPhase
  <2>2. /\ At({"inflight"}, stage) = {} /\ At({"waiting", "buffered"}, stage) = {}
        /\ At({"queued"}, stage) = {}
    BY <1>2, <1>5 DEF NextPhase, Behind
  <2> QED
    BY <1>5, <2>1, <2>2 DEF Behind
<1> QED
  BY <1>1, <1>3, <1>4, <1>5, DrainStepPhases

LEMMA NextDrain ==
  ASSUME Types, DrainInv, [Next]_wqVars
  PROVE  DrainInv'
<1> SUFFICES ASSUME NEW b \in Pause \cup Stop
             PROVE  /\ b \in Stop /\ barrier'[b].phase # "new" => stopped'
                    /\ InForce(b)' => Behind(b)'
  BY DEF DrainInv
<1>1. b \in Stop /\ barrier[b].phase # "new" => stopped
  BY DEF DrainInv
<1>2. CASE Drain(b)
  BY <1>2, DrainStarts, WriteQueueAssumption DEF Drain
<1>3. CASE DrainStep(b)
  <2>1. UNCHANGED <<stopped, pausedBy>> /\ barrier[b].phase # "new"
    BY <1>3 DEF DrainStep
  <2>2. InForce(b)' => Behind(b)
    BY <2>1 DEF InForce, DrainInv
  <2> QED
    BY <1>1, <1>3, <2>1, <2>2, DrainGoesOn
<1>4. CASE ~Drain(b) /\ ~DrainStep(b)
  <2>1. barrier'[b] = barrier[b] /\ (stopped => stopped') /\ (pausedBy' = {b} => pausedBy = {b})
    <3>1. CASE \E i \in Item : Enqueue(i)
      BY <3>1 DEF Enqueue, Refuses
    <3>2. CASE AdmitHead \/ TimerFires \/ BatchSettles \/ TaskSettles \/ Resume \/ UNCHANGED wqVars
      BY <3>2 DEF AdmitHead, TimerFires, BatchSettles, TaskSettles, Resume, wqVars
    <3>3. ASSUME NEW c \in Pause \cup Stop, Drain(c)
          PROVE  barrier'[b] = barrier[b] /\ (stopped => stopped') /\ (pausedBy' = {b} => pausedBy = {b})
      BY <1>4, <3>3 DEF Drain, Types
    <3>4. ASSUME NEW c \in Pause \cup Stop, DrainStep(c)
          PROVE  barrier'[b] = barrier[b] /\ (stopped => stopped') /\ (pausedBy' = {b} => pausedBy = {b})
      BY <1>4, <3>4 DEF DrainStep, Types
    <3> QED
      BY <3>1, <3>2, <3>3, <3>4 DEF Next
  <2>2. CASE barrier[b].phase = "new"
    BY <1>4, <2>1, <2>2 DEF Behind
  <2>3. CASE barrier[b].phase # "new"
    <3>1. InForce(b)' => InForce(b)
      BY <1>1, <2>1, <2>3 DEF InForce
    <3> QED
      BY <1>1, <2>1, <2>3, <3>1, OthersKeepBehind
  <2> QED
    BY <2>2, <2>3
<1> QED
  BY <1>2, <1>3, <1>4

LEMMA DrainedIsEmpty == Types /\ DrainInv => DrainedMeansEmpty
<1> SUFFICES ASSUME Types, DrainInv, NEW b \in Pause \cup Stop,
                    barrier[b].phase = "done", b \in Stop \/ pausedBy = {b}
             PROVE  Backlog = {} /\ admission = <<>>
  BY DEF DrainedMeansEmpty
<1>1. InForce(b)
  BY DEF DrainInv, InForce
<1>2. /\ At({"waiting", "buffered"}, stage) = {} /\ At({"inflight"}, stage) = {}
      /\ At({"queued"}, stage) = {}
  BY <1>1 DEF DrainInv, Behind
<1>3. Backlog = {} /\ At({"waiting"}, stage) = {}
  BY <1>2 DEF Backlog, At
<1>4. admission \in Seq(Item) /\ ToSet(admission) = {}
  BY <1>3 DEF Types, Holds
<1>5. admission # <<>> => admission[1] \in ToSet(admission)
  BY <1>4, Leaves DEF ToSet
<1> QED
  BY <1>3, <1>4, <1>5

LEMMA InitDrain == WQInit => DrainInv
BY DEF WQInit, DrainInv, Behind

\* When a pause has drained the queue and is still in force, or a stop has, the
\* queue is empty and nobody waits in front of it.
THEOREM DrainedAlwaysEmpty == Spec => []DrainedMeansEmpty
<1>1. Types /\ DrainInv /\ [Next]_wqVars => DrainInv'
  BY NextDrain
<1> QED
  BY <1>1, InitTypes, NextTypes, InitDrain, DrainedIsEmpty, PTL DEF Spec

-----------------------------------------------------------------------------
(* The sum of the costs of a set of items.  CostOf folds over the set; that *)
(* there is such a function at all, and what it returns, follows from the   *)
(* well-foundedness of inclusion among finite sets.                         *)

\* A family of sets of items that has every set whose smaller subsets it has, has
\* them all.
LEMMA SetInduction ==
  ASSUME NEW F \in SUBSET SUBSET Item,
         \A s \in SUBSET Item : (\A t \in SUBSET s : t # s => t \in F) => s \in F
  PROVE  F = SUBSET Item
<1> DEFINE out == (SUBSET Item) \ F
<1> SUFFICES ASSUME out # {} PROVE FALSE
  OBVIOUS
<1>1. IsWellFoundedOn(StrictSubsetOrdering(Item), SUBSET Item)
  <2>1. IsWellFoundedOn(StrictSubsetOrdering(Item), FiniteSubsetsOf(Item))
    BY FS_StrictSubsetOrderingWellFounded
  <2>2. FiniteSubsetsOf(Item) = SUBSET Item
    BY WriteQueueAssumption, FS_FiniteSubsetsOfFinite
  <2> QED
    BY <2>1, <2>2
<1>2. \E s \in out : \A t \in out : ~(<<t, s>> \in StrictSubsetOrdering(Item))
  <2> HIDE DEF out
  <2>1. out \subseteq SUBSET Item
    BY DEF out
  <2> QED
    BY <1>1, <2>1, WFMin
<1>3. PICK s \in out : \A t \in out : ~(<<t, s>> \in StrictSubsetOrdering(Item))
  BY <1>2
<1>4. \A t \in SUBSET s : t # s => t \in F
  BY <1>3 DEF StrictSubsetOrdering
<1> QED
  BY <1>3, <1>4

First(s) == CHOOSE x \in s : TRUE

\* The function by which CostOf adds up the costs of B.
IsSum(g, B) ==
  g = [s \in SUBSET B |-> IF s = {} THEN 0 ELSE Cost[First(s)] + g[s \ {First(s)}]]

SumOf(B) == CHOOSE g : IsSum(g, B)
Total(B) == SumOf(B)[B]

LEMMA FirstIn == \A s : s # {} => First(s) \in s
BY DEF First

\* Two such functions agree where both are defined.
LEMMA SumsAgree ==
  ASSUME NEW B \in SUBSET Item, NEW C \in SUBSET Item, NEW g, NEW h, IsSum(g, B), IsSum(h, C)
  PROVE  \A s \in SUBSET Item : s \subseteq B /\ s \subseteq C => g[s] = h[s]
<1> DEFINE F == {s \in SUBSET Item : s \subseteq B /\ s \subseteq C => g[s] = h[s]}
<1>1. /\ \A s \in SUBSET B : g[s] = IF s = {} THEN 0 ELSE Cost[First(s)] + g[s \ {First(s)}]
      /\ \A s \in SUBSET C : h[s] = IF s = {} THEN 0 ELSE Cost[First(s)] + h[s \ {First(s)}]
  BY DEF IsSum
<1>2. ASSUME NEW s \in SUBSET Item, \A t \in SUBSET s : t # s => t \in F
      PROVE  s \in F
  <2> SUFFICES ASSUME s \subseteq B, s \subseteq C PROVE g[s] = h[s]
    OBVIOUS
  <2>1. CASE s = {}
    BY <1>1, <2>1
  <2>2. CASE s # {}
    <3>1. s \ {First(s)} \in SUBSET s /\ s \ {First(s)} # s
      BY <2>2, FirstIn
    <3>2. g[s \ {First(s)}] = h[s \ {First(s)}]
      BY <1>2, <3>1
    <3> QED
      BY <1>1, <2>2, <3>2
  <2> QED
    BY <2>1, <2>2
<1> HIDE DEF F
<1>3. F = SUBSET Item
  <2>1. F \in SUBSET SUBSET Item
    BY DEF F
  <2> QED
    BY <1>2, <2>1, SetInduction
<1> QED
  BY <1>3 DEF F

\* There is one for every set of items.
LEMMA SumExists ==
  ASSUME NEW B \in SUBSET Item
  PROVE  IsSum(SumOf(B), B)
<1> DEFINE F == {C \in SUBSET Item : IsSum(SumOf(C), C)}
<1>1. ASSUME NEW C \in SUBSET Item, \A t \in SUBSET C : t # C => t \in F
      PROVE  C \in F
  <2> DEFINE g == [s \in SUBSET C |->
                     IF s = {} THEN 0
                     ELSE Cost[First(s)] + SumOf(s \ {First(s)})[s \ {First(s)}]]
  <2>1. \A t \in SUBSET C : t # C => IsSum(SumOf(t), t)
    BY <1>1
  <2>2. ASSUME NEW s \in SUBSET C, s # {}
        PROVE  g[s \ {First(s)}] = SumOf(s \ {First(s)})[s \ {First(s)}]
    <3> DEFINE t == s \ {First(s)}
    <3>1. t \in SUBSET C /\ t # C
      BY <2>2, FirstIn
    <3>2. IsSum(SumOf(t), t)
      BY <2>1, <3>1
    <3>3. SumOf(t)[t] = IF t = {} THEN 0 ELSE Cost[First(t)] + SumOf(t)[t \ {First(t)}]
      BY <3>2 DEF IsSum
    <3>4. g[t] = IF t = {} THEN 0 ELSE Cost[First(t)] + SumOf(t \ {First(t)})[t \ {First(t)}]
      BY <3>1
    <3> HIDE DEF t, g
    <3>5. ASSUME t # {} PROVE SumOf(t)[t \ {First(t)}] = SumOf(t \ {First(t)})[t \ {First(t)}]
      <4>1. t \ {First(t)} \in SUBSET C /\ t \ {First(t)} # C
        BY <3>1, <3>5, FirstIn
      <4>2. IsSum(SumOf(t \ {First(t)}), t \ {First(t)})
        BY <2>1, <4>1
      <4> QED
        BY <3>1, <3>2, <4>1, <4>2, SumsAgree
    <3>6. g[t] = SumOf(t)[t]
      BY <3>3, <3>4, <3>5
    <3> QED
      BY <3>6 DEF t
  <2>3. IsSum(g, C)
    <3>1. \A s \in SUBSET C :
             (IF s = {} THEN 0 ELSE Cost[First(s)] + SumOf(s \ {First(s)})[s \ {First(s)}])
               = (IF s = {} THEN 0 ELSE Cost[First(s)] + g[s \ {First(s)}])
      BY <2>2
    <3> QED
      BY <3>1 DEF IsSum
  <2> HIDE DEF g
  <2>4. IsSum(SumOf(C), C)
    BY <2>3 DEF SumOf
  <2> QED
    BY <2>4
<1> HIDE DEF F
<1>2. F = SUBSET Item
  <2>1. F \in SUBSET SUBSET Item
    BY DEF F
  <2> QED
    BY <1>1, <2>1, SetInduction
<1> QED
  BY <1>2 DEF F

LEMMA CostIsTotal ==
  ASSUME NEW B
  PROVE  CostOf(B) = Total(B)
BY DEF CostOf, MapThenSumSet, MapThenFoldSet, Total, SumOf, IsSum, First

\* One item more or less changes the sum by its cost.
LEMMA TotalByFirst ==
  ASSUME NEW B \in SUBSET Item
  PROVE  Total(B) = IF B = {} THEN 0 ELSE Cost[First(B)] + Total(B \ {First(B)})
<1>1. IsSum(SumOf(B), B)
  BY SumExists
<1>2. SumOf(B)[B] = IF B = {} THEN 0 ELSE Cost[First(B)] + SumOf(B)[B \ {First(B)}]
  BY <1>1 DEF IsSum
<1>3. IsSum(SumOf(B \ {First(B)}), B \ {First(B)})
  BY SumExists
<1>4. SumOf(B)[B \ {First(B)}] = SumOf(B \ {First(B)})[B \ {First(B)}]
  BY <1>1, <1>3, SumsAgree
<1> QED
  BY <1>2, <1>4 DEF Total

LEMMA TotalIsNat == \A B \in SUBSET Item : Total(B) \in Nat
<1> DEFINE F == {B \in SUBSET Item : Total(B) \in Nat}
<1>1. ASSUME NEW B \in SUBSET Item, \A t \in SUBSET B : t # B => t \in F
      PROVE  B \in F
  <2>1. CASE B = {}
    <3>1. Total(B) = 0
      BY <2>1, TotalByFirst
    <3> QED
      BY <3>1
  <2>2. CASE B # {}
    <3>1. B \ {First(B)} \in SUBSET B /\ B \ {First(B)} # B /\ First(B) \in Item
      BY <2>2, FirstIn
    <3>2. Total(B \ {First(B)}) \in Nat /\ Cost[First(B)] \in Nat
      BY <1>1, <3>1, WriteQueueAssumption
    <3> QED
      BY <2>2, <3>2, TotalByFirst
  <2> QED
    BY <2>1, <2>2
<1> HIDE DEF F
<1>2. F = SUBSET Item
  <2>1. F \in SUBSET SUBSET Item
    BY DEF F
  <2> QED
    BY <1>1, <2>1, SetInduction
<1> QED
  BY <1>2 DEF F

LEMMA TotalByAny ==
  \A B \in SUBSET Item : \A x \in B : Total(B) = Cost[x] + Total(B \ {x})
<1> DEFINE F == {B \in SUBSET Item : \A x \in B : Total(B) = Cost[x] + Total(B \ {x})}
<1>1. ASSUME NEW B \in SUBSET Item, \A t \in SUBSET B : t # B => t \in F
      PROVE  B \in F
  <2> SUFFICES ASSUME NEW x \in B PROVE Total(B) = Cost[x] + Total(B \ {x})
    OBVIOUS
  <2> DEFINE y == First(B)
  <2>1. y \in B /\ Total(B) = Cost[y] + Total(B \ {y})
    BY FirstIn, TotalByFirst
  <2> HIDE DEF y
  <2>2. CASE x = y
    BY <2>1, <2>2
  <2>3. CASE x # y
    <3>1. Total(B \ {y}) = Cost[x] + Total((B \ {y}) \ {x})
      BY <1>1, <2>1, <2>3
    <3>2. Total(B \ {x}) = Cost[y] + Total((B \ {x}) \ {y})
      BY <1>1, <2>1, <2>3
    <3>3. (B \ {x}) \ {y} = (B \ {y}) \ {x}
      OBVIOUS
    <3>4. Total(B \ {x}) = Cost[y] + Total((B \ {y}) \ {x})
      BY <3>2, <3>3
    <3>5. Cost[x] \in Nat /\ Cost[y] \in Nat /\ Total((B \ {y}) \ {x}) \in Nat
      BY <2>1, TotalIsNat, WriteQueueAssumption
    <3> DEFINE rest == Total((B \ {y}) \ {x})
    <3> HIDE DEF rest
    <3>6. /\ Total(B) = Cost[y] + (Cost[x] + rest)
          /\ Total(B \ {x}) = Cost[y] + rest /\ rest \in Nat
      BY <2>1, <3>1, <3>4, <3>5 DEF rest
    <3> QED
      BY <3>5, <3>6
  <2> QED
    BY <2>2, <2>3
<1> HIDE DEF F
<1>2. F = SUBSET Item
  <2>1. F \in SUBSET SUBSET Item
    BY DEF F
  <2> QED
    BY <1>1, <2>1, SetInduction
<1> QED
  BY <1>2 DEF F

LEMMA TotalMonotonic ==
  \A B \in SUBSET Item : \A C \in SUBSET B : Total(C) <= Total(B)
<1> DEFINE F == {B \in SUBSET Item : \A C \in SUBSET B : Total(C) <= Total(B)}
<1>1. ASSUME NEW B \in SUBSET Item, \A t \in SUBSET B : t # B => t \in F
      PROVE  B \in F
  <2> SUFFICES ASSUME NEW C \in SUBSET B, C # B PROVE Total(C) <= Total(B)
    BY TotalIsNat
  <2>1. PICK x \in B : x \notin C
    OBVIOUS
  <2>2. Total(C) <= Total(B \ {x})
    BY <1>1, <2>1
  <2>3. Total(B) = Cost[x] + Total(B \ {x})
    BY TotalByAny
  <2>4. Cost[x] \in Nat /\ Total(B \ {x}) \in Nat /\ Total(B) \in Nat /\ Total(C) \in Nat
    BY TotalIsNat, WriteQueueAssumption
  <2> QED
    BY <2>2, <2>3, <2>4
<1> HIDE DEF F
<1>2. F = SUBSET Item
  <2>1. F \in SUBSET SUBSET Item
    BY DEF F
  <2> QED
    BY <1>1, <2>1, SetInduction
<1> QED
  BY <1>2 DEF F

\* What the proofs need of CostOf.
LEMMA Costs ==
  /\ CostOf({}) = 0
  /\ \A B \in SUBSET Item : CostOf(B) \in Nat
  /\ \A B \in SUBSET Item : \A C \in SUBSET B : CostOf(C) <= CostOf(B)
  /\ \A B \in SUBSET Item : \A x \in Item \ B : CostOf(B \cup {x}) = CostOf(B) + Cost[x]
<1>1. ASSUME NEW B \in SUBSET Item, NEW x \in Item \ B
      PROVE  Total(B \cup {x}) = Total(B) + Cost[x]
  <2>1. Total(B \cup {x}) = Cost[x] + Total((B \cup {x}) \ {x})
    BY TotalByAny
  <2>2. (B \cup {x}) \ {x} = B
    OBVIOUS
  <2>3. Total(B \cup {x}) = Cost[x] + Total(B) /\ Total(B) \in Nat /\ Cost[x] \in Nat
    BY <2>1, <2>2, TotalIsNat, WriteQueueAssumption
  <2> QED
    BY <2>3
<1>2. Total({}) = 0
  BY TotalByFirst
<1> QED
  BY <1>1, <1>2, CostIsTotal, TotalIsNat, TotalMonotonic

-----------------------------------------------------------------------------
LEMMA BacklogFinite ==
  ASSUME NEW B \in SUBSET Item, NEW C \in SUBSET Item, NEW x
  PROVE  /\ Cardinality(B) \in Nat /\ Cardinality(C) \in Nat
         /\ C \subseteq B => Cardinality(C) <= Cardinality(B)
         /\ C \subseteq B \cup {x} => Cardinality(C) <= Cardinality(B) + 1
<1>1. IsFiniteSet(B) /\ IsFiniteSet(C) /\ IsFiniteSet(B \cup {x})
  BY FS_Subset, FS_AddElement, WriteQueueAssumption
<1>2. Cardinality(B) \in Nat /\ Cardinality(C) \in Nat /\ Cardinality(B \cup {x}) \in Nat
  BY <1>1, FS_CardinalityType
<1>3. C \subseteq B => Cardinality(C) <= Cardinality(B)
  BY <1>1, FS_Subset
<1>4. Cardinality(B \cup {x}) <= Cardinality(B) + 1
  BY <1>1, <1>2, FS_AddElement
<1>5. C \subseteq B \cup {x} => Cardinality(C) <= Cardinality(B \cup {x})
  BY <1>1, FS_Subset
<1> QED
  BY <1>2, <1>3, <1>4, <1>5

\* A backlog that got no larger is still within bounds.
LEMMA SmallerBacklog ==
  ASSUME BacklogBounded, Backlog' \subseteq Backlog
  PROVE  BacklogBounded'
<1>1. Backlog \in SUBSET Item /\ Backlog' \in SUBSET Item
  BY DEF Backlog, At
<1>2. Depth \in Nat /\ Depth' \in Nat /\ Depth' <= Depth /\ MaxDepth \in Nat /\ MaxBytes \in Nat
  BY <1>1, BacklogFinite, WriteQueueAssumption DEF Depth
<1>3. /\ CostOf(Backlog) \in Nat /\ CostOf(Backlog') \in Nat
      /\ CostOf(Backlog') <= CostOf(Backlog)
  BY <1>1, Costs
<1>4. Depth' = 0 => CostOf(Backlog') = 0
  <2>1. IsFiniteSet(Backlog')
    BY <1>1, FS_Subset, WriteQueueAssumption
  <2> QED
    BY <2>1, FS_EmptySet, Costs DEF Depth
<1>5. Depth' <= MaxDepth
  BY <1>2 DEF BacklogBounded
<1>6. CostOf(Backlog') <= MaxBytes \/ Depth' = 1
  BY <1>2, <1>3, <1>4 DEF BacklogBounded
<1>7. CostOf(Backlog)' = CostOf(Backlog')
  BY DEF CostOf, MapThenSumSet, MapThenFoldSet
<1> QED
  BY <1>5, <1>6, <1>7 DEF BacklogBounded

\* So is one that a call was admitted to.
LEMMA AdmittedBacklog ==
  ASSUME Types, NEW i \in Item, stage[i] \in {"new", "waiting"}, Admitted(i),
         ~OverBudget(i) \/ Depth = 0, BacklogBounded
  PROVE  BacklogBounded'
<1>1. Backlog \in SUBSET Item /\ Backlog' \in SUBSET Item /\ i \notin Backlog
  BY DEF Backlog, At
<1>2. Backlog' \subseteq Backlog \cup {i}
  BY DEF Backlog, At, Admitted
<1>3. MaxDepth \in Nat \ {0} /\ MaxBytes \in Nat
  BY WriteQueueAssumption
<1>4. Depth \in Nat /\ Depth' \in Nat /\ Depth' <= Depth + 1
  BY <1>1, <1>2, BacklogFinite DEF Depth
<1>5. Depth' <= MaxDepth
  <2>1. Depth < MaxDepth
    BY <1>3, <1>4 DEF OverBudget
  <2> QED
    BY <1>3, <1>4, <2>1
<1>6. CostOf(Backlog') <= CostOf(Backlog) + Cost[i]
  <2>1. CostOf(Backlog \cup {i}) = CostOf(Backlog) + Cost[i]
    BY <1>1, Costs
  <2>2. Backlog \cup {i} \in SUBSET Item
    BY <1>1
  <2>3. CostOf(Backlog') <= CostOf(Backlog \cup {i})
    BY <1>2, <2>2, Costs
  <2> QED
    BY <2>1, <2>3
<1>7. CostOf(Backlog) \in Nat /\ CostOf(Backlog') \in Nat /\ Cost[i] \in Nat
  BY <1>1, Costs, WriteQueueAssumption
<1>8. CostOf(Backlog') <= MaxBytes \/ Depth' = 1
  <2>1. CASE ~OverBudget(i)
    <3>1. CostOf(Backlog) + Cost[i] <= MaxBytes
      BY <1>3, <1>7, <2>1 DEF OverBudget
    <3> QED
      BY <1>3, <1>6, <1>7, <3>1
  <2>2. CASE Depth = 0
    <3>1. Depth' = 0 => CostOf(Backlog') = 0
      <4>1. IsFiniteSet(Backlog')
        BY <1>1, FS_Subset, WriteQueueAssumption
      <4> QED
        BY <4>1, FS_EmptySet, Costs DEF Depth
    <3> QED
      BY <1>3, <1>4, <2>2, <3>1
  <2> QED
    BY <2>1, <2>2
<1>9. CostOf(Backlog)' = CostOf(Backlog')
  BY DEF CostOf, MapThenSumSet, MapThenFoldSet
<1> QED
  BY <1>5, <1>8, <1>9 DEF BacklogBounded

LEMMA NextBacklog ==
  ASSUME Types, BacklogBounded, [Next]_wqVars
  PROVE  BacklogBounded'
<1>1. Depth \in Nat
  <2>1. Backlog \in SUBSET Item
    BY DEF Backlog, At
  <2> QED
    BY <2>1, BacklogFinite DEF Depth
<1>2. ASSUME Backlog' \subseteq Backlog
      PROVE  BacklogBounded'
  BY <1>2, SmallerBacklog
<1>3. ASSUME NEW i \in Item, Enqueue(i)
      PROVE  BacklogBounded'
  <2>1. stage[i] = "new" /\ stage \in [Item -> Stage]
    BY <1>3 DEF Enqueue, Refuses, Types
  <2>2. CASE Uncontended(i) /\ Admit(i)
    BY <2>1, <2>2, Admits, AdmittedBacklog DEF Uncontended
  <2>3. ASSUME NEW to \in {"refused", "dropped", "waiting"}, stage' = [stage EXCEPT ![i] = to]
        PROVE  BacklogBounded'
    <3>1. Backlog' \subseteq Backlog
      BY <2>1, <2>3 DEF Backlog, At
    <3> QED
      BY <1>2, <3>1
  <2> QED
    BY <1>3, <2>2, <2>3 DEF Enqueue, Refuses
<1>4. CASE AdmitHead
  <2>1. CASE DoFlush(stage)
    <3>1. \A j \in Item : stage'[j] = IF stage[j] = "buffered" THEN "inflight" ELSE stage[j]
      BY <2>1, Flushes DEF Types
    <3> QED
      BY <1>2, <3>1 DEF Backlog, At
  <2>2. CASE ~(OverBudget(Head(admission)) /\ Depth > 0)
    <3>2. ~OverBudget(Head(admission)) \/ Depth = 0
      BY <1>1, <2>2
    <3>3. Admit(Head(admission))
      BY <1>4, <2>2 DEF AdmitHead
    <3>4. Head(admission) \in Item /\ stage[Head(admission)] = "waiting"
      <4>1. /\ admission \in Seq(Item) /\ admission # <<>> /\ Distinct(admission)
            /\ ToSet(admission) = At({"waiting"}, stage)
        BY <1>4 DEF Types, Holds, AdmitHead
      <4> QED
        BY <4>1, LeavesDistinct DEF At
    <3> QED
      BY <3>2, <3>3, <3>4, Admits, AdmittedBacklog
  <2> QED
    BY <1>4, <2>1, <2>2 DEF AdmitHead
<1>5. CASE ~AdmitHead /\ ~\E i \in Item : Enqueue(i)
  <2>1. \A j \in Item : \/ stage'[j] = stage[j]
                        \/ stage[j] = "buffered" /\ stage'[j] = "inflight"
                        \/ stage'[j] \in Settled
    <3>1. ASSUME DoFlush(stage)
          PROVE  \A j \in Item : \/ stage'[j] = stage[j]
                                 \/ stage[j] = "buffered" /\ stage'[j] = "inflight"
      BY <3>1, Flushes DEF Types
    <3>2. CASE TimerFires
      BY <3>1, <3>2 DEF TimerFires
    <3>3. CASE BatchSettles
      BY <3>3, BatchSettlesMoves DEF BatchMoves
    <3>4. CASE TaskSettles
      BY <3>4, TaskSettlesMoves DEF TaskMoves, Settled
    <3>5. CASE \E b \in Pause \cup Stop : DrainStep(b)
      BY <3>1, <3>5, DrainStepPhases
    <3>6. CASE Resume \/ UNCHANGED wqVars \/ \E b \in Pause \cup Stop : Drain(b)
      BY <3>6 DEF Resume, wqVars, Drain
    <3> QED
      BY <1>5, <3>2, <3>3, <3>4, <3>5, <3>6 DEF Next
  <2> QED
    BY <1>2, <2>1 DEF Backlog, At, Settled
<1> QED
  BY <1>3, <1>4, <1>5

LEMMA InitBacklog == WQInit => BacklogBounded
<1> SUFFICES ASSUME WQInit PROVE BacklogBounded
  OBVIOUS
<1>1. Backlog = {}
  BY DEF WQInit, Backlog, At
<1>2. Depth = 0 /\ CostOf(Backlog) = 0
  BY <1>1, FS_EmptySet, Costs DEF Depth
<1> QED
  BY <1>2, WriteQueueAssumption DEF BacklogBounded

\* However many calls wait and however slow the store is, the queue holds no
\* more than maxDepth items and maxBytes bytes, those on their way to the store
\* included; but for an item that is larger than that, which is alone.
THEOREM BacklogAlwaysBounded == Spec => []BacklogBounded
<1>1. Types /\ BacklogBounded /\ [Next]_wqVars => BacklogBounded'
  BY NextBacklog
<1> QED
  BY <1>1, InitTypes, NextTypes, InitBacklog, PTL DEF Spec

-----------------------------------------------------------------------------
\* In c, the calls in order, x comes before y.
Before(c, x, y) == \E j, k \in DOMAIN c : j < k /\ c[j] = x /\ c[k] = y

\* The queue q is in the order of the calls c.
Follows(q, c) == \A p, r \in DOMAIN q : p < r => ~Before(c, q[r], q[p])

\* Of the tasks that were called for, those that ran come first, then those that
\* are queued, then those that wait, each in the order of the calls.
OrderInv ==
  /\ Distinct(calls)
  /\ \A x \in ToSet(calls) :
       Kind[x] = "task" /\ stage[x] \in {"waiting", "queued"} \cup Settled
  /\ \A x, y \in ToSet(calls) : Before(calls, x, y) =>
       /\ stage[y] \in Settled => stage[x] \in Settled
       /\ stage[y] = "queued" => stage[x] # "waiting"
  /\ Follows(tasks, calls)
  /\ Follows(admission, calls)

LEMMA BeforeIsIn ==
  ASSUME NEW c \in Seq(Item), NEW x, NEW y, Before(c, x, y)
  PROVE  x \in ToSet(c) /\ y \in ToSet(c)
BY DEF Before, ToSet

LEMMA BeforeAppended ==
  ASSUME NEW c \in Seq(Item), NEW z \in Item, NEW x, NEW y, Before(Append(c, z), x, y)
  PROVE  Before(c, x, y) \/ (x \in ToSet(c) /\ y = z)
<1>1. /\ Len(c) \in Nat /\ DOMAIN c = 1..Len(c)
      /\ DOMAIN Append(c, z) = 1..(Len(c) + 1)
      /\ \A j \in DOMAIN c : Append(c, z)[j] = c[j]
      /\ Append(c, z)[Len(c) + 1] = z
  OBVIOUS
<1>2. PICK j \in DOMAIN Append(c, z), k \in DOMAIN Append(c, z) :
        j < k /\ Append(c, z)[j] = x /\ Append(c, z)[k] = y
  BY DEF Before
<1>3. j \in DOMAIN c /\ c[j] = x
  BY <1>1, <1>2
<1>4. (k \in DOMAIN c /\ c[k] = y) \/ y = z
  BY <1>1, <1>2
<1> QED
  BY <1>2, <1>3, <1>4 DEF Before, ToSet

LEMMA FollowsAppended ==
  ASSUME NEW q \in Seq(Item), NEW z \in Item, NEW c, Follows(q, c),
         \A y \in ToSet(q) : ~Before(c, z, y)
  PROVE  Follows(Append(q, z), c)
<1>1. /\ Len(q) \in Nat /\ DOMAIN q = 1..Len(q)
      /\ DOMAIN Append(q, z) = 1..(Len(q) + 1)
      /\ \A j \in DOMAIN q : Append(q, z)[j] = q[j]
      /\ Append(q, z)[Len(q) + 1] = z
  OBVIOUS
<1> SUFFICES ASSUME NEW p \in DOMAIN Append(q, z), NEW r \in DOMAIN Append(q, z), p < r
             PROVE  ~Before(c, Append(q, z)[r], Append(q, z)[p])
  BY DEF Follows
<1>2. p \in DOMAIN q /\ Append(q, z)[p] = q[p] /\ q[p] \in ToSet(q)
  BY <1>1 DEF ToSet
<1>3. (r \in DOMAIN q /\ Append(q, z)[r] = q[r]) \/ Append(q, z)[r] = z
  BY <1>1
<1> QED
  BY <1>2, <1>3 DEF Follows

\* The head of a queue comes before the others, and these stay in order.
LEMMA FollowsHead ==
  ASSUME NEW q \in Seq(Item), NEW c, q # <<>>, Follows(q, c)
  PROVE  /\ Follows(Tail(q), c)
         /\ \A y \in ToSet(q) : y # Head(q) => ~Before(c, y, Head(q))
<1>1. /\ Head(q) = q[1] /\ 1 \in DOMAIN q /\ DOMAIN q \subseteq Nat \ {0}
      /\ \A i \in DOMAIN Tail(q) : Tail(q)[i] = q[i + 1] /\ i + 1 \in DOMAIN q /\ i + 1 # 1
      /\ DOMAIN Tail(q) \subseteq Nat
  BY Leaves
<1>2. Follows(Tail(q), c)
  <2> SUFFICES ASSUME NEW p \in DOMAIN Tail(q), NEW r \in DOMAIN Tail(q), p < r
               PROVE  ~Before(c, Tail(q)[r], Tail(q)[p])
    BY DEF Follows
  <2>1. /\ Tail(q)[p] = q[p + 1] /\ p + 1 \in DOMAIN q
        /\ Tail(q)[r] = q[r + 1] /\ r + 1 \in DOMAIN q
        /\ p + 1 < r + 1
    BY <1>1
  <2> QED
    BY <2>1 DEF Follows
<1>3. ASSUME NEW y \in ToSet(q), y # Head(q)
      PROVE  ~Before(c, y, Head(q))
  <2>1. PICK r \in DOMAIN q : q[r] = y
    BY DEF ToSet
  <2>2. 1 < r
    BY <1>1, <1>3, <2>1
  <2> QED
    BY <1>1, <2>1, <2>2 DEF Follows
<1> QED
  BY <1>2, <1>3

\* A step that moves no task that was called for keeps the order.
LEMMA OrderStays ==
  ASSUME OrderInv, UNCHANGED <<calls, tasks>>, Follows(admission', calls),
         \A x \in ToSet(calls) : stage'[x] = stage[x]
  PROVE  OrderInv'
<1>1. \A x \in ToSet(calls') :
        Kind[x] = "task" /\ stage'[x] \in {"waiting", "queued"} \cup Settled
  BY DEF OrderInv
<1>2. \A x, y \in ToSet(calls') : Before(calls', x, y) =>
        /\ stage'[y] \in Settled => stage'[x] \in Settled
        /\ stage'[y] = "queued" => stage'[x] # "waiting"
  BY DEF OrderInv
<1>3. Distinct(calls') /\ Follows(tasks', calls') /\ Follows(admission', calls')
  BY DEF OrderInv
<1> QED
  BY <1>1, <1>2, <1>3 DEF OrderInv

\* Only tasks that were called for move, and those only as tasks do.
LEMMA CalledItems ==
  ASSUME Types, OrderInv, NEW x \in ToSet(calls)
  PROVE  x \in Item /\ stage[x] \notin {"new", "buffered", "inflight", "refused", "dropped"}
<1>1. x \in Item
  BY DEF Types, ToSet
<1>2. stage[x] \in {"waiting", "queued"} \cup Settled
  BY DEF OrderInv
<1> QED
  BY <1>1, <1>2 DEF Settled

LEMMA FlushOrder ==
  ASSUME Types, OrderInv, DoFlush(stage), UNCHANGED <<calls, admission, tasks>>
  PROVE  OrderInv'
<1>1. \A j \in Item : stage'[j] = IF stage[j] = "buffered" THEN "inflight" ELSE stage[j]
  BY Flushes DEF Types
<1>2. \A x \in ToSet(calls) : stage'[x] = stage[x]
  BY <1>1, CalledItems
<1> QED
  BY <1>2, OrderStays DEF OrderInv

\* A new call: it comes after all others.
LEMMA CalledOrder ==
  ASSUME Types, OrderInv, NEW i \in Item, stage[i] = "new"
  PROVE  /\ i \notin ToSet(calls) /\ i \notin ToSet(tasks) /\ i \notin ToSet(admission)
         /\ Called(i) \in Seq(Item) /\ Distinct(Called(i))
         /\ Kind[i] = "task" => ToSet(Called(i)) = ToSet(calls) \cup {i}
         /\ Kind[i] # "task" => Called(i) = calls
         /\ \A x, y : Before(Called(i), x, y) => Before(calls, x, y) \/ (x \in ToSet(calls) /\ y = i)
<1>1. i \notin ToSet(calls)
  BY CalledItems
<1>2. i \notin ToSet(tasks) /\ i \notin ToSet(admission)
  BY DEF Types, Holds, At
<1>3. calls \in Seq(Item) /\ Distinct(calls)
  BY DEF Types, OrderInv
<1>4. CASE Kind[i] = "task"
  BY <1>1, <1>2, <1>3, <1>4, Joins, BeforeAppended DEF Called
<1>5. CASE Kind[i] # "task"
  BY <1>1, <1>2, <1>3, <1>5 DEF Called
<1> QED
  BY <1>4, <1>5

LEMMA EnqueueOrder ==
  ASSUME Types, OrderInv, NEW i \in Item, Enqueue(i)
  PROVE  OrderInv'
<1>1. stage[i] = "new" /\ stage \in [Item -> Stage]
  BY DEF Enqueue, Refuses, Types
<1>2. /\ i \notin ToSet(calls) /\ i \notin ToSet(tasks) /\ i \notin ToSet(admission)
      /\ Called(i) \in Seq(Item) /\ Distinct(Called(i))
      /\ Kind[i] = "task" => ToSet(Called(i)) = ToSet(calls) \cup {i}
      /\ Kind[i] # "task" => Called(i) = calls
      /\ \A x, y : Before(Called(i), x, y) => Before(calls, x, y) \/ (x \in ToSet(calls) /\ y = i)
  BY <1>1, CalledOrder
<1>3. /\ calls \in Seq(Item) /\ tasks \in Seq(Item) /\ admission \in Seq(Item)
      /\ ToSet(admission) = At({"waiting"}, stage)
  BY DEF Types, Holds
\* Whoever is in a queue comes before the new call.
<1>4. /\ Follows(tasks, Called(i)) /\ Follows(admission, Called(i))
      /\ \A y : y # i => ~Before(Called(i), i, y)
  <2>1. \A y : y # i => ~Before(Called(i), i, y)
    BY <1>2, <1>3, BeforeIsIn
  <2>2. ASSUME NEW q \in Seq(Item), Follows(q, calls), i \notin ToSet(q)
        PROVE  Follows(q, Called(i))
    <3>1. \A p \in DOMAIN q : q[p] # i
      BY <2>2 DEF ToSet
    <3> QED
      BY <1>2, <2>2, <3>1 DEF Follows
  <2> QED
    BY <1>2, <1>3, <2>1, <2>2 DEF OrderInv
<1>5. ASSUME NEW q \in Seq(Item), Follows(q, Called(i)), i \notin ToSet(q)
      PROVE  Follows(Append(q, i), Called(i))
  BY <1>4, <1>5, FollowsAppended
<1>6. CASE /\ \/ stage' = [stage EXCEPT ![i] = "refused"] \/ stage' = [stage EXCEPT ![i] = "dropped"]
           /\ UNCHANGED <<calls, admission, tasks>>
  <2>1. \A x \in ToSet(calls) : stage'[x] = stage[x]
    BY <1>1, <1>2, <1>6, CalledItems
  <2> QED
    BY <1>6, <2>1, OrderStays DEF OrderInv
<1>7. CASE /\ calls' = Called(i)
           /\ \/ Uncontended(i) /\ Admit(i) /\ UNCHANGED admission
              \/ /\ stage' = [stage EXCEPT ![i] = "waiting"]
                 /\ admission' = Append(admission, i)
                 /\ UNCHANGED tasks
  <2>1. \A x \in ToSet(calls) : stage'[x] = stage[x]
    <3>1. CASE Admit(i)
      BY <1>1, <1>2, <3>1, Admits, CalledItems DEF Admitted
    <3>2. CASE stage' = [stage EXCEPT ![i] = "waiting"]
      BY <1>1, <1>2, <3>2, CalledItems
    <3> QED
      BY <1>7, <3>1, <3>2
  <2>2. Follows(admission', calls')
    <3>1. CASE UNCHANGED admission
      BY <1>4, <1>7, <3>1
    <3>2. CASE admission' = Append(admission, i)
      BY <1>2, <1>3, <1>4, <1>5, <1>7, <3>2
    <3> QED
      BY <1>7, <3>1, <3>2
  <2>3. \/ Kind[i] # "task" /\ UNCHANGED tasks
        \/ Kind[i] = "task" /\ stage'[i] = "waiting" /\ UNCHANGED tasks
        \/ /\ Kind[i] = "task" /\ stage'[i] = "queued" /\ tasks' = Append(tasks, i)
           /\ admission = <<>>
    <3>1. CASE Uncontended(i) /\ Admit(i)
      BY <1>1, <3>1, Admits DEF Admitted, Uncontended
    <3>2. CASE stage' = [stage EXCEPT ![i] = "waiting"] /\ UNCHANGED tasks
      BY <1>1, <3>2
    <3> QED
      BY <1>7, <3>1, <3>2
  <2>4. CASE Kind[i] # "task"
    BY <1>2, <1>7, <2>1, <2>2, <2>3, <2>4, OrderStays
  <2>5. CASE Kind[i] = "task"
    <3>1. Follows(tasks', calls')
      <4>1. CASE UNCHANGED tasks
        BY <1>4, <1>7, <4>1
      <4>2. CASE tasks' = Append(tasks, i)
        BY <1>2, <1>3, <1>4, <1>5, <1>7, <4>2
      <4> QED
        BY <2>3, <2>5, <4>1, <4>2
    <3>2. ToSet(calls') = ToSet(calls) \cup {i}
      BY <1>2, <1>7, <2>5
    <3>3. \A x \in ToSet(calls') :
            Kind[x] = "task" /\ stage'[x] \in {"waiting", "queued"} \cup Settled
      BY <2>1, <2>3, <2>5, <3>2 DEF OrderInv
    <3>4. ASSUME NEW x \in ToSet(calls'), NEW y \in ToSet(calls'), Before(calls', x, y)
          PROVE  /\ stage'[y] \in Settled => stage'[x] \in Settled
                 /\ stage'[y] = "queued" => stage'[x] # "waiting"
      <4>1. CASE Before(calls, x, y)
        <5>1. x \in ToSet(calls) /\ y \in ToSet(calls)
          BY <1>3, <4>1, BeforeIsIn
        <5> QED
          BY <2>1, <4>1, <5>1 DEF OrderInv
      <4>2. CASE x \in ToSet(calls) /\ y = i
        <5>1. stage'[i] \notin Settled
          BY <2>3, <2>5 DEF Settled
        <5>2. ASSUME stage'[i] = "queued" PROVE stage'[x] # "waiting"
          <6>1. admission = <<>>
            BY <2>3, <2>5, <5>2
          <6>2. At({"waiting"}, stage) = {}
            BY <1>3, <6>1 DEF ToSet
          <6> QED
            BY <2>1, <4>2, <6>2, CalledItems DEF At
        <5> QED
          BY <4>2, <5>1, <5>2
      <4> QED
        BY <1>2, <1>7, <3>4, <4>1, <4>2
    <3> QED
      BY <1>2, <1>7, <2>2, <3>1, <3>3, <3>4 DEF OrderInv
  <2> QED
    BY <2>4, <2>5
<1> QED
  BY <1>6, <1>7 DEF Enqueue, Refuses

LEMMA AdmitHeadOrder ==
  ASSUME Types, OrderInv, AdmitHead
  PROVE  OrderInv'
<1> DEFINE i == Head(admission)
<1>1. calls' = calls
  BY DEF AdmitHead
<1>2. CASE HeadAdmitted
  <2>1. /\ i \in Item /\ stage[i] = "waiting" /\ Admitted(i)
        /\ admission # <<>> /\ admission' = Tail(admission)
    BY <1>2 DEF HeadAdmitted
  <2>2. /\ calls \in Seq(Item) /\ tasks \in Seq(Item) /\ admission \in Seq(Item)
        /\ ToSet(admission) = At({"waiting"}, stage) /\ ToSet(tasks) = At({"queued"}, stage)
    BY DEF Types, Holds
  <2>3. /\ Follows(admission', calls)
        /\ \A y \in ToSet(admission) : y # i => ~Before(calls, y, i)
    BY <2>1, <2>2, FollowsHead DEF OrderInv
  <2> HIDE DEF i
  <2>4. \A x \in ToSet(calls) : x # i => stage'[x] = stage[x]
    BY <2>1, CalledItems DEF Admitted
  <2>5. CASE Kind[i] # "task"
    <3>1. \A x \in ToSet(calls) : stage'[x] = stage[x]
      BY <2>4, <2>5 DEF OrderInv
    <3>2. UNCHANGED tasks
      BY <2>1, <2>5 DEF Admitted
    <3> QED
      BY <1>1, <2>3, <3>1, <3>2, OrderStays
  <2>6. CASE Kind[i] = "task"
    <3>1. stage'[i] = "queued" /\ tasks' = Append(tasks, i)
      BY <2>1, <2>6 DEF Admitted
    <3>2. \A y \in ToSet(tasks) : ~Before(calls, i, y)
      <4> SUFFICES ASSUME NEW y \in ToSet(tasks), Before(calls, i, y) PROVE FALSE
        OBVIOUS
      <4>1. i \in ToSet(calls) /\ y \in ToSet(calls) /\ stage[y] = "queued"
        BY <2>2, BeforeIsIn DEF At
      <4> QED
        BY <2>1, <4>1 DEF OrderInv
    <3>3. Follows(tasks', calls)
      BY <2>1, <2>2, <3>1, <3>2, FollowsAppended DEF OrderInv
    <3>4. \A x \in ToSet(calls) :
            Kind[x] = "task" /\ stage'[x] \in {"waiting", "queued"} \cup Settled
      BY <2>4, <3>1 DEF OrderInv
    <3>5. ASSUME NEW x \in ToSet(calls), NEW y \in ToSet(calls), Before(calls, x, y)
          PROVE  /\ stage'[y] \in Settled => stage'[x] \in Settled
                 /\ stage'[y] = "queued" => stage'[x] # "waiting"
      <4>1. /\ stage[y] \in Settled => stage[x] \in Settled
            /\ stage[y] = "queued" => stage[x] # "waiting"
        BY <3>5 DEF OrderInv
      <4>2. CASE x = i
        BY <2>1, <2>4, <3>1, <4>1, <4>2 DEF Settled
      <4>3. CASE x # i /\ y = i
        <5>1. x \notin ToSet(admission)
          BY <2>3, <3>5, <4>3
        <5>2. stage[x] # "waiting"
          BY <2>2, <5>1, CalledItems DEF At
        <5> QED
          BY <2>4, <3>1, <4>3, <5>2 DEF Settled
      <4>4. CASE x # i /\ y # i
        BY <2>4, <4>1, <4>4
      <4> QED
        BY <4>2, <4>3, <4>4
    <3> QED
      BY <1>1, <2>3, <3>3, <3>4, <3>5 DEF OrderInv
  <2> QED
    BY <2>5, <2>6
<1> QED
  BY <1>1, <1>2, AdmitHeadCases, FlushOrder

LEMMA TaskSettlesOrder ==
  ASSUME Types, OrderInv, TaskSettles
  PROVE  OrderInv'
<1> DEFINE i == Head(tasks)
<1>1. /\ UNCHANGED <<calls, admission>> /\ tasks' = Tail(tasks)
      /\ tasks # <<>> /\ i \in Item /\ stage[i] = "queued" /\ stage'[i] \in Settled
      /\ \A j \in Item : j # i => stage'[j] = stage[j]
  BY TaskSettlesMoves DEF TaskMoves, TaskSettles, Settled
<1>2. calls \in Seq(Item) /\ tasks \in Seq(Item) /\ ToSet(tasks) = At({"queued"}, stage)
  BY DEF Types, Holds
<1>3. /\ Follows(tasks', calls)
      /\ \A y \in ToSet(tasks) : y # i => ~Before(calls, y, i)
  BY <1>1, <1>2, FollowsHead DEF OrderInv
<1> HIDE DEF i
<1>4. \A x \in ToSet(calls) : x # i => stage'[x] = stage[x]
  BY <1>1, CalledItems
<1>5. \A x \in ToSet(calls) :
        Kind[x] = "task" /\ stage'[x] \in {"waiting", "queued"} \cup Settled
  BY <1>1, <1>4 DEF OrderInv
<1>6. ASSUME NEW x \in ToSet(calls), NEW y \in ToSet(calls), Before(calls, x, y)
      PROVE  /\ stage'[y] \in Settled => stage'[x] \in Settled
             /\ stage'[y] = "queued" => stage'[x] # "waiting"
  <2>1. /\ stage[y] \in Settled => stage[x] \in Settled
        /\ stage[y] = "queued" => stage[x] # "waiting"
    BY <1>6 DEF OrderInv
  <2>2. CASE x = i
    BY <1>1, <2>2 DEF Settled
  <2>3. CASE x # i /\ y = i
    <3>1. stage[x] # "queued"
      BY <1>2, <1>3, <1>6, <2>3, CalledItems DEF At
    <3>2. stage[x] \in Settled
      BY <1>1, <2>1, <2>3, <3>1 DEF OrderInv
    <3> QED
      BY <1>4, <2>3, <3>2 DEF Settled
  <2>4. CASE x # i /\ y # i
    BY <1>4, <2>1, <2>4
  <2> QED
    BY <2>2, <2>3, <2>4
<1> QED
  BY <1>1, <1>3, <1>5, <1>6 DEF OrderInv

LEMMA NextOrder ==
  ASSUME Types, OrderInv, [Next]_wqVars
  PROVE  OrderInv'
<1>1. CASE TimerFires
  BY <1>1, FlushOrder DEF TimerFires
<1>2. CASE BatchSettles
  <2>1. \A x \in ToSet(calls) : stage'[x] = stage[x]
    BY <1>2, BatchSettlesMoves, CalledItems DEF BatchMoves
  <2> QED
    BY <1>2, <2>1, OrderStays DEF BatchSettles, OrderInv
<1>3. CASE Resume \/ UNCHANGED wqVars \/ \E b \in Pause \cup Stop : Drain(b)
  BY <1>3, OrderStays DEF Resume, wqVars, Drain, OrderInv
<1>4. ASSUME NEW b \in Pause \cup Stop, DrainStep(b)
      PROVE  OrderInv'
  <2>1. UNCHANGED <<calls, admission, tasks>>
    BY <1>4 DEF DrainStep
  <2>2. CASE UNCHANGED <<stage, chain, timer>>
    BY <2>1, <2>2, OrderStays DEF OrderInv
  <2> QED
    BY <1>4, <2>1, <2>2, DrainStepPhases, FlushOrder
<1> QED
  BY <1>1, <1>2, <1>3, <1>4, EnqueueOrder, AdmitHeadOrder, TaskSettlesOrder DEF Next

LEMMA InitOrder == WQInit => OrderInv
<1> SUFFICES ASSUME WQInit PROVE OrderInv
  OBVIOUS
<1>1. calls = <<>> /\ tasks = <<>> /\ admission = <<>> /\ DOMAIN <<>> = {} /\ ToSet(<<>>) = {}
  BY DEF WQInit, ToSet
<1> QED
  BY <1>1 DEF OrderInv, Distinct, Follows

LEMMA OrderInvMeansInOrder == OrderInv => TasksInOrder
<1> SUFFICES ASSUME OrderInv, NEW j \in DOMAIN calls, NEW k \in DOMAIN calls, j < k,
                    stage[calls[k]] \in Settled
             PROVE  stage[calls[j]] \in Settled
  BY DEF TasksInOrder
<1>1. /\ calls[j] \in ToSet(calls) /\ calls[k] \in ToSet(calls)
      /\ Before(calls, calls[j], calls[k])
  BY DEF ToSet, Before
<1> QED
  BY <1>1 DEF OrderInv

\* Side effects take place in the order in which they were asked for, whether
\* they waited for capacity or not.
THEOREM TasksAlwaysInOrder == Spec => []TasksInOrder
<1>1. Types /\ OrderInv /\ [Next]_wqVars => OrderInv'
  BY NextOrder
<1> QED
  BY <1>1, InitTypes, NextTypes, InitOrder, OrderInvMeansInOrder, PTL DEF Spec

-----------------------------------------------------------------------------
(* The queue implements DeferredWrites.                                     *)

Pending == {"waiting", "buffered", "inflight", "queued"}

\* Rows and tasks go different ways, and a task on its way was called for.
Kinds ==
  \A i \in Item :
    /\ stage[i] \in {"buffered", "inflight"} => Kind[i] # "task"
    /\ stage[i] = "queued" => Kind[i] = "task"
    /\ Kind[i] = "task" /\ stage[i] \in {"waiting", "queued"} => i \in ToSet(calls)

LEMMA KindsStay ==
  ASSUME Kinds, UNCHANGED calls,
         \A j \in Item : \/ stage'[j] = stage[j]
                         \/ stage[j] = "buffered" /\ stage'[j] = "inflight"
                         \/ stage'[j] \in Settled \cup {"refused", "dropped"}
  PROVE  Kinds'
BY DEF Kinds, Settled

LEMMA AdmittedKinds ==
  ASSUME Kinds, NEW i \in Item, Admitted(i), ToSet(calls) \subseteq ToSet(calls'),
         Kind[i] = "task" => i \in ToSet(calls')
  PROVE  Kinds'
<1> SUFFICES ASSUME NEW j \in Item
             PROVE  /\ stage'[j] \in {"buffered", "inflight"} => Kind[j] # "task"
                    /\ stage'[j] = "queued" => Kind[j] = "task"
                    /\ Kind[j] = "task" /\ stage'[j] \in {"waiting", "queued"} => j \in ToSet(calls')
  BY DEF Kinds
<1>1. CASE j = i
  BY <1>1 DEF Admitted
<1>2. CASE j # i
  BY <1>2 DEF Admitted, Kinds
<1> QED
  BY <1>1, <1>2

LEMMA NextKinds ==
  ASSUME Types, OrderInv, Kinds, [Next]_wqVars
  PROVE  Kinds'
<1>1. ASSUME NEW i \in Item, Enqueue(i)
      PROVE  Kinds'
  <2>1. stage[i] = "new" /\ stage \in [Item -> Stage]
    BY <1>1 DEF Enqueue, Refuses, Types
  <2>2. /\ Kind[i] = "task" => ToSet(Called(i)) = ToSet(calls) \cup {i}
        /\ Kind[i] # "task" => Called(i) = calls
    BY <2>1, CalledOrder
  <2>3. CASE stage' = [stage EXCEPT ![i] = "refused"] /\ UNCHANGED calls
    BY <2>1, <2>3, KindsStay
  <2>4. CASE stage' = [stage EXCEPT ![i] = "dropped"] /\ UNCHANGED calls
    BY <2>1, <2>4, KindsStay
  <2>5. CASE stage' = [stage EXCEPT ![i] = "waiting"] /\ calls' = Called(i)
    BY <2>1, <2>2, <2>5 DEF Kinds
  <2>6. CASE Admit(i) /\ calls' = Called(i)
    BY <2>1, <2>2, <2>6, Admits, AdmittedKinds
  <2> QED
    BY <1>1, <2>3, <2>4, <2>5, <2>6 DEF Enqueue, Refuses
<1>2. CASE AdmitHead
  <2>1. UNCHANGED calls
    BY <1>2 DEF AdmitHead
  <2>2. CASE DoFlush(stage)
    BY <2>1, <2>2, Flushes, KindsStay DEF Types
  <2>3. CASE HeadAdmitted
    BY <2>1, <2>3, AdmittedKinds DEF HeadAdmitted, Kinds
  <2> QED
    BY <1>2, <2>2, <2>3, AdmitHeadCases
<1>3. CASE TimerFires
  BY <1>3, Flushes, KindsStay DEF TimerFires, Types
<1>4. CASE BatchSettles
  <2>1. BatchMoves /\ UNCHANGED calls
    BY <1>4, BatchSettlesMoves DEF BatchSettles
  <2> QED
    BY <2>1, KindsStay DEF BatchMoves
<1>5. CASE TaskSettles
  <2>1. TaskMoves /\ UNCHANGED calls
    BY <1>5, TaskSettlesMoves DEF TaskSettles
  <2> QED
    BY <2>1, KindsStay DEF TaskMoves, Settled
<1>6. CASE Resume \/ UNCHANGED wqVars \/ \E b \in Pause \cup Stop : Drain(b)
  BY <1>6, KindsStay DEF Resume, wqVars, Drain
<1>7. ASSUME NEW b \in Pause \cup Stop, DrainStep(b)
      PROVE  Kinds'
  <2>1. UNCHANGED calls
    BY <1>7 DEF DrainStep
  <2>2. CASE DoFlush(stage)
    BY <2>1, <2>2, Flushes, KindsStay DEF Types
  <2>3. CASE UNCHANGED <<stage, chain, timer>>
    BY <2>1, <2>3, KindsStay
  <2> QED
    BY <1>7, <2>2, <2>3, DrainStepPhases
<1> QED
  BY <1>1, <1>2, <1>3, <1>4, <1>5, <1>6, <1>7 DEF Next

-----------------------------------------------------------------------------
\* The fate of an item, by its stage.
LEMMA FateByStage ==
  ASSUME NEW st \in Stage
  PROVE  /\ st = "new" <=> Fate(st) = "new"
         /\ st \in {"refused", "dropped"} <=> Fate(st) = "away"
         /\ st \in Pending <=> Fate(st) = "accepted"
         /\ st \in {"written", "skipped"} <=> Fate(st) = "done"
         /\ st = "failed" <=> Fate(st) = "failed"
<1>1. CASE st = "new"
  BY <1>1 DEF Fate, Pending
<1>2. CASE st \in {"refused", "dropped"}
  BY <1>2 DEF Fate, Pending
<1>3. CASE st = "failed"
  BY <1>3 DEF Fate, Pending
<1>4. CASE st \in {"written", "skipped"}
  BY <1>4 DEF Fate, Pending
<1>5. CASE st \in Pending
  BY <1>5 DEF Fate, Pending
<1> QED
  BY <1>1, <1>2, <1>3, <1>4, <1>5 DEF Stage, Pending

\* An item that stays in its stage, or among those that are pending, keeps its fate.
Stays(i) == stage'[i] = stage[i] \/ (stage[i] \in Pending /\ stage'[i] \in Pending)

\* One item has a new fate.
LEMMA OneFate ==
  ASSUME Types, Types', NEW i \in Item, \A j \in Item : j = i \/ Stays(j)
  PROVE  Fates' = [Fates EXCEPT ![i] = Fate(stage'[i])]
<1>1. \A j \in Item : stage[j] \in Stage /\ stage'[j] \in Stage
  BY DEF Types
<1>2. \A j \in Item : j # i => Fate(stage'[j]) = Fate(stage[j])
  BY <1>1, FateByStage DEF Stays
<1> QED
  BY <1>2 DEF Fates

LEMMA NoNewFate ==
  ASSUME Types, Types', \A j \in Item : Stays(j)
  PROVE  Fates' = Fates
<1>1. \A j \in Item : stage[j] \in Stage /\ stage'[j] \in Stage
  BY DEF Types
<1>2. \A j \in Item : Fate(stage'[j]) = Fate(stage[j])
  BY <1>1, FateByStage DEF Stays
<1> QED
  BY <1>2 DEF Fates

\* Whoever was told that the queue is empty closed it, and it is.
ClosedAndEmpty == Mode # "open" /\ \A i \in Item : Fates[i] # "accepted"

LEMMA FlushedIsEmpty == Types /\ DrainInv /\ Flushed => ClosedAndEmpty
<1> SUFFICES ASSUME Types, DrainInv, Flushed PROVE ClosedAndEmpty
  OBVIOUS
<1>1. PICK b \in Pause \cup Stop : barrier[b].phase = "done" /\ (b \in Stop \/ pausedBy = {b})
  BY DEF Flushed
<1>2. stopped \/ pausedBy # {}
  BY <1>1 DEF DrainInv
<1>3. Backlog = {} /\ admission = <<>>
  BY <1>1, DrainedIsEmpty DEF DrainedMeansEmpty
<1>4. ToSet(admission) = {} /\ At({"waiting"}, stage) = ToSet(admission)
  BY <1>3 DEF Types, Holds, ToSet
<1>5. \A i \in Item : stage[i] \notin Pending
  BY <1>3, <1>4 DEF Backlog, At, Pending
<1> QED
  BY <1>2, <1>5, FateByStage DEF Mode, Types, Fates, ClosedAndEmpty

PInv == Types /\ DrainInv /\ OrderInv /\ Kinds

LEMMA EnqueueImplements ==
  ASSUME Types, Types', OrderInv, NEW i \in Item, Enqueue(i)
  PROVE  DW!Next
<1>1. /\ stage[i] = "new" /\ stage \in [Item -> Stage] /\ stage'[i] \in Stage
      /\ UNCHANGED <<Mode, Flushed>>
  BY DEF Enqueue, Refuses, Types, Mode, Flushed
<1>2. Fates[i] = "new"
  BY <1>1, FateByStage DEF Fates
<1>3. CASE /\ stage' = [stage EXCEPT ![i] = "refused"] \/ stage' = [stage EXCEPT ![i] = "dropped"]
           /\ UNCHANGED calls
  <2>1. stage'[i] \in {"refused", "dropped"} /\ \A j \in Item : j = i \/ Stays(j)
    BY <1>1, <1>3 DEF Stays
  <2>2. Fates' = [Fates EXCEPT ![i] = "away"]
    BY <1>1, <2>1, FateByStage, OneFate
  <2> QED
    BY <1>1, <1>2, <1>3, <2>2 DEF DW!TurnAway, DW!Next
<1>4. CASE /\ ~stopped /\ pausedBy = {} /\ calls' = Called(i)
           /\ stage' = [stage EXCEPT ![i] = "waiting"] \/ Admit(i)
  <2>1. stage'[i] \in Pending /\ \A j \in Item : j = i \/ Stays(j)
    <3>1. CASE stage' = [stage EXCEPT ![i] = "waiting"]
      BY <1>1, <3>1 DEF Pending, Stays
    <3>2. CASE Admit(i)
      BY <1>1, <3>2, Admits DEF Admitted, Pending, Stays
    <3> QED
      BY <1>4, <3>1, <3>2
  <2>2. Fates' = [Fates EXCEPT ![i] = "accepted"]
    BY <1>1, <2>1, FateByStage, OneFate
  <2>3. Mode = "open" /\ calls' = IF i \in Tasks THEN Append(calls, i) ELSE calls
    BY <1>4 DEF Mode, Called, Tasks
  <2> QED
    BY <1>1, <1>2, <2>2, <2>3 DEF DW!Accept, DW!Next
<1> QED
  BY <1>3, <1>4 DEF Enqueue, Refuses

LEMMA BatchImplements ==
  ASSUME Types, Types', Kinds, BatchSettles
  PROVE  DW!Next
<1> DEFINE rows == Head(chain)
           lost == {j \in rows : stage'[j] = "failed"}
<1>1. BatchMoves /\ UNCHANGED <<calls, Mode, Flushed>>
  BY BatchSettlesMoves DEF BatchSettles, Mode, Flushed
<1>2. /\ rows \subseteq Item
      /\ \A j \in rows : stage[j] = "inflight" /\ stage'[j] \in Settled
      /\ \A j \in rows : stage'[j] = "failed" => j \in Poison
      /\ \A j \in Item : j \notin rows => stage'[j] = stage[j]
  BY <1>1 DEF BatchMoves
<1> HIDE DEF rows
<1>3. lost \in SUBSET (rows \cap Poison)
  BY <1>2
<1>4. rows \in SUBSET (Item \ Tasks)
  BY <1>2 DEF Kinds, Tasks
<1>5. \A j \in Item : stage[j] \in Stage /\ stage'[j] \in Stage
  BY DEF Types
<1>6. \A j \in rows : Fates[j] = "accepted"
  BY <1>2, <1>5, FateByStage DEF Fates, Pending
<1>7. \A j \in Item : Fate(stage'[j]) = IF j \in lost THEN "failed"
                                        ELSE IF j \in rows THEN "done" ELSE Fates[j]
  BY <1>2, <1>5, FateByStage DEF Fates, Settled
<1> HIDE DEF lost
<1>8. Fates' = [j \in Item |-> IF j \in lost THEN "failed" ELSE IF j \in rows THEN "done" ELSE Fates[j]]
  BY <1>7 DEF Fates
<1>9. DW!Write(rows)
  BY <1>1, <1>3, <1>6, <1>8 DEF DW!Write
<1> QED
  BY <1>4, <1>9 DEF DW!Next

LEMMA TaskImplements ==
  ASSUME Types, Types', OrderInv, OrderInv', Kinds, TaskSettles
  PROVE  DW!Next
<1> DEFINE t == Head(tasks)
<1>1. /\ TaskMoves /\ UNCHANGED <<calls, Mode, Flushed>>
      /\ stage' = [stage EXCEPT ![t] = IF t \in Poison THEN "failed" ELSE "written"]
  BY TaskSettlesMoves DEF TaskSettles, Mode, Flushed
<1>2. /\ t \in Item /\ stage[t] = "queued" /\ stage \in [Item -> Stage]
      /\ \A j \in Item : j # t => stage'[j] = stage[j]
      /\ stage'[t] = IF t \in Poison THEN "failed" ELSE "written"
  BY <1>1 DEF TaskMoves, Types
<1>3. t \in ToSet(calls)
  BY <1>2 DEF Kinds
<1> HIDE DEF t
<1>4. PICK k \in DOMAIN calls : calls[k] = t
  BY <1>3 DEF ToSet
<1>5. calls \in Seq(Item) /\ Distinct(calls) /\ DOMAIN calls = 1..Len(calls) /\ Len(calls) \in Nat
  BY DEF Types, OrderInv
<1>6. ASSUME NEW j \in 1..(k - 1)
      PROVE  Fates[calls[j]] \in {"done", "failed"}
  <2>1. j \in DOMAIN calls /\ j < k /\ calls[j] \in Item /\ calls[j] # t
    BY <1>4, <1>5 DEF Distinct
  <2>2. stage'[calls[j]] \in Settled
    <3>1. stage'[calls[k]] \in Settled /\ calls' = calls
      BY <1>1, <1>2, <1>4 DEF Settled
    <3>2. TasksInOrder'
      BY OrderInvMeansInOrder, PTL
    <3> QED
      BY <2>1, <3>1, <3>2 DEF TasksInOrder
  <2>3. stage[calls[j]] \in Settled /\ stage[calls[j]] \in Stage
    BY <1>2, <2>1, <2>2
  <2> QED
    BY <2>1, <2>3, FateByStage DEF Settled, Fates
<1>7. /\ Fate(stage'[t]) = IF t \in Poison THEN "failed" ELSE "done"
      /\ Fates[t] = "accepted"
  BY <1>2, FateByStage DEF Fates, Stage, Pending
<1>8. Fates' = [Fates EXCEPT ![t] = IF t \in Poison THEN "failed" ELSE "done"]
  BY <1>2, <1>7, OneFate DEF Stays
<1>9. DW!Run(k)
  BY <1>1, <1>4, <1>6, <1>7, <1>8 DEF DW!Run, DW!Over
<1> QED
  BY <1>9 DEF DW!Next

LEMMA DrainImplements ==
  ASSUME Types, Types', DrainInv, NEW b \in Pause \cup Stop, Drain(b)
  PROVE  DW!Next \/ UNCHANGED <<Fates, calls, Mode, Flushed>>
<1>1. /\ UNCHANGED <<stage, calls>> /\ barrier[b].phase = "new" /\ b \in DOMAIN barrier
      /\ barrier' = [barrier EXCEPT ![b] = [phase |-> "admission", awaits |-> ToSet(admission)]]
  BY DEF Drain, Types
<1>2. /\ \A c \in Pause \cup Stop : barrier'[c].phase = "done" <=> barrier[c].phase = "done"
      /\ barrier'[b].phase # "done"
  BY <1>1
<1>3. Fates' = Fates
  BY <1>1, NoNewFate DEF Stays
<1>4. CASE b \in Stop
  <2>1. stopped' = TRUE /\ pausedBy' = pausedBy
    BY <1>4, WriteQueueAssumption DEF Drain
  <2>2. Mode' = "stopped" /\ Flushed' = Flushed
    BY <1>2, <2>1 DEF Mode, Flushed
  <2> QED
    BY <1>1, <1>3, <2>2 DEF DW!Close, DW!Next
<1>5. CASE b \in Pause
  <2>1. b \notin Stop /\ pausedBy = {} /\ pausedBy' = {b} /\ stopped' = stopped
    BY <1>5, WriteQueueAssumption DEF Drain
  <2>2. Flushed' = Flushed
    BY <1>2, <2>1 DEF Flushed
  <2>3. CASE stopped
    BY <1>1, <1>3, <2>1, <2>2, <2>3 DEF Mode
  <2>4. CASE ~stopped
    <3>1. Mode = "open" /\ Mode' = "paused"
      BY <2>1, <2>4 DEF Mode
    <3> QED
      BY <1>1, <1>3, <2>2, <3>1 DEF DW!Close, DW!Next
  <2> QED
    BY <2>3, <2>4
<1> QED
  BY <1>4, <1>5

LEMMA DrainStepImplements ==
  ASSUME Types, Types', DrainInv', NEW b \in Pause \cup Stop, DrainStep(b)
  PROVE  DW!Next \/ UNCHANGED <<Fates, calls, Mode, Flushed>>
<1>1. UNCHANGED <<calls, pausedBy, stopped, Mode>>
  BY DEF DrainStep, Mode
<1>2. Fates' = Fates
  <2>1. CASE DoFlush(stage)
    BY <2>1, Flushes, NoNewFate DEF Types, Pending, Stays
  <2>2. CASE UNCHANGED stage
    BY <2>2, NoNewFate DEF Stays
  <2> QED
    BY <2>1, <2>2, DrainStepPhases
<1>3. Flushed => Flushed'
  <2>1. \A c \in Pause \cup Stop : barrier[c].phase = "done" => barrier'[c].phase = "done"
    <3>1. barrier[b].phase # "done" /\ \E x : barrier' = [barrier EXCEPT ![b] = x]
      BY DEF DrainStep
    <3> QED
      BY <3>1
  <2> QED
    BY <1>1, <2>1 DEF Flushed
<1>4. CASE Flushed' /\ ~Flushed
  <2>1. ClosedAndEmpty'
    BY <1>4, FlushedIsEmpty, PTL
  <2>2. DW!Flush
    BY <1>1, <1>2, <1>4, <2>1 DEF DW!Flush, ClosedAndEmpty
  <2> QED
    BY <2>2 DEF DW!Next
<1>5. CASE Flushed' = Flushed
  BY <1>1, <1>2, <1>5
<1> QED
  BY <1>3, <1>4, <1>5 DEF Flushed

LEMMA ResumeImplements ==
  ASSUME Types, Types', DrainInv, Resume
  PROVE  DW!Next
<1>1. /\ ~stopped /\ pausedBy # {} /\ pausedBy' = {}
      /\ UNCHANGED <<stage, calls, stopped, barrier>>
  BY DEF Resume
<1>2. Fates' = Fates /\ Mode = "paused" /\ Mode' = "open"
  BY <1>1, NoNewFate DEF Mode, Stays
<1>3. Flushed' = FALSE
  <2>1. \A b \in Stop : barrier[b].phase # "done"
    BY <1>1 DEF DrainInv
  <2> QED
    BY <1>1, <2>1 DEF Flushed
<1> QED
  BY <1>1, <1>2, <1>3 DEF DW!Open, DW!Next

LEMMA StepImplements ==
  ASSUME PInv, PInv', [Next]_wqVars
  PROVE  [DW!Next]_<<Fates, calls, Mode, Flushed>>
<1>0. Types /\ Types' /\ DrainInv /\ DrainInv' /\ OrderInv /\ OrderInv' /\ Kinds
  BY DEF PInv
<1>1. CASE AdmitHead
  <2>1. UNCHANGED <<calls, Mode, Flushed>>
    BY <1>1 DEF AdmitHead, Mode, Flushed
  <2>2. \A j \in Item : Stays(j)
    <3>1. CASE DoFlush(stage)
      BY <1>0, <3>1, Flushes DEF Types, Pending, Stays
    <3>2. CASE HeadAdmitted
      BY <3>2 DEF HeadAdmitted, Admitted, Pending, Stays
    <3> QED
      BY <1>0, <1>1, <3>1, <3>2, AdmitHeadCases
  <2> QED
    BY <1>0, <2>1, <2>2, NoNewFate
<1>2. CASE TimerFires
  <2>1. UNCHANGED <<calls, Mode, Flushed>> /\ DoFlush(stage)
    BY <1>2 DEF TimerFires, Mode, Flushed
  <2>2. \A j \in Item : Stays(j)
    BY <1>0, <2>1, Flushes DEF Types, Pending, Stays
  <2> QED
    BY <1>0, <2>1, <2>2, NoNewFate
<1>3. CASE UNCHANGED wqVars
  <2>1. UNCHANGED <<stage, calls, Mode, Flushed>>
    BY <1>3 DEF wqVars, Mode, Flushed
  <2> QED
    BY <1>0, <2>1, NoNewFate DEF Stays
<1> QED
  BY <1>0, <1>1, <1>2, <1>3, EnqueueImplements, BatchImplements, TaskImplements, DrainImplements,
     DrainStepImplements, ResumeImplements DEF Next

LEMMA InitImplements == WQInit => PInv /\ DW!Init
<1> SUFFICES ASSUME WQInit PROVE PInv /\ DW!Init
  OBVIOUS
<1>1. /\ stage = [i \in Item |-> "new"] /\ calls = <<>> /\ pausedBy = {} /\ stopped = FALSE
      /\ barrier = [b \in Pause \cup Stop |-> [phase |-> "new", awaits |-> {}]]
  BY DEF WQInit
<1>2. PInv
  BY <1>1, InitTypes, InitDrain, InitOrder DEF PInv, Kinds
<1>3. Fates = [i \in Item |-> "new"]
  BY <1>1 DEF Fates, Fate
<1>4. Mode = "open" /\ Flushed = FALSE
  BY <1>1 DEF Mode, Flushed
<1> QED
  BY <1>1, <1>2, <1>3, <1>4 DEF DW!Init

LEMMA NextPInv == PInv /\ [Next]_wqVars => PInv'
BY NextTypes, NextDrain, NextOrder, NextKinds DEF PInv

\* The promise rests on the first state and the steps alone, not on fairness; so it
\* holds wherever the queue is used by its own steps.
LEMMA StepsImplement == WQInit /\ [][Next]_wqVars => ImplementsDeferredWrites
<1>1. PInv /\ PInv' /\ [Next]_wqVars => [DW!Next]_<<Fates, calls, Mode, Flushed>>
  BY StepImplements
<1> QED
  BY <1>1, InitImplements, NextPInv, PTL DEF DW!Spec, DW!vars, ImplementsDeferredWrites

\* The queue keeps its promise: whatever is accepted is settled once, tasks in the
\* order of their calls, rows without taking others with them, and a queue that was
\* drained is empty until it is resumed.
THEOREM DeferredWritesImplemented == Spec => ImplementsDeferredWrites
BY StepsImplement, PTL DEF Spec

=============================================================================
