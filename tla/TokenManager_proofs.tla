------------------------- MODULE TokenManager_proofs -------------------------
(***************************************************************************)
(* Proofs about TokenManager, for any managers and callers of an account.  *)
(*                                                                         *)
(* What carries them is the refresh gate: one manager at a time is past    *)
(* its turn, and while it is, no logout takes effect, nobody else writes   *)
(* the row and no other exchange is on its way.  Then the row is either    *)
(* the newest credential, or its successor is on its way to it.            *)
(***************************************************************************)
EXTENDS TokenManager, TLAPS

Members(g) == {g[i] : i \in DOMAIN g}
Distinct(g) == \A i, j \in DOMAIN g : g[i] = g[j] => i = j

\* A refresh past its turn at the gate.
Busy(m) == op[m].phase \notin {"none", "queued"}

\* The gate's queue is the refreshes in flight and perhaps a logout, and only the
\* first of them is past its turn.
GateKept ==
  /\ \A m \in Manager : op[m].phase # "none" <=> m \in Members(gate)
  /\ \A m \in Manager : Busy(m) => Head(gate) = m

\* A refresh past its turn works for a credential that is there; a manager that
\* was not told of a logout holds no refresh token without one.
Connected ==
  /\ \A m \in Manager : Busy(m) => row # NoToken /\ ~revoked[m]
  /\ \A m \in Manager : row = NoToken /\ ~revoked[m] => mem[m].refresh = NoToken

\* The order of credentials: what was exchanged is older than the newest, and
\* what is being written is the newest.
Ordered ==
  /\ row <= issued /\ \A t \in answered : t < issued
  /\ \A m \in Manager :
       /\ op[m].phase = "sent" => op[m].token = row
       /\ op[m].phase = "used" => op[m].token # NoToken /\ op[m].token < issued
       /\ op[m].phase = "writing" => op[m].token = issued

\* A row that was exchanged is about to be replaced.
Replaced == row \in answered => \E m \in Manager : op[m].phase = "writing"

Inv == TypeOK /\ GateKept /\ Connected /\ Ordered

-----------------------------------------------------------------------------
\* A member leaves at the head of a queue, or joins at its end.
LEMMA TailOfQueue ==
  ASSUME NEW S, NEW g \in Seq(S), g # <<>>, Distinct(g)
  PROVE  /\ Tail(g) \in Seq(S) /\ Distinct(Tail(g)) /\ Head(g) \in Members(g)
         /\ Members(Tail(g)) = Members(g) \ {Head(g)}
<1>1. Len(g) \in Nat \ {0} /\ DOMAIN g = 1..Len(g)
  OBVIOUS
<1>2. /\ Tail(g) \in Seq(S) /\ DOMAIN Tail(g) = 1..(Len(g) - 1)
      /\ \A i \in 1..(Len(g) - 1) : Tail(g)[i] = g[i + 1]
      /\ Head(g) = g[1]
  BY <1>1
<1>3. \A i \in 1..(Len(g) - 1) : i + 1 \in DOMAIN g /\ i + 1 # 1
  BY <1>1
<1>4. \A i \in DOMAIN g : i # 1 => i - 1 \in 1..(Len(g) - 1) /\ (i - 1) + 1 = i
  BY <1>1
<1>5. 1 \in DOMAIN g
  BY <1>1
<1>6. Distinct(Tail(g))
  <2>1. \A i, j \in 1..(Len(g) - 1) : i + 1 = j + 1 => i = j
    BY <1>1
  <2> QED
    BY <1>2, <1>3, <2>1 DEF Distinct
<1>7. Members(Tail(g)) \subseteq Members(g) \ {Head(g)}
  BY <1>2, <1>3, <1>5 DEF Members, Distinct
<1>8. Members(g) \ {Head(g)} \subseteq Members(Tail(g))
  <2> SUFFICES ASSUME NEW i \in DOMAIN g, i # 1 PROVE g[i] \in Members(Tail(g))
    BY <1>2 DEF Members
  <2>1. Tail(g)[i - 1] = g[i] /\ i - 1 \in DOMAIN Tail(g)
    BY <1>2, <1>4
  <2> QED
    BY <2>1 DEF Members
<1>9. Head(g) \in Members(g)
  BY <1>2, <1>5 DEF Members
<1> QED
  BY <1>2, <1>6, <1>7, <1>8, <1>9

LEMMA JoinedQueue ==
  ASSUME NEW S, NEW g \in Seq(S), NEW x \in S, Distinct(g), x \notin Members(g)
  PROVE  /\ Append(g, x) \in Seq(S) /\ Distinct(Append(g, x))
         /\ Members(Append(g, x)) = Members(g) \cup {x}
         /\ g # <<>> => Head(Append(g, x)) = Head(g)
<1>1. /\ Len(g) \in Nat /\ DOMAIN g = 1..Len(g)
      /\ Append(g, x) \in Seq(S) /\ DOMAIN Append(g, x) = 1..(Len(g) + 1)
      /\ \A i \in DOMAIN g : Append(g, x)[i] = g[i]
      /\ Append(g, x)[Len(g) + 1] = x
  OBVIOUS
<1>2. 1..(Len(g) + 1) = 1..Len(g) \cup {Len(g) + 1}
  BY <1>1
<1>3. Distinct(Append(g, x))
  BY <1>1, <1>2 DEF Distinct, Members
<1>4. Members(Append(g, x)) = Members(g) \cup {x}
  BY <1>1, <1>2 DEF Members
<1>5. g # <<>> => Head(Append(g, x)) = Head(g)
  OBVIOUS
<1> QED
  BY <1>1, <1>3, <1>4, <1>5

-----------------------------------------------------------------------------
\* The types, named apart: the world and the store, what managers remember, the
\* refreshes and their queue, the callers.
WorldTypes ==
  /\ issued \in Token /\ stale \in 0..MaxToken /\ dead \in 0..MaxToken
  /\ row \in Token \cup {NoToken} /\ answered \in SUBSET Token /\ lost \in BOOLEAN

ManagerTypes ==
  /\ mem \in [Manager -> Memory] /\ forced \in [Manager -> BOOLEAN]
  /\ rejected \in [Manager -> Token \cup {NoToken}] /\ revoked \in [Manager -> BOOLEAN]

GateTypes == op \in [Manager -> Op] /\ gate \in Seq(Manager \cup {Logout}) /\ Distinct(gate)

CallerTypes == req \in [Request -> Req]

LEMMA TypesApart == TypeOK <=> WorldTypes /\ ManagerTypes /\ GateTypes /\ CallerTypes
  BY DEF TypeOK, WorldTypes, ManagerTypes, GateTypes, CallerTypes, Distinct

\* 0 and the newest credentials are tokens.
LEMMA Tokens ==
  /\ NoToken \in Token \cup {NoToken} /\ NoToken \notin Token /\ Token \subseteq Nat
  /\ EmptyMemory \in Memory /\ EmptyMemory.refresh = NoToken
  /\ NoOp \in Op /\ NoOp.phase = "none" /\ IdleReq \in Req
<1>1. NoToken \in Token \cup {NoToken} /\ NoToken \notin Token /\ Token \subseteq Nat
  BY ManagerAssumption DEF NoToken, Token
<1> QED
  BY <1>1 DEF EmptyMemory, Memory, NoOp, Op, OpPhase, IdleReq, Req

\* Who is past its turn is at the head of the gate's queue, alone.
LEMMA OneBusy ==
  ASSUME GateTypes, GateKept, NEW m \in Manager, gate # <<>>, Head(gate) = m
  PROVE  \A n \in Manager : Busy(n) => n = m
  BY DEF GateKept

\* A refresh joins the queue.
LEMMA JoinedKept ==
  ASSUME GateTypes, GateKept, NEW m \in Manager, Joined(m)
  PROVE  /\ GateTypes' /\ GateKept'
         /\ \A n \in Manager : op'[n] = op[n] \/ (op[n].phase = "none" /\ op'[n].phase = "queued")
<1>1. CASE op[m].phase # "none"
  BY <1>1 DEF Joined, GateTypes, GateKept, Busy
<1>2. CASE op[m].phase = "none"
  <2> DEFINE o == [phase |-> "queued", token |-> NoToken]
  <2>1. op' = [op EXCEPT ![m] = o] /\ gate' = Append(gate, m)
    BY <1>2 DEF Joined
  <2>2. o \in Op /\ o.phase = "queued"
    BY Tokens DEF Op, OpPhase
  <2> HIDE DEF o
  <2>3. m \notin Members(gate)
    BY <1>2 DEF GateKept
  <2>4. /\ gate' \in Seq(Manager \cup {Logout}) /\ Distinct(gate')
        /\ Members(gate') = Members(gate) \cup {m}
        /\ gate # <<>> => Head(gate') = Head(gate)
    BY <2>1, <2>3, JoinedQueue DEF GateTypes
  <2>5. op'[m] = o /\ \A n \in Manager \ {m} : op'[n] = op[n]
    BY <2>1 DEF GateTypes
  <2>6. op' \in [Manager -> Op]
    BY <2>1, <2>2 DEF GateTypes
  <2>7. Members(<<>>) = {}
    BY DEF Members
  <2>8. ASSUME NEW n \in Manager, Busy(n)' PROVE Head(gate') = n
    <3>1. n # m /\ Busy(n) /\ n \in Members(gate)
      BY <2>2, <2>5, <2>8 DEF Busy, GateKept
    <3> QED
      BY <3>1, <2>4, <2>7 DEF GateKept
  <2>9. GateKept'
    BY <2>2, <2>4, <2>5, <2>8 DEF GateKept
  <2> QED
    BY <1>2, <2>2, <2>4, <2>5, <2>6, <2>9 DEF GateTypes
<1> QED
  BY <1>1, <1>2

\* The first of the queue goes on.
LEMMA TurnKept ==
  ASSUME GateTypes, GateKept, NEW m \in Manager, gate # <<>>, Head(gate) = m, op[m].phase # "none",
         NEW o \in Op, o.phase # "none", op' = [op EXCEPT ![m] = o], gate' = gate
  PROVE  /\ GateTypes' /\ GateKept' /\ op'[m] = o
         /\ \A n \in Manager \ {m} : op'[n] = op[n] /\ ~Busy(n)'
<1>1. op'[m] = o /\ \A n \in Manager \ {m} : op'[n] = op[n]
  BY DEF GateTypes
<1>2. \A n \in Manager \ {m} : ~Busy(n)
  BY OneBusy
<1>3. GateTypes'
  BY DEF GateTypes
<1> QED
  BY <1>1, <1>2, <1>3 DEF GateKept, Busy

\* The first of the queue is done: nobody is past its turn.
LEMMA EndKept ==
  ASSUME GateTypes, GateKept, NEW m \in Manager, gate # <<>>, Head(gate) = m,
         op' = [op EXCEPT ![m] = NoOp], gate' = Tail(gate)
  PROVE  /\ GateTypes' /\ GateKept'
         /\ \A n \in Manager : ~Busy(n)'
<1>1. op'[m] = NoOp /\ \A n \in Manager \ {m} : op'[n] = op[n]
  BY DEF GateTypes
<1>2. \A n \in Manager \ {m} : ~Busy(n)
  BY OneBusy
<1>3. /\ gate' \in Seq(Manager \cup {Logout}) /\ Distinct(gate')
      /\ Members(gate') = Members(gate) \ {m}
  BY TailOfQueue DEF GateTypes
<1>4. op' \in [Manager -> Op]
  BY Tokens DEF GateTypes
<1>5. \A n \in Manager : ~Busy(n)'
  BY <1>1, <1>2, Tokens DEF Busy
<1>6. \A n \in Manager : op'[n].phase # "none" <=> n \in Members(gate')
  BY <1>1, <1>3, Tokens DEF GateKept
<1> QED
  BY <1>3, <1>4, <1>5, <1>6 DEF GateTypes, GateKept

\* A logout is done, or given up: the next one's turn.
LEMMA LogoutKept ==
  ASSUME GateTypes, GateKept, gate # <<>>, Head(gate) = Logout, op' = op, gate' = Tail(gate)
  PROVE  /\ GateTypes' /\ GateKept' /\ \A n \in Manager : ~Busy(n)'
<1>1. \A n \in Manager : ~Busy(n) /\ n # Logout
  BY ManagerAssumption DEF GateKept
<1>2. /\ gate' \in Seq(Manager \cup {Logout}) /\ Distinct(gate')
      /\ Members(gate') = Members(gate) \ {Logout}
  BY TailOfQueue DEF GateTypes
<1> QED
  BY <1>1, <1>2 DEF GateTypes, GateKept, Busy

-----------------------------------------------------------------------------
\* A step that leaves the row, the newest credential, the leases and what was
\* exchanged alone, and at most queues a refresh.
LEMMA QuietStep ==
  ASSUME Inv, WorldTypes', ManagerTypes', CallerTypes',
         UNCHANGED <<issued, row, revoked, answered>>,
         row = NoToken => \A n \in Manager : mem'[n].refresh = mem[n].refresh,
         UNCHANGED <<op, gate>> \/ \E m \in Manager : Joined(m)
  PROVE  Inv'
<1> USE DEF Inv
<1>0. WorldTypes /\ ManagerTypes /\ GateTypes /\ CallerTypes
  BY TypesApart
<1>1. /\ GateTypes' /\ GateKept'
      /\ \A n \in Manager : op'[n] = op[n] \/ (op[n].phase = "none" /\ op'[n].phase = "queued")
  <2>1. CASE UNCHANGED <<op, gate>>
    BY <1>0, <2>1 DEF GateTypes, GateKept, Busy
  <2> QED
    BY <1>0, <2>1, JoinedKept
<1>2. \A n \in Manager : Busy(n)' => Busy(n)
  BY <1>1 DEF Busy
<1>3. Connected'
  BY <1>2 DEF Connected
<1>4. Ordered'
  BY <1>1 DEF Ordered
<1>5. TypeOK'
  <2>1. (TypeOK <=> WorldTypes /\ ManagerTypes /\ GateTypes /\ CallerTypes)'
    BY TypesApart, PTL
  <2> QED
    BY <1>1, <2>1
<1> QED
  BY <1>1, <1>3, <1>4, <1>5

\* What a manager loads is a memory; without a row its refresh token stays.
LEMMA LoadedMemory ==
  ASSUME WorldTypes, NEW memory \in Memory
  PROVE  /\ Loaded(memory) \in Memory /\ Wiped(memory) \in Memory /\ Wiped(memory).refresh = NoToken
         /\ row = NoToken => Loaded(memory).refresh = memory.refresh
         /\ row # NoToken => Loaded(memory).refresh = row
  BY Tokens DEF WorldTypes, Loaded, Wiped, Memory

\* Callers are callers, whatever they are told.
LEMMA CallersStay ==
  ASSUME CallerTypes, ManagerTypes
  PROVE  /\ \A r \in Request : Decide(r) => CallerTypes' /\ (UNCHANGED <<op, gate>> \/ Joined(ManagerOf[r]))
         /\ \A m \in Manager, ok \in BOOLEAN, memory \in Memory : Told(m, ok, memory) \in [Request -> Req]
<1>1. ASSUME NEW r \in Request, Decide(r)
      PROVE  CallerTypes' /\ (UNCHANGED <<op, gate>> \/ Joined(ManagerOf[r]))
  <2>1. mem[ManagerOf[r]] \in Memory
    BY ManagerAssumption DEF ManagerTypes
  <2>2. CASE ~Expired(mem[ManagerOf[r]]) /\ ~forced[ManagerOf[r]]
    <3> DEFINE new == [req[r] EXCEPT !.phase = "calling", !.token = mem[ManagerOf[r]].access]
    <3>1. req' = [req EXCEPT ![r] = new] /\ UNCHANGED <<op, gate>>
      BY <1>1, <2>2 DEF Decide
    <3>2. new \in Req
      BY <2>1 DEF CallerTypes, Req, Memory
    <3> HIDE DEF new
    <3> QED
      BY <3>1, <3>2 DEF CallerTypes
  <2>3. CASE ~(~Expired(mem[ManagerOf[r]]) /\ ~forced[ManagerOf[r]])
    <3> DEFINE new == [req[r] EXCEPT !.phase = "refreshing", !.token = NoToken]
    <3>1. req' = [req EXCEPT ![r] = new] /\ Joined(ManagerOf[r])
      BY <1>1, <2>3 DEF Decide
    <3>2. new \in Req
      BY Tokens DEF CallerTypes, Req
    <3> HIDE DEF new
    <3> QED
      BY <3>1, <3>2 DEF CallerTypes
  <2> QED
    BY <2>2, <2>3
<1>2. ASSUME NEW m \in Manager, NEW ok \in BOOLEAN, NEW memory \in Memory
      PROVE  Told(m, ok, memory) \in [Request -> Req]
  <2> SUFFICES ASSUME NEW r \in Request
               PROVE  (IF ManagerOf[r] = m /\ req[r].phase = "refreshing"
                       THEN IF ok /\ ~revoked[m]
                            THEN [req[r] EXCEPT !.phase = "calling", !.token = memory.access]
                            ELSE IdleReq
                       ELSE req[r]) \in Req
    BY DEF Told
  <2>1. [req[r] EXCEPT !.phase = "calling", !.token = memory.access] \in Req
    BY DEF CallerTypes, Req, Memory
  <2> QED
    BY <2>1, Tokens DEF CallerTypes
<1> QED
  BY <1>1, <1>2

LEMMA CallerStep ==
  ASSUME Inv, NEW r \in Request, Ask(r) \/ Proceed(r) \/ Abort(r) \/ Done(r) \/ Unauthorized(r)
  PROVE  Inv'
<1> USE DEF Inv
<1>0. WorldTypes /\ ManagerTypes /\ GateTypes /\ CallerTypes /\ ManagerOf[r] \in Manager
  BY TypesApart, ManagerAssumption
<1>1. CASE Ask(r)
  <2>1. CallerTypes' /\ (UNCHANGED <<op, gate>> \/ Joined(ManagerOf[r]))
    <3>1. CASE mem[ManagerOf[r]].loaded
      BY <1>0, <1>1, <3>1, CallersStay DEF Ask
    <3>2. CASE ~mem[ManagerOf[r]].loaded
      BY <1>0, <1>1, <3>2 DEF Ask, CallerTypes, Req
    <3> QED
      BY <3>1, <3>2
  <2> QED
    BY <1>0, <1>1, <2>1, QuietStep DEF Ask, env, history, WorldTypes, ManagerTypes
<1>2. CASE Proceed(r)
  <2>1. CallerTypes' /\ (UNCHANGED <<op, gate>> \/ Joined(ManagerOf[r]))
    BY <1>0, <1>2, CallersStay, Tokens DEF Proceed, CallerTypes
  <2> QED
    BY <1>0, <1>2, <2>1, QuietStep DEF Proceed, env, history, WorldTypes, ManagerTypes
<1>3. CASE Abort(r) \/ Done(r)
  <2>1. CallerTypes'
    BY <1>0, <1>3, Tokens DEF Abort, Done, CallerTypes
  <2> QED
    BY <1>0, <1>3, <2>1, QuietStep DEF Abort, Done, env, history, WorldTypes, ManagerTypes
<1>4. CASE Unauthorized(r)
  <2> DEFINE m == ManagerOf[r]
  <2>1. [phase |-> "refreshing", token |-> NoToken, retried |-> TRUE] \in Req
    BY Tokens DEF Req
  <2>2. CallerTypes' /\ (UNCHANGED <<op, gate>> \/ Joined(m))
    BY <1>0, <1>4, <2>1, Tokens DEF Unauthorized, CallerTypes
  <2>3. mem' = [mem EXCEPT ![m] = [mem[m] EXCEPT !.access = NoToken]]
    BY <1>0, <1>4 DEF Unauthorized, ManagerTypes
  <2>4. [mem[m] EXCEPT !.access = NoToken] \in Memory /\ [mem[m] EXCEPT !.access = NoToken].refresh = mem[m].refresh
    BY <1>0, Tokens DEF ManagerTypes, Memory
  <2>5. \A n \in Manager : mem'[n].refresh = mem[n].refresh
    BY <1>0, <2>3, <2>4 DEF ManagerTypes
  <2>6. ManagerTypes'
    BY <1>0, <1>4, <2>3, <2>4 DEF Unauthorized, ManagerTypes, Memory
  <2> QED
    BY <1>0, <1>4, <2>2, <2>5, <2>6, QuietStep DEF Unauthorized, env, history, WorldTypes
<1> QED
  BY <1>1, <1>2, <1>3, <1>4

LEMMA LoadStep == ASSUME Inv, NEW m \in Manager, Load(m) PROVE Inv'
<1> USE DEF Inv
<1>0. WorldTypes /\ ManagerTypes /\ GateTypes /\ CallerTypes
  BY TypesApart
<1>1. Loaded(mem[m]) \in Memory /\ (row = NoToken => Loaded(mem[m]).refresh = mem[m].refresh)
  BY <1>0, LoadedMemory DEF ManagerTypes
<1>2. ManagerTypes' /\ (row = NoToken => \A n \in Manager : mem'[n].refresh = mem[n].refresh)
  BY <1>0, <1>1 DEF Load, ManagerTypes
<1>3. CallerTypes'
  BY <1>0, Tokens DEF Load, CallerTypes
<1> QED
  BY <1>0, <1>2, <1>3, QuietStep DEF Load, env, history, WorldTypes

LEMMA ClockStep == ASSUME Inv, Expire \/ Revoke PROVE Inv'
<1> USE DEF Inv
<1>0. WorldTypes /\ ManagerTypes /\ GateTypes /\ CallerTypes
  BY TypesApart
<1>1. issued \in 0..MaxToken
  BY <1>0, ManagerAssumption DEF WorldTypes, Token
<1> QED
  BY <1>0, <1>1, QuietStep DEF Expire, Revoke, history, WorldTypes, ManagerTypes, CallerTypes

-----------------------------------------------------------------------------
\* A refresh past its turn goes on to o, a phase past its turn; o speaks of the
\* credentials as they are afterwards.
LEMMA AdvanceStep ==
  ASSUME Inv, NEW m \in Manager, gate # <<>>, Head(gate) = m, op[m].phase # "none",
         row # NoToken, ~revoked[m], WorldTypes', ManagerTypes',
         UNCHANGED <<row, gate, revoked, req>>, row <= issued',
         \A t \in answered' : t < issued',
         NEW o \in Op, o.phase # "none", op' = [op EXCEPT ![m] = o],
         /\ o.phase = "sent" => o.token = row
         /\ o.phase = "used" => o.token # NoToken /\ o.token < issued'
         /\ o.phase = "writing" => o.token = issued'
  PROVE  Inv'
<1> USE DEF Inv
<1>0. WorldTypes /\ ManagerTypes /\ GateTypes /\ CallerTypes
  BY TypesApart
<1>1. /\ GateTypes' /\ GateKept' /\ op'[m] = o
      /\ \A n \in Manager \ {m} : op'[n] = op[n] /\ ~Busy(n)'
  BY <1>0, TurnKept
<1>2. Connected'
  BY <1>1 DEF Connected
<1>3. \A n \in Manager \ {m} : op'[n].phase \notin {"sent", "used", "writing"}
  BY <1>1 DEF Busy
<1>4. Ordered'
  BY <1>1, <1>3 DEF Ordered
<1>5. TypeOK'
  <2>1. (TypeOK <=> WorldTypes /\ ManagerTypes /\ GateTypes /\ CallerTypes)'
    BY TypesApart, PTL
  <2>2. CallerTypes'
    BY <1>0 DEF CallerTypes
  <2> QED
    BY <1>1, <2>1, <2>2
<1> QED
  BY <1>1, <1>2, <1>4, <1>5

\* The turn of a refresh, or of a logout, is over, and nobody is past its turn.
LEMMA OverStep ==
  ASSUME Inv, GateTypes', GateKept', \A n \in Manager : ~Busy(n)',
         WorldTypes', ManagerTypes', CallerTypes',
         row' <= issued', \A t \in answered' : t < issued',
         \A n \in Manager : row' = NoToken /\ ~revoked'[n] => mem'[n].refresh = NoToken
  PROVE  Inv'
<1>1. TypeOK'
  <2>1. (TypeOK <=> WorldTypes /\ ManagerTypes /\ GateTypes /\ CallerTypes)'
    BY TypesApart, PTL
  <2> QED
    BY <2>1
<1>2. \A n \in Manager : op'[n].phase \notin {"sent", "used", "writing"}
  BY DEF Busy
<1> QED
  BY <1>1, <1>2 DEF Inv, Connected, Ordered

LEMMA RefreshStep == ASSUME Inv, NEW m \in Manager, Refresh(m) PROVE Inv'
<1> USE DEF Inv
<1>0. WorldTypes /\ ManagerTypes /\ GateTypes /\ CallerTypes
  BY TypesApart
<1>1. gate # <<>> /\ Head(gate) = m /\ op[m].phase # "none"
  BY DEF Refresh, Reread, Exchange, Receive, Falter, Fail, Backoff, Store, StoreError, Holds
<1>2. op[m].phase # "queued" => row # NoToken /\ ~revoked[m]
  BY <1>1 DEF Connected, Busy
<1>3. \A n \in Manager : Busy(n) => n = m
  BY <1>0, <1>1, OneBusy
<1>4. row <= issued /\ (\A t \in answered : t < issued) /\ issued \in Nat /\ MaxToken \in Nat
  BY <1>0, Tokens, ManagerAssumption DEF Ordered, WorldTypes
<1>5. op[m] \in Op /\ mem[m] \in Memory
  BY <1>0 DEF GateTypes, ManagerTypes
<1>6. ASSUME NEW ok \in BOOLEAN, NEW memory \in Memory, End(m, ok, memory),
             \/ Settled(m, ok) \/ UNCHANGED <<forced, rejected>>
      PROVE  /\ GateTypes' /\ GateKept' /\ \A n \in Manager : ~Busy(n)'
             /\ CallerTypes'
             /\ forced' \in [Manager -> BOOLEAN] /\ rejected' \in [Manager -> Token \cup {NoToken}]
  <2>1. GateTypes' /\ GateKept' /\ \A n \in Manager : ~Busy(n)'
    BY <1>0, <1>1, <1>6, EndKept DEF End
  <2>2. req' = Told(m, ok, memory) /\ Told(m, ok, memory) \in [Request -> Req]
    BY <1>0, <1>6, CallersStay DEF End
  <2>3. forced' \in [Manager -> BOOLEAN] /\ rejected' \in [Manager -> Token \cup {NoToken}]
    BY <1>0, <1>6, Tokens DEF Settled, ManagerTypes
  <2> QED
    BY <2>1, <2>2, <2>3 DEF CallerTypes
<1>7. CASE Reread(m)
  <2> DEFINE now == IF revoked[m] THEN Wiped(mem[m]) ELSE Loaded(mem[m])
             adopt == ~revoked[m] /\ Adoptable(m, now)
  <2>1. /\ now \in Memory
        /\ row = NoToken \/ revoked[m] => now.refresh = NoToken
        /\ row # NoToken /\ ~revoked[m] => now.refresh = row
    BY <1>0, <1>5, LoadedMemory DEF Connected
  <2>2. mem' = [mem EXCEPT ![m] = now] /\ UNCHANGED <<env, row, revoked, history>>
    BY <1>7 DEF Reread
  <2>3. CASE adopt \/ now.refresh = NoToken
    <3>1. End(m, adopt, now) /\ Settled(m, adopt) /\ adopt \in BOOLEAN
      BY <1>7, <2>3 DEF Reread
    <3> HIDE DEF now, adopt
    <3>2. GateTypes' /\ GateKept' /\ (\A n \in Manager : ~Busy(n)') /\ CallerTypes' /\ ManagerTypes'
      BY <1>0, <1>6, <2>1, <2>2, <3>1 DEF ManagerTypes
    <3>3. \A n \in Manager : row' = NoToken /\ ~revoked'[n] => mem'[n].refresh = NoToken
      BY <1>0, <2>1, <2>2 DEF Connected, ManagerTypes
    <3> QED
      BY <1>0, <1>4, <2>2, <3>2, <3>3, OverStep DEF env, history, WorldTypes
  <2>4. CASE ~(adopt \/ now.refresh = NoToken)
    <3> DEFINE o == [phase |-> "sent", token |-> now.refresh]
    <3>1. op' = [op EXCEPT ![m] = o] /\ UNCHANGED <<gate, req, forced, rejected>>
      BY <1>7, <2>4 DEF Reread
    <3>2. now.refresh # NoToken
      BY <2>4
    <3> HIDE DEF now, adopt
    <3>3. row # NoToken /\ ~revoked[m] /\ now.refresh = row
      BY <2>1, <3>2
    <3>4. o \in Op /\ o.phase = "sent" /\ o.token = row
      BY <2>1, <3>3 DEF Op, OpPhase, Memory
    <3> HIDE DEF o
    <3>5. ManagerTypes'
      BY <1>0, <2>1, <2>2, <3>1 DEF ManagerTypes
    <3> QED
      BY <1>0, <1>1, <1>4, <2>2, <3>1, <3>3, <3>4, <3>5, AdvanceStep DEF env, history, WorldTypes
  <2> QED
    BY <2>3, <2>4
<1> DEFINE Goes(o) == op' = [op EXCEPT ![m] = o] /\ UNCHANGED <<row, gate, revoked, req, forced, rejected>>
<1>8. ASSUME NEW phase \in OpPhase, Advance(m, phase)
      PROVE  /\ op' = [op EXCEPT ![m] = [phase |-> phase, token |-> op[m].token]]
             /\ [phase |-> phase, token |-> op[m].token] \in Op
  <2>1. op' = [op EXCEPT ![m] = [op[m] EXCEPT !.phase = phase]]
    BY <1>0, <1>8 DEF Advance, GateTypes
  <2>2. [op[m] EXCEPT !.phase = phase] = [phase |-> phase, token |-> op[m].token]
    BY <1>5 DEF Op
  <2> QED
    BY <1>5, <2>1, <2>2 DEF Op
<1>9. CASE Exchange(m)
  <2>0. op[m].phase = "sent" /\ op[m].token = row /\ UNCHANGED <<stale, dead, row, mem, forced, rejected, gate, revoked, req, history>>
    BY <1>9 DEF Exchange, Holds, Ordered
  <2>1. CASE op[m].token = issued
    <3> DEFINE o == [phase |-> "used", token |-> op[m].token]
    <3>1. issued' = issued + 1 /\ issued < MaxToken /\ Advance(m, "used")
      BY <1>9, <2>1 DEF Exchange
    <3>2. op' = [op EXCEPT ![m] = o] /\ o \in Op /\ o.phase = "used" /\ o.token = issued /\ o.token # NoToken
      BY <1>0, <1>8, <2>1, <3>1, Tokens DEF OpPhase, WorldTypes
    <3> HIDE DEF o
    <3>3. issued' \in Token /\ row <= issued' /\ (\A t \in answered' : t < issued') /\ issued < issued'
      BY <1>0, <1>4, <2>0, <2>1, <3>1, Tokens DEF Token, history, WorldTypes
    <3>4. WorldTypes' /\ ManagerTypes'
      BY <1>0, <2>0, <3>3 DEF WorldTypes, ManagerTypes, history
    <3> QED
      BY <1>1, <1>2, <2>0, <3>2, <3>3, <3>4, AdvanceStep
  <2>2. CASE op[m].token # issued
    <3> DEFINE o == [phase |-> "refused", token |-> op[m].token]
    <3>1. issued' = issued /\ Advance(m, "refused")
      BY <1>9, <2>2 DEF Exchange
    <3>2. op' = [op EXCEPT ![m] = o] /\ o \in Op /\ o.phase = "refused"
      BY <1>8, <3>1 DEF OpPhase
    <3> HIDE DEF o
    <3>4. WorldTypes' /\ ManagerTypes'
      BY <1>0, <2>0, <3>1 DEF WorldTypes, ManagerTypes, history
    <3> QED
      BY <1>1, <1>2, <1>4, <2>0, <3>1, <3>2, <3>4, AdvanceStep DEF history
  <2> QED
    BY <2>1, <2>2
<1>10. CASE Receive(m)
  <2> DEFINE now == [loaded |-> TRUE, access |-> issued, refresh |-> issued]
             o == [phase |-> "writing", token |-> issued]
  <2>1. /\ mem' = [mem EXCEPT ![m] = now] /\ answered' = answered \cup {op[m].token}
        /\ op' = [op EXCEPT ![m] = o] /\ UNCHANGED <<env, row, forced, rejected, gate, revoked, req, lost>>
        /\ op[m].phase = "used"
    BY <1>10 DEF Receive, Holds
  <2>2. now \in Memory /\ o \in Op /\ o.phase = "writing" /\ o.token = issued
    BY <1>0 DEF WorldTypes, Memory, Op, OpPhase
  <2>3. op[m].token < issued /\ issued \in Token
    BY <1>0, <2>1 DEF Ordered, WorldTypes
  <2> HIDE DEF now, o
  <2>4. op[m].token \in Token
    <3>1. op[m].token \in Token \cup {NoToken}
      BY <1>5 DEF Op
    <3>2. op[m].token # NoToken
      BY <2>1 DEF Ordered
    <3> QED
      BY <3>1, <3>2
  <2>5. WorldTypes' /\ ManagerTypes' /\ \A t \in answered' : t < issued'
    BY <1>0, <1>4, <2>1, <2>2, <2>3, <2>4 DEF WorldTypes, ManagerTypes, env
  <2> QED
    BY <1>1, <1>2, <1>4, <2>1, <2>2, <2>5, AdvanceStep DEF env
<1>11. CASE Falter(m)
  <2> DEFINE o == [phase |-> "backoff", token |-> op[m].token]
  <2>1. Advance(m, "backoff") /\ UNCHANGED <<env, row, mem, forced, rejected, gate, revoked, req, answered>>
        /\ lost' = (lost \/ op[m].phase = "used") /\ op[m].phase # "queued"
    BY <1>11 DEF Falter, Holds
  <2>2. op' = [op EXCEPT ![m] = o] /\ o \in Op /\ o.phase = "backoff"
    BY <1>8, <2>1 DEF OpPhase
  <2> HIDE DEF o
  <2>3. WorldTypes' /\ ManagerTypes'
    BY <1>0, <2>1 DEF WorldTypes, ManagerTypes, env
  <2> QED
    BY <1>1, <1>2, <1>4, <2>1, <2>2, <2>3, AdvanceStep DEF env
<1>12. CASE Fail(m) \/ StoreError(m)
  <2>1. End(m, FALSE, mem[m]) /\ UNCHANGED <<env, row, mem, forced, rejected, revoked>>
        /\ answered' \subseteq answered /\ lost' \in {TRUE, lost \/ op[m].phase = "used"}
    BY <1>12 DEF Fail, StoreError
  <2>2. GateTypes' /\ GateKept' /\ (\A n \in Manager : ~Busy(n)') /\ CallerTypes'
    BY <1>5, <1>6, <2>1
  <2>3. WorldTypes' /\ ManagerTypes'
    BY <1>0, <2>1 DEF WorldTypes, ManagerTypes, env
  <2> QED
    BY <1>4, <2>1, <2>2, <2>3, OverStep DEF Connected, env
<1>13. CASE Backoff(m)
  <2> DEFINE now == Loaded(mem[m])
             changed == ~Expired(now) /\ now.refresh # op[m].token
  <2>1. now \in Memory /\ row # NoToken
    BY <1>0, <1>2, <1>5, <1>13, LoadedMemory DEF Backoff, Holds
  <2>2. mem' = [mem EXCEPT ![m] = now] /\ End(m, changed, now) /\ Settled(m, changed) /\ changed \in BOOLEAN
        /\ UNCHANGED <<env, row, revoked, history>>
    BY <1>13 DEF Backoff
  <2> HIDE DEF now, changed
  <2>3. GateTypes' /\ GateKept' /\ (\A n \in Manager : ~Busy(n)') /\ CallerTypes' /\ ManagerTypes'
    BY <1>0, <1>6, <2>1, <2>2 DEF ManagerTypes
  <2> QED
    BY <1>0, <1>4, <2>1, <2>2, <2>3, OverStep DEF env, history, WorldTypes
<1>14. CASE Store(m)
  <2>1. row' = op[m].token /\ End(m, LongEnough(m), mem[m]) /\ Settled(m, LongEnough(m))
        /\ UNCHANGED <<env, mem, revoked, history>> /\ op[m].phase = "writing"
    BY <1>14 DEF Store, Holds
  <2>5. LongEnough(m) \in BOOLEAN
    BY DEF LongEnough
  <2>2. row' = issued /\ row' # NoToken
    BY <1>0, <2>1, Tokens DEF Ordered, WorldTypes
  <2>3. GateTypes' /\ GateKept' /\ (\A n \in Manager : ~Busy(n)') /\ CallerTypes' /\ ManagerTypes'
    BY <1>0, <1>5, <1>6, <2>1, <2>5 DEF ManagerTypes
  <2>4. WorldTypes'
    BY <1>0, <2>1, <2>2 DEF WorldTypes, env, history
  <2> QED
    BY <1>4, <2>1, <2>2, <2>3, <2>4, OverStep DEF env, history
<1> QED
  BY <1>7, <1>9, <1>10, <1>11, <1>12, <1>13, <1>14 DEF Refresh

\* Logout, login, a new manager, a new process.
LEMMA OtherStep ==
  ASSUME Inv, AskLogout \/ Disconnect \/ Login \/ Restart \/ \E m \in Manager : Rebuild(m)
  PROVE  Inv'
<1> USE DEF Inv
<1>0. WorldTypes /\ ManagerTypes /\ GateTypes /\ CallerTypes
  BY TypesApart
<1>1. row <= issued /\ (\A t \in answered : t < issued) /\ issued \in Nat /\ MaxToken \in Nat
  BY <1>0, Tokens, ManagerAssumption DEF Ordered, WorldTypes
<1>2. (TypeOK <=> WorldTypes /\ ManagerTypes /\ GateTypes /\ CallerTypes)'
  BY TypesApart, PTL
<1>3. CASE AskLogout
  <2>1. gate' = Append(gate, Logout) /\ Logout \notin Members(gate)
        /\ UNCHANGED <<env, row, mem, forced, rejected, op, revoked, req, history>>
    BY <1>3 DEF AskLogout, Pending, Members
  <2>2. /\ gate' \in Seq(Manager \cup {Logout}) /\ Distinct(gate')
        /\ Members(gate') = Members(gate) \cup {Logout}
        /\ gate # <<>> => Head(gate') = Head(gate)
    BY <1>0, <2>1, JoinedQueue DEF GateTypes
  <2>3. Members(<<>>) = {} /\ \A m \in Manager : m # Logout
    BY ManagerAssumption DEF Members
  <2>4. ASSUME NEW m \in Manager, Busy(m) PROVE m \in Members(gate) /\ Head(gate') = m
    BY <2>2, <2>3, <2>4 DEF GateKept, Busy
  <2>5. GateKept'
    BY <2>1, <2>2, <2>3, <2>4 DEF GateKept, Busy
  <2>6. Connected' /\ Ordered'
    BY <2>1 DEF Connected, Ordered, Busy, env, history
  <2> QED
    BY <1>0, <1>2, <2>1, <2>2, <2>5, <2>6
    DEF WorldTypes, ManagerTypes, GateTypes, CallerTypes, env, history
<1>4. CASE Disconnect
  <2>1. GateTypes' /\ GateKept' /\ \A n \in Manager : ~Busy(n)'
    BY <1>0, <1>4, LogoutKept DEF Disconnect
  <2>2. \/ row' = NoToken /\ revoked' = [m \in Manager |-> TRUE]
        \/ UNCHANGED <<row, revoked>>
    BY <1>4 DEF Disconnect
  <2>3. UNCHANGED <<env, mem, forced, rejected, op, req, history>>
    BY <1>4 DEF Disconnect
  <2>4. WorldTypes' /\ ManagerTypes' /\ CallerTypes'
    BY <1>0, <2>2, <2>3, Tokens DEF WorldTypes, ManagerTypes, CallerTypes, env, history
  <2>5. \A n \in Manager : row' = NoToken /\ ~revoked'[n] => mem'[n].refresh = NoToken
    BY <2>2, <2>3 DEF Connected
  <2>6. row' <= issued'
    BY <1>1, <2>2, <2>3 DEF env, NoToken
  <2> QED
    BY <1>1, <2>1, <2>3, <2>4, <2>5, <2>6, OverStep DEF env, history
<1>5. CASE Login
  <2>1. /\ row = NoToken /\ issued < MaxToken /\ issued' = issued + 1 /\ row' = issued + 1 /\ lost' = FALSE
        /\ UNCHANGED <<stale, dead, mem, forced, rejected, op, gate, revoked, req, answered>>
    BY <1>5 DEF Login
  <2>2. issued + 1 \in Token /\ issued + 1 # NoToken /\ issued + 1 <= issued + 1
        /\ \A t \in answered : t \in Nat /\ t < issued + 1
    BY <1>0, <1>1, <2>1, Tokens DEF Token, NoToken, WorldTypes
  <2>3. WorldTypes' /\ ManagerTypes' /\ GateTypes' /\ CallerTypes'
    BY <1>0, <2>1, <2>2 DEF WorldTypes, ManagerTypes, GateTypes, CallerTypes
  <2>4. \A n \in Manager : ~Busy(n)
    BY <2>1 DEF Connected
  <2>5. GateKept' /\ \A n \in Manager : ~Busy(n)'
    BY <2>1, <2>4 DEF GateKept, Busy
  <2> QED
    BY <2>1, <2>2, <2>3, <2>5, OverStep
<1>6. CASE Restart
  <2>1. /\ mem' = [m \in Manager |-> EmptyMemory] /\ op' = [m \in Manager |-> NoOp] /\ gate' = <<>>
        /\ answered' = {} /\ UNCHANGED <<env, row>>
    BY <1>6 DEF Restart
  <2>2. WorldTypes' /\ ManagerTypes' /\ CallerTypes'
    BY <1>0, <1>6, Tokens DEF Restart, env, WorldTypes, ManagerTypes, CallerTypes
  <2>3. GateTypes' /\ Members(gate') = {}
    BY <2>1, Tokens DEF GateTypes, Distinct, Members
  <2>4. \A n \in Manager : ~Busy(n)' /\ op'[n].phase = "none" /\ mem'[n].refresh = NoToken
    BY <2>1, Tokens DEF Busy
  <2>5. GateKept'
    BY <2>3, <2>4 DEF GateKept
  <2> QED
    BY <1>1, <2>1, <2>2, <2>3, <2>4, <2>5, OverStep DEF env
<1>7. ASSUME NEW m \in Manager, Rebuild(m) PROVE Inv'
  <2>1. /\ op[m].phase = "none" /\ revoked' = [revoked EXCEPT ![m] = FALSE]
        /\ mem' = [mem EXCEPT ![m] = EmptyMemory]
        /\ UNCHANGED <<env, row, op, gate, req, answered, lost>>
    BY <1>7 DEF Rebuild
  <2>2. WorldTypes' /\ ManagerTypes' /\ CallerTypes' /\ GateTypes'
    BY <1>0, <1>7, Tokens DEF Rebuild, env, WorldTypes, ManagerTypes, CallerTypes, GateTypes
  <2>3. GateKept' /\ Ordered'
    BY <2>1 DEF GateKept, Ordered, Busy, env
  <2>4. revoked'[m] = FALSE /\ mem'[m].refresh = NoToken
        /\ \A n \in Manager \ {m} : revoked'[n] = revoked[n] /\ mem'[n] = mem[n]
    BY <1>0, <2>1, Tokens DEF ManagerTypes
  <2>5. Connected'
    BY <2>1, <2>4 DEF Connected, Busy
  <2> QED
    BY <1>2, <2>2, <2>3, <2>5
<1> QED
  BY <1>3, <1>4, <1>5, <1>6, <1>7

LEMMA InvInit == Init => Inv
<1> SUFFICES ASSUME Init PROVE Inv
  OBVIOUS
<1>1. 1 \in Token /\ 0 \in 0..MaxToken /\ 1 # NoToken
  BY ManagerAssumption DEF Token, NoToken
<1>2. WorldTypes /\ ManagerTypes /\ CallerTypes
  BY <1>1, Tokens DEF Init, WorldTypes, ManagerTypes, CallerTypes
<1>3. GateTypes /\ Members(gate) = {}
  BY Tokens DEF Init, GateTypes, Distinct, Members
<1>4. \A n \in Manager : ~Busy(n) /\ op[n].phase = "none"
  BY Tokens DEF Init, Busy
<1>5. TypeOK
  BY <1>2, <1>3, TypesApart
<1>6. GateKept /\ Connected
  BY <1>1, <1>3, <1>4, Tokens DEF GateKept, Connected, Init
<1>7. Ordered
  BY <1>4 DEF Ordered, Init
<1> QED
  BY <1>5, <1>6, <1>7 DEF Inv

LEMMA InvStep == Inv /\ [Next]_vars => Inv'
<1> SUFFICES ASSUME Inv, [Next]_vars PROVE Inv'
  OBVIOUS
<1>1. CASE UNCHANGED vars
  BY <1>1 DEF vars, Inv, TypeOK, GateKept, Connected, Ordered, Busy
<1> QED
  BY <1>1, CallerStep, LoadStep, RefreshStep, ClockStep, OtherStep DEF Next

\* The inductive invariant: the gate, the row and the order of credentials.
THEOREM Invariant == Spec => []Inv
  BY InvInit, InvStep, PTL DEF Spec

\* Types, and nobody is in the gate's queue twice.
THEOREM TypeCorrect == Spec => []TypeOK
<1>1. Inv => TypeOK
  BY DEF Inv
<1> QED
  BY <1>1, Invariant, PTL

\* disconnectOAuthCredential takes its turn at the gate: nothing but a login
\* brings a row back.
THEOREM LogoutsAreFinal == Spec => LogoutIsFinal
<1>1. Inv /\ [Next]_vars
        => [row = NoToken /\ row' # NoToken => UNCHANGED op /\ row' > issued]_vars
  <2> SUFFICES ASSUME Inv, [Next]_vars, row = NoToken, row' # NoToken
               PROVE  UNCHANGED op /\ row' > issued
    OBVIOUS
  <2>1. CASE Login
    <3>1. issued \in Nat
      BY Tokens, TypesApart DEF Inv, WorldTypes
    <3> QED
      BY <2>1, <3>1 DEF Login
  <2>2. ASSUME NEW m \in Manager, Store(m) PROVE FALSE
    BY <2>2 DEF Inv, Connected, Busy, Store, Holds
  <2> QED
    BY <2>1, <2>2
    DEF Next, Refresh, vars, Ask, Proceed, Abort, Done, Unauthorized, Load, Rebuild, Reread, Exchange,
        Receive, Falter, Fail, Backoff, StoreError, AskLogout, Disconnect, Restart, Expire, Revoke
<1> QED
  BY <1>1, Invariant, PTL DEF Spec, LogoutIsFinal

-----------------------------------------------------------------------------
\* With a store that writes what it is given, an exchanged row is replaced before
\* the next refresh has its turn.
LEMMA ReplacedStep ==
  Inv /\ Replaced /\ [Next]_vars => Replaced'
<1> SUFFICES ASSUME Inv, Replaced, [Next]_vars PROVE Replaced'
  OBVIOUS
<1>0. WorldTypes /\ ManagerTypes /\ GateTypes /\ CallerTypes
  BY TypesApart DEF Inv
<1>1. ASSUME UNCHANGED <<row, answered>>, \A m \in Manager : op[m].phase = "writing" => op'[m].phase = "writing"
      PROVE  Replaced'
  BY <1>1 DEF Replaced
<1>2. ASSUME NEW m \in Manager, Joined(m)
      PROVE  \A n \in Manager : op[n].phase = "writing" => op'[n].phase = "writing"
  BY <1>0, <1>2, JoinedKept DEF Inv
<1>3. ASSUME NEW r \in Request, Ask(r) \/ Proceed(r) \/ Abort(r) \/ Done(r) \/ Unauthorized(r)
      PROVE  Replaced'
  <2>1. UNCHANGED <<row, answered>> /\ (UNCHANGED <<op, gate>> \/ Joined(ManagerOf[r]))
    BY <1>3 DEF Ask, Proceed, Abort, Done, Unauthorized, Decide, history
  <2>2. ManagerOf[r] \in Manager
    BY ManagerAssumption
  <2> QED
    BY <1>1, <1>2, <2>1, <2>2
<1>4. CASE UNCHANGED vars \/ AskLogout \/ Expire \/ Revoke \/ \E m \in Manager : Load(m) \/ Rebuild(m)
  BY <1>1, <1>4 DEF vars, AskLogout, Expire, Revoke, Load, Rebuild, history
<1>5. ASSUME NEW m \in Manager, Refresh(m) PROVE Replaced'
  <2>0. gate # <<>> /\ Head(gate) = m /\ \A n \in Manager : Busy(n) => n = m
    <3>1. gate # <<>> /\ Head(gate) = m
      BY <1>5 DEF Refresh, Reread, Exchange, Receive, Falter, Fail, Backoff, Store, StoreError, Holds
    <3> QED
      BY <1>0, <3>1, OneBusy DEF Inv
  <2>1. CASE op[m].phase # "writing" /\ UNCHANGED <<row, answered>>
    <3>1. \A n \in Manager : op[n].phase # "writing"
      BY <2>0, <2>1 DEF Busy
    <3> QED
      BY <2>1, <3>1 DEF Replaced
  <2>2. CASE Receive(m)
    <3>1. op' = [op EXCEPT ![m] = [phase |-> "writing", token |-> issued]]
      BY <2>2 DEF Receive
    <3>2. op'[m].phase = "writing"
      BY <1>0, <3>1 DEF GateTypes
    <3> QED
      BY <3>2 DEF Replaced
  <2>3. CASE Store(m)
    <3>1. row' = issued /\ answered' = answered
      BY <2>3 DEF Store, Holds, history, Inv, Ordered
    <3>2. issued \notin answered
      BY <1>0, Tokens DEF Inv, Ordered, WorldTypes
    <3> QED
      BY <3>1, <3>2 DEF Replaced
  <2>4. CASE StoreError(m)
    BY <2>4 DEF StoreError, Replaced
  <2> QED
    BY <1>5, <2>1, <2>2, <2>3, <2>4
    DEF Refresh, Reread, Exchange, Falter, Fail, Backoff, Holds, history
<1>6. CASE Disconnect
  <2>1. NoToken \notin answered
    BY <1>0, Tokens DEF WorldTypes
  <2> QED
    BY <1>1, <1>6, <2>1 DEF Disconnect, history, Replaced
<1>7. CASE Login
  <2>1. issued + 1 \notin answered
    <3>1. issued \in Nat /\ \A t \in answered : t \in Nat /\ t < issued
      BY <1>0, Tokens DEF Inv, Ordered, WorldTypes
    <3> QED
      BY <3>1
  <2> QED
    BY <1>7, <2>1 DEF Login, Replaced
<1>8. CASE Restart
  BY <1>8 DEF Restart, Replaced
<1> QED
  BY <1>3, <1>4, <1>5, <1>6, <1>7, <1>8 DEF Next

\* doRefresh: no refresh token goes out again after the process has seen it
\* exchanged, unless the store failed to write what came for it.
THEOREM NothingReplayed ==
  Spec => []NoReplay
<1>1. Init => Replaced
  BY DEF Init, Replaced
<1>2. Spec => []Replaced
  BY <1>1, ReplacedStep, Invariant, PTL DEF Spec
<1>3. Inv /\ Replaced => NoReplay
  <2> SUFFICES ASSUME Inv, Replaced, NEW m \in Manager, op[m].phase = "sent", op[m].token \in answered
               PROVE  FALSE
    BY DEF NoReplay
  <2>1. PICK n \in Manager : op[n].phase = "writing"
    BY DEF Inv, Ordered, Replaced
  <2>2. Busy(m) /\ Busy(n) /\ m # n
    BY <2>1 DEF Busy
  <2> QED
    BY <2>2 DEF Inv, GateKept
<1> QED
  BY <1>2, <1>3, Invariant, PTL

-----------------------------------------------------------------------------
\* No step leaves a rotation behind.
LEMMA RotationStep ==
  Inv /\ RotationKept /\ [Next]_vars => RotationKept'
<1> SUFFICES ASSUME Inv, RotationKept, [Next]_vars PROVE RotationKept'
  OBVIOUS
<1> DEFINE OnItsWay(m) == op[m].phase \in {"used", "writing"}
<1>0. WorldTypes /\ ManagerTypes /\ GateTypes /\ CallerTypes
  BY TypesApart DEF Inv
<1>1. ASSUME UNCHANGED <<row, issued>>, lost => lost', \A m \in Manager : OnItsWay(m) => OnItsWay(m)'
      PROVE  RotationKept'
  BY <1>1 DEF RotationKept
<1>2. ASSUME NEW m \in Manager, Joined(m)
      PROVE  \A n \in Manager : OnItsWay(n) => OnItsWay(n)'
  BY <1>0, <1>2, JoinedKept DEF Inv
<1>3. ASSUME NEW r \in Request, Ask(r) \/ Proceed(r) \/ Abort(r) \/ Done(r) \/ Unauthorized(r)
      PROVE  RotationKept'
  <2>1. UNCHANGED <<row, issued, lost>> /\ (UNCHANGED <<op, gate>> \/ Joined(ManagerOf[r]))
    BY <1>3 DEF Ask, Proceed, Abort, Done, Unauthorized, Decide, env, history
  <2>2. ManagerOf[r] \in Manager
    BY ManagerAssumption
  <2> QED
    BY <1>1, <1>2, <2>1, <2>2
<1>4. CASE UNCHANGED vars \/ AskLogout \/ Expire \/ Revoke \/ \E m \in Manager : Load(m) \/ Rebuild(m)
  BY <1>1, <1>4 DEF vars, AskLogout, Expire, Revoke, Load, Rebuild, env, history
<1>5. ASSUME NEW m \in Manager, Refresh(m) PROVE RotationKept'
  <2>1. gate # <<>> /\ Head(gate) = m /\ \A n \in Manager : Busy(n) => n = m
    <3>1. gate # <<>> /\ Head(gate) = m
      BY <1>5 DEF Refresh, Reread, Exchange, Receive, Falter, Fail, Backoff, Store, StoreError, Holds
    <3> QED
      BY <1>0, <3>1, OneBusy DEF Inv
  <2>2. \A n \in Manager : OnItsWay(n) => n = m
    BY <2>1 DEF Busy
  <2>3. ASSUME UNCHANGED <<row, issued>>, lost => lost', OnItsWay(m) => lost' PROVE RotationKept'
    BY <2>2, <2>3 DEF RotationKept
  <2>4. ASSUME NEW o, OnItsWay(m)' PROVE RotationKept'
    BY <2>4 DEF RotationKept
  <2>5. CASE Reread(m) \/ Falter(m) \/ Fail(m) \/ Backoff(m)
    <3>1. UNCHANGED <<row, issued>> /\ (lost => lost')
      <4>1. UNCHANGED <<row, issued>>
        BY <2>5 DEF Reread, Falter, Fail, Backoff, env
      <4>2. lost' = lost \/ lost' = (lost \/ op[m].phase = "used")
        BY <2>5 DEF Reread, Falter, Fail, Backoff, history
      <4>3. lost => lost'
        BY <4>2, Zenon
      <4> QED
        BY <4>1, <4>3
    <3>2. OnItsWay(m) => lost'
      BY <2>5 DEF Reread, Falter, Fail, Backoff, Holds
    <3> QED
      BY <2>3, <3>1, <3>2
  <2>6. CASE Exchange(m)
    <3>1. CASE op[m].token = issued
      <4>1. op' = [op EXCEPT ![m] = [op[m] EXCEPT !.phase = "used"]]
        BY <1>0, <2>6, <3>1 DEF Exchange, Advance, GateTypes
      <4>2. op'[m].phase = "used"
        BY <1>0, <4>1 DEF GateTypes, Op
      <4> QED
        BY <4>2 DEF RotationKept
    <3>2. CASE op[m].token # issued
      BY <2>3, <2>6, <3>2 DEF Exchange, Holds, history
    <3> QED
      BY <3>1, <3>2
  <2>7. CASE Receive(m)
    <3>1. op' = [op EXCEPT ![m] = [phase |-> "writing", token |-> issued]]
      BY <2>7 DEF Receive
    <3>2. op'[m].phase = "writing"
      BY <1>0, <3>1 DEF GateTypes
    <3> QED
      BY <3>2 DEF RotationKept
  <2>8. CASE Store(m)
    BY <2>8 DEF Store, Holds, env, Inv, Ordered, RotationKept
  <2>9. CASE StoreError(m)
    BY <2>9 DEF StoreError, RotationKept
  <2> QED
    BY <1>5, <2>5, <2>6, <2>7, <2>8, <2>9 DEF Refresh
<1>6. CASE Disconnect
  <2>1. CASE row' = NoToken
    BY <2>1 DEF RotationKept
  <2>2. CASE UNCHANGED row
    BY <1>1, <1>6, <2>2 DEF Disconnect, env, history
  <2> QED
    BY <1>6, <2>1, <2>2 DEF Disconnect
<1>7. CASE Login
  BY <1>7 DEF Login, RotationKept
<1>8. CASE Restart
  BY <1>8 DEF Restart, RotationKept, env
<1> QED
  BY <1>3, <1>4, <1>5, <1>6, <1>7, <1>8 DEF Next

\* doRefresh stores what the endpoint rotated before anything else can come in
\* between, unless the store fails to write it.
THEOREM RotationsKept ==
  Spec => []RotationKept
<1>1. Init => RotationKept
  BY DEF Init, RotationKept
<1> QED
  BY <1>1, RotationStep, Invariant, PTL DEF Spec

-----------------------------------------------------------------------------
\* With managers that all check the lease of a refreshed token, whoever is told
\* a token is told one.
LEMMA HeaderStep ==
  ASSUME Enforcing = Manager
  PROVE  Inv /\ HeaderHasToken /\ [Next]_vars => HeaderHasToken'
<1> SUFFICES ASSUME Inv, HeaderHasToken, [Next]_vars PROVE HeaderHasToken'
  OBVIOUS
<1>0. WorldTypes /\ ManagerTypes /\ GateTypes /\ CallerTypes
  BY TypesApart DEF Inv
<1>1. \A memory \in Memory : ~Expired(memory) => memory.access # NoToken
  <2>1. stale \in Nat
    BY <1>0 DEF WorldTypes
  <2> QED
    BY <2>1, Tokens DEF Expired, Memory, NoToken
<1>2. ASSUME \A r \in Request : req'[r].phase = "calling" => req'[r] = req[r] \/ req'[r].token # NoToken
      PROVE  HeaderHasToken'
  BY <1>2 DEF HeaderHasToken
<1>3. ASSUME NEW r \in Request, \A q \in Request \ {r} : req'[q] = req[q],
             req'[r].phase = "calling" => req'[r].token # NoToken
      PROVE  HeaderHasToken'
  BY <1>2, <1>3
<1>4. ASSUME NEW r \in Request, Decide(r) PROVE HeaderHasToken'
  <2>1. mem[ManagerOf[r]] \in Memory /\ req[r] \in Req
    BY <1>0, ManagerAssumption DEF ManagerTypes, CallerTypes
  <2>2. CASE ~Expired(mem[ManagerOf[r]]) /\ ~forced[ManagerOf[r]]
    <3>1. req' = [req EXCEPT ![r] = [req[r] EXCEPT !.phase = "calling", !.token = mem[ManagerOf[r]].access]]
      BY <1>4, <2>2 DEF Decide
    <3>2. req'[r].token = mem[ManagerOf[r]].access
      BY <1>0, <2>1, <3>1 DEF CallerTypes, Req
    <3> QED
      BY <1>0, <1>1, <1>3, <2>1, <2>2, <3>1, <3>2 DEF CallerTypes
  <2>3. CASE ~(~Expired(mem[ManagerOf[r]]) /\ ~forced[ManagerOf[r]])
    <3>1. req' = [req EXCEPT ![r] = [req[r] EXCEPT !.phase = "refreshing", !.token = NoToken]]
      BY <1>4, <2>3 DEF Decide
    <3>2. req'[r].phase = "refreshing"
      BY <1>0, <2>1, <3>1 DEF CallerTypes, Req
    <3> QED
      BY <1>0, <1>3, <3>1, <3>2 DEF CallerTypes
  <2> QED
    BY <2>2, <2>3
<1>5. IdleReq.phase = "idle"
  BY DEF IdleReq
<1>6. ASSUME NEW r \in Request, Ask(r) \/ Proceed(r) \/ Abort(r) \/ Done(r) \/ Unauthorized(r)
      PROVE  HeaderHasToken'
  <2>1. CASE Decide(r)
    BY <1>4, <2>1
  <2>2. CASE \E q \in {IdleReq, [phase |-> "refreshing", token |-> NoToken, retried |-> TRUE],
                       [req[r] EXCEPT !.phase = "loading"]} : req' = [req EXCEPT ![r] = q]
    <3>1. [req[r] EXCEPT !.phase = "loading"].phase = "loading"
      BY <1>0 DEF CallerTypes, Req
    <3>2. PICK q : q.phase # "calling" /\ req' = [req EXCEPT ![r] = q]
      BY <1>5, <2>2, <3>1
    <3>3. req'[r] = q /\ \A d \in Request \ {r} : req'[d] = req[d]
      BY <1>0, <3>2 DEF CallerTypes
    <3> QED
      BY <1>3, <3>2, <3>3
  <2> QED
    BY <1>0, <1>6, <2>1, <2>2 DEF Ask, Proceed, Abort, Done, Unauthorized, CallerTypes
<1>7. ASSUME NEW m \in Manager, NEW ok, NEW memory, End(m, ok, memory), ok => memory.access # NoToken
      PROVE  HeaderHasToken'
  <2> SUFFICES ASSUME NEW r \in Request, req'[r].phase = "calling"
               PROVE  req'[r] = req[r] \/ req'[r].token # NoToken
    BY <1>2
  <2>1. \/ req'[r] = req[r] \/ req'[r] = IdleReq
        \/ ok /\ req'[r] = [req[r] EXCEPT !.phase = "calling", !.token = memory.access]
    BY <1>7 DEF End, Told
  <2>2. [req[r] EXCEPT !.phase = "calling", !.token = memory.access].token = memory.access
    BY <1>0 DEF CallerTypes, Req
  <2> QED
    BY <1>5, <1>7, <2>1, <2>2
<1>8. ASSUME NEW m \in Manager, Refresh(m) PROVE HeaderHasToken'
  <2>0. mem[m] \in Memory
    BY <1>0 DEF ManagerTypes
  <2>1. CASE UNCHANGED req
    BY <1>2, <2>1
  <2>2. CASE Fail(m) \/ StoreError(m)
    BY <1>7, <2>2 DEF Fail, StoreError
  <2>3. CASE Reread(m)
    <3> DEFINE now == IF revoked[m] THEN Wiped(mem[m]) ELSE Loaded(mem[m])
               adopt == ~revoked[m] /\ Adoptable(m, now)
    <3>1. now \in Memory /\ (adopt => ~Expired(now))
      BY <1>0, <2>0, LoadedMemory DEF Adoptable
    <3>2. End(m, adopt, now) \/ UNCHANGED req
      BY <2>3 DEF Reread
    <3> HIDE DEF now, adopt
    <3> QED
      BY <1>1, <1>7, <2>1, <3>1, <3>2
  <2>4. CASE Backoff(m)
    <3> DEFINE now == Loaded(mem[m])
               changed == ~Expired(now) /\ now.refresh # op[m].token
    <3>1. now \in Memory /\ (changed => ~Expired(now)) /\ End(m, changed, now)
      BY <1>0, <2>0, <2>4, LoadedMemory DEF Backoff
    <3> HIDE DEF now, changed
    <3> QED
      BY <1>1, <1>7, <3>1
  <2>5. CASE Store(m)
    BY <1>1, <1>7, <2>0, <2>5 DEF Store, LongEnough
  <2> QED
    BY <1>8, <2>1, <2>2, <2>3, <2>4, <2>5 DEF Refresh, Exchange, Receive, Falter
<1>9. CASE \/ UNCHANGED vars \/ AskLogout \/ Expire \/ Revoke \/ Disconnect \/ Login
           \/ \E m \in Manager : Rebuild(m)
  BY <1>2, <1>9 DEF vars, AskLogout, Expire, Revoke, Disconnect, Login, Rebuild
<1>10. CASE Restart \/ \E m \in Manager : Load(m)
  <2> SUFFICES ASSUME NEW r \in Request PROVE req'[r] = req[r] \/ req'[r] = IdleReq
    BY <1>2, <1>5
  <2> QED
    BY <1>10 DEF Restart, Load
<1> QED
  BY <1>6, <1>8, <1>9, <1>10 DEF Next

\* getAuthHeader: no request goes out without a token.
THEOREM HeadersHaveTokens ==
  ASSUME Enforcing = Manager
  PROVE  Spec => []HeaderHasToken
<1>1. Init => HeaderHasToken
  BY DEF Init, HeaderHasToken, IdleReq
<1> QED
  BY <1>1, HeaderStep, Invariant, PTL DEF Spec

=============================================================================
