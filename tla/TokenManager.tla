---------------------------- MODULE TokenManager ----------------------------
(***************************************************************************)
(* The OAuth credential of one subscription account: the token managers of *)
(* a process that share it (createTokenManager with a preset grant), the   *)
(* refresh gate they queue at, the store row they share, and the token     *)
(* endpoint, which rotates the refresh token with every use and accepts    *)
(* each only once.                                                         *)
(*                                                                         *)
(* Credentials are numbered in the order they are issued; an access token  *)
(* and the refresh token issued with it have the same number, 0 is no      *)
(* token.  Tokens expire, and the upstream revokes access tokens, in the   *)
(* order they were issued.                                                 *)
(***************************************************************************)
EXTENDS Naturals, Sequences, FiniteSets

CONSTANTS Manager,     \* token managers of the account in this process
          Request,     \* callers, each sending one upstream request at a time
          ManagerOf,   \* the manager each caller uses
          Enforcing,   \* managers created with expirySkewMs (enforceRequestLease)
          StoreFails,  \* whether upsert may throw
          Logout,      \* the entry of disconnectOAuthCredential in the gate
          MaxToken     \* bound: credentials issued in a behaviour

ASSUME ManagerAssumption ==
  /\ ManagerOf \in [Request -> Manager]
  /\ Enforcing \subseteq Manager
  /\ StoreFails \in BOOLEAN
  /\ Logout \notin Manager
  /\ MaxToken \in Nat \ {0}

VARIABLES
  issued,    \* the newest credential: the only refresh token still good
  stale,     \* access tokens up to this one are past their expiry
  dead,      \* access tokens up to this one are rejected upstream
  row,       \* the store row, 0 when there is none
  mem,       \* manager -> what it has loaded
  forced,    \* manager -> forcedRefresh
  rejected,  \* manager -> invalidatedAccess
  op,        \* manager -> its refresh in flight (refreshing)
  gate,      \* who holds the refresh gate, and who waits for it
  revoked,   \* manager -> lease.revoked
  req,       \* request -> how far it is
  answered,  \* history: refresh tokens whose exchange this process saw succeed
  lost       \* history: a rotated credential did not reach the store

vars == <<issued, stale, dead, row, mem, forced, rejected, op, gate, revoked, req,
          answered, lost>>

env == <<issued, stale, dead>>
history == <<answered, lost>>

Token == 1..MaxToken
NoToken == 0

Memory == [loaded : BOOLEAN, access : Token \cup {NoToken}, refresh : Token \cup {NoToken}]
EmptyMemory == [loaded |-> FALSE, access |-> NoToken, refresh |-> NoToken]

\* "queued" at the gate; "sent" to the endpoint, which has "used" or "refused"
\* the token; "backoff" after a retryable failure; "writing" the new row.
OpPhase == {"none", "queued", "sent", "used", "refused", "backoff", "writing"}
Op == [phase : OpPhase, token : Token \cup {NoToken}]
NoOp == [phase |-> "none", token |-> NoToken]

Req == [phase : {"idle", "loading", "refreshing", "calling"},
        token : Token \cup {NoToken}, retried : BOOLEAN]
IdleReq == [phase |-> "idle", token |-> NoToken, retried |-> FALSE]

-----------------------------------------------------------------------------
\* isExpired: no access token, or one too close to its expiry.
Expired(memory) == memory.access <= stale

\* loadFromStore: a missing row leaves the memory as it is.
Loaded(memory) ==
  IF row = NoToken THEN [memory EXCEPT !.loaded = TRUE]
  ELSE [loaded |-> TRUE, access |-> row, refresh |-> row]

\* assertConnected, of a revoked manager.
Wiped(memory) == [memory EXCEPT !.access = NoToken, !.refresh = NoToken]

\* The caller joins the refresh in flight, or starts one and queues at the gate.
Joined(m) ==
  IF op[m].phase = "none"
  THEN /\ op' = [op EXCEPT ![m] = [phase |-> "queued", token |-> NoToken]]
       /\ gate' = Append(gate, m)
  ELSE UNCHANGED <<op, gate>>

\* What ensureFresh decides once the credential is loaded.
Decide(r) ==
  LET m == ManagerOf[r]
  IN  IF ~Expired(mem[m]) /\ ~forced[m]
      THEN /\ req' = [req EXCEPT ![r] = [@ EXCEPT !.phase = "calling", !.token = mem[m].access]]
           /\ UNCHANGED <<op, gate>>
      ELSE /\ req' = [req EXCEPT ![r] = [@ EXCEPT !.phase = "refreshing", !.token = NoToken]]
           /\ Joined(m)

-----------------------------------------------------------------------------
(* Callers.                                                                *)

\* getAuthHeader.
Ask(r) ==
  LET m == ManagerOf[r]
  IN  /\ req[r].phase = "idle"
      /\ ~revoked[m]
      /\ IF mem[m].loaded
         THEN Decide(r)
         ELSE /\ req' = [req EXCEPT ![r].phase = "loading"]
              /\ UNCHANGED <<op, gate>>
      /\ UNCHANGED <<env, row, mem, forced, rejected, revoked, history>>

\* The shared first load returns, or throws.
Load(m) ==
  LET loading == {r \in Request : ManagerOf[r] = m /\ req[r].phase = "loading"}
  IN  /\ loading # {}
      /\ ~mem[m].loaded
      /\ \/ /\ mem' = [mem EXCEPT ![m] = Loaded(@)]
            /\ UNCHANGED req
         \/ /\ req' = [r \in Request |-> IF r \in loading THEN IdleReq ELSE req[r]]
            /\ UNCHANGED mem
      /\ UNCHANGED <<env, row, forced, rejected, op, gate, revoked, history>>

\* A caller that awaited the load goes on, or finds the account disconnected.
Proceed(r) ==
  LET m == ManagerOf[r]
  IN  /\ req[r].phase = "loading"
      /\ mem[m].loaded
      /\ IF revoked[m]
         THEN /\ req' = [req EXCEPT ![r] = IdleReq]
              /\ UNCHANGED <<op, gate>>
         ELSE Decide(r)
      /\ UNCHANGED <<env, row, mem, forced, rejected, revoked, history>>

\* The caller's signal aborts its wait; the shared load or refresh goes on.
Abort(r) ==
  /\ req[r].phase \in {"loading", "refreshing"}
  /\ req' = [req EXCEPT ![r] = IdleReq]
  /\ UNCHANGED <<env, row, mem, forced, rejected, op, gate, revoked, history>>

\* The upstream answers, or answers 401 to the replay as well.
Done(r) ==
  /\ req[r].phase = "calling"
  /\ req[r].token > dead \/ req[r].retried
  /\ req' = [req EXCEPT ![r] = IdleReq]
  /\ UNCHANGED <<env, row, mem, forced, rejected, op, gate, revoked, history>>

\* The upstream answers 401: invalidate(), and getAuthHeader for one replay.
\* What is remembered as rejected is what the manager holds now.
Unauthorized(r) ==
  LET m == ManagerOf[r]
  IN  /\ req[r].phase = "calling"
      /\ req[r].token <= dead
      /\ ~req[r].retried
      /\ rejected' = [rejected EXCEPT ![m] = mem[m].access]
      /\ forced' = [forced EXCEPT ![m] = TRUE]
      /\ mem' = [mem EXCEPT ![m].access = NoToken]
      /\ IF revoked[m]
         THEN /\ req' = [req EXCEPT ![r] = IdleReq]
              /\ UNCHANGED <<op, gate>>
         ELSE /\ req' = [req EXCEPT ![r] = [phase |-> "refreshing", token |-> NoToken,
                                            retried |-> TRUE]]
              /\ Joined(m)
      /\ UNCHANGED <<env, row, revoked, answered, lost>>

-----------------------------------------------------------------------------
(* One refresh, under the gate.                                            *)

Holds(m, phase) == gate # <<>> /\ Head(gate) = m /\ op[m].phase = phase

\* The callers that await the refresh of m get the token now in `memory`, or
\* its error.
Told(m, ok, memory) ==
  [r \in Request |->
     IF ManagerOf[r] = m /\ req[r].phase = "refreshing"
     THEN IF ok /\ ~revoked[m]
          THEN [req[r] EXCEPT !.phase = "calling", !.token = memory.access]
          ELSE IdleReq
     ELSE req[r]]

\* Mutant: a failed refresh does not let the next one through.
EndStuck(m, ok, memory) ==
  /\ op' = [op EXCEPT ![m] = NoOp]
  /\ gate' = IF ok THEN Tail(gate) ELSE gate
  /\ req' = Told(m, ok, memory)

\* The refresh is over, and the gate is free for the next.
End(m, ok, memory) ==
  /\ op' = [op EXCEPT ![m] = NoOp]
  /\ gate' = Tail(gate)
  /\ req' = Told(m, ok, memory)

\* A refresh that succeeds settles what invalidate() asked for.
Settled(m, ok) ==
  /\ forced' = [forced EXCEPT ![m] = IF ok THEN FALSE ELSE @]
  /\ rejected' = [rejected EXCEPT ![m] = IF ok THEN NoToken ELSE @]

Advance(m, phase) == op' = [op EXCEPT ![m].phase = phase]

\* Whether a re-read credential will do.
Adoptable(m, memory) ==
  ~Expired(memory) /\ ~(forced[m] /\ rejected[m] # NoToken /\ memory.access = rejected[m])

\* Mutant: the decision is taken on what the manager already holds.
DecideUnread(m) ==
  LET now == mem[m]
  IN  /\ Holds(m, "queued")
      /\ IF Adoptable(m, now) \/ now.refresh = NoToken
         THEN End(m, Adoptable(m, now), now) /\ Settled(m, Adoptable(m, now))
         ELSE /\ op' = [op EXCEPT ![m] = [phase |-> "sent", token |-> now.refresh]]
              /\ UNCHANGED <<gate, req, forced, rejected>>
      /\ UNCHANGED <<env, row, mem, revoked, history>>

\* It is the manager's turn: it re-reads the store and adopts what is there,
\* fails, or sends the refresh token.
Reread(m) ==
  LET now == IF revoked[m] THEN Wiped(mem[m]) ELSE Loaded(mem[m])
      adopt == ~revoked[m] /\ Adoptable(m, now)
  IN  /\ Holds(m, "queued")
      /\ mem' = [mem EXCEPT ![m] = now]
      /\ IF adopt \/ now.refresh = NoToken
         THEN End(m, adopt, now) /\ Settled(m, adopt)
         ELSE /\ op' = [op EXCEPT ![m] = [phase |-> "sent", token |-> now.refresh]]
              /\ UNCHANGED <<gate, req, forced, rejected>>
      /\ UNCHANGED <<env, row, revoked, history>>

\* The endpoint exchanges its newest refresh token and refuses any other.
Exchange(m) ==
  /\ Holds(m, "sent")
  /\ IF op[m].token = issued
     THEN /\ issued < MaxToken
          /\ issued' = issued + 1
          /\ Advance(m, "used")
     ELSE /\ Advance(m, "refused")
          /\ UNCHANGED issued
  /\ UNCHANGED <<stale, dead, row, mem, forced, rejected, gate, revoked, req, history>>

\* Mutant: a token too short-lived for the request is an error at once.
ReceiveChecked(m) ==
  LET now == [loaded |-> TRUE, access |-> issued, refresh |-> issued]
  IN  /\ Holds(m, "used")
      /\ mem' = [mem EXCEPT ![m] = now]
      /\ answered' = answered \cup {op[m].token}
      /\ IF m \in Enforcing /\ Expired(now)
         THEN End(m, FALSE, now)
         ELSE /\ op' = [op EXCEPT ![m] = [phase |-> "writing", token |-> issued]]
              /\ UNCHANGED <<gate, req>>
      /\ UNCHANGED <<env, row, forced, rejected, revoked, lost>>

\* The new credential arrives; it is in memory, and on its way to the store.
Receive(m) ==
  /\ Holds(m, "used")
  /\ mem' = [mem EXCEPT ![m] = [loaded |-> TRUE, access |-> issued, refresh |-> issued]]
  /\ answered' = answered \cup {op[m].token}
  /\ op' = [op EXCEPT ![m] = [phase |-> "writing", token |-> issued]]
  /\ UNCHANGED <<env, row, forced, rejected, gate, revoked, req, lost>>

\* The exchange fails in a way worth waiting for (transport, timeout, 403, 5xx),
\* perhaps after the endpoint has used the token.
Falter(m) ==
  /\ \E phase \in {"sent", "used", "refused"} : Holds(m, phase)
  /\ Advance(m, "backoff")
  /\ lost' = (lost \/ op[m].phase = "used")
  /\ UNCHANGED <<env, row, mem, forced, rejected, gate, revoked, req, answered>>

\* Any other failure: refused for good, rate limited, an unreadable answer; or
\* the store cannot be read, before the exchange or after the wait.
Fail(m) ==
  /\ \/ Holds(m, "queued") /\ ~revoked[m]
     \/ \E phase \in {"sent", "used", "refused", "backoff"} : Holds(m, phase)
  /\ lost' = (lost \/ op[m].phase = "used")
  /\ End(m, FALSE, mem[m])
  /\ UNCHANGED <<env, row, mem, forced, rejected, revoked, answered>>

\* After the wait the store is read once more: a credential changed by another
\* process will do, anything else is the error.
Backoff(m) ==
  LET now == Loaded(mem[m])
      changed == ~Expired(now) /\ now.refresh # op[m].token
  IN  /\ Holds(m, "backoff")
      /\ mem' = [mem EXCEPT ![m] = now]
      /\ End(m, changed, now)
      /\ Settled(m, changed)
      /\ UNCHANGED <<env, row, revoked, history>>

\* Mutant: the refreshed token is taken to be good.
LongEnoughAlways(m) == TRUE

\* The last check of a refresh; invalidate() meanwhile has reset expiresAt.
LongEnough(m) == m \notin Enforcing \/ ~Expired(mem[m])

\* The new credential is stored.
Store(m) ==
  /\ Holds(m, "writing")
  /\ row' = op[m].token
  /\ End(m, LongEnough(m), mem[m])
  /\ Settled(m, LongEnough(m))
  /\ UNCHANGED <<env, mem, revoked, history>>

\* upsert throws, the row unchanged: the next refresh re-reads the used-up token
\* and sends it, which the history lets pass from here on.
StoreError(m) ==
  /\ StoreFails
  /\ Holds(m, "writing")
  /\ End(m, FALSE, mem[m])
  /\ answered' = answered \ {row}
  /\ lost' = TRUE
  /\ UNCHANGED <<env, row, mem, forced, rejected, revoked>>

-----------------------------------------------------------------------------
(* Logout, login, the process and the world outside.                       *)

Pending == {gate[i] : i \in DOMAIN gate}

\* disconnectOAuthCredential is called and queues at the gate.
AskLogout ==
  /\ row # NoToken
  /\ Logout \notin Pending
  /\ gate' = Append(gate, Logout)
  /\ UNCHANGED <<env, row, mem, forced, rejected, op, revoked, req, history>>

\* Mutant: the row is deleted without waiting for its turn.
DisconnectAtOnce ==
  /\ Logout \in Pending
  /\ row' = NoToken
  /\ revoked' = [m \in Manager |-> TRUE]
  /\ gate' = SelectSeq(gate, LAMBDA h : h # Logout)
  /\ UNCHANGED <<env, mem, forced, rejected, op, req, history>>

\* Its turn: the row is deleted and every manager there is revoked; or the
\* delete throws and nothing has changed.
Disconnect ==
  /\ gate # <<>> /\ Head(gate) = Logout
  /\ \/ /\ row' = NoToken
        /\ revoked' = [m \in Manager |-> TRUE]
     \/ UNCHANGED <<row, revoked>>
  /\ gate' = Tail(gate)
  /\ UNCHANGED <<env, mem, forced, rejected, op, req, history>>

\* The admin logs in again: a new credential, stored outside the gate.
Login ==
  /\ row = NoToken
  /\ issued < MaxToken
  /\ issued' = issued + 1
  /\ row' = issued + 1
  /\ lost' = FALSE
  /\ UNCHANGED <<stale, dead, mem, forced, rejected, op, gate, revoked, req,
                 answered>>

\* A manager is built anew for the account, with a lease of its own.
Rebuild(m) ==
  /\ revoked[m]
  /\ op[m].phase = "none"
  /\ \A r \in Request : ManagerOf[r] = m => req[r].phase = "idle"
  /\ revoked' = [revoked EXCEPT ![m] = FALSE]
  /\ mem' = [mem EXCEPT ![m] = EmptyMemory]
  /\ forced' = [forced EXCEPT ![m] = FALSE]
  /\ rejected' = [rejected EXCEPT ![m] = NoToken]
  /\ UNCHANGED <<env, row, op, gate, req, answered, lost>>

\* The process dies and a new one starts.
Restart ==
  /\ mem' = [m \in Manager |-> EmptyMemory]
  /\ forced' = [m \in Manager |-> FALSE]
  /\ rejected' = [m \in Manager |-> NoToken]
  /\ op' = [m \in Manager |-> NoOp]
  /\ gate' = <<>>
  /\ revoked' = [m \in Manager |-> FALSE]
  /\ req' = [r \in Request |-> IdleReq]
  /\ answered' = {}
  /\ lost' = (lost \/ \E m \in Manager : op[m].phase \in {"used", "writing"})
  /\ UNCHANGED <<env, row>>

\* The access tokens issued so far expire, or are revoked upstream.
Expire ==
  /\ stale < issued
  /\ stale' = issued
  /\ UNCHANGED <<issued, dead, row, mem, forced, rejected, op, gate, revoked, req, history>>

Revoke ==
  /\ dead < issued
  /\ dead' = issued
  /\ UNCHANGED <<issued, stale, row, mem, forced, rejected, op, gate, revoked, req, history>>

-----------------------------------------------------------------------------
Init ==
  /\ issued = 1 /\ stale = 0 /\ dead = 0
  /\ row = 1
  /\ mem = [m \in Manager |-> EmptyMemory]
  /\ forced = [m \in Manager |-> FALSE]
  /\ rejected = [m \in Manager |-> NoToken]
  /\ op = [m \in Manager |-> NoOp]
  /\ gate = <<>>
  /\ revoked = [m \in Manager |-> FALSE]
  /\ req = [r \in Request |-> IdleReq]
  /\ answered = {}
  /\ lost = FALSE

Refresh(m) ==
  \/ Reread(m) \/ Exchange(m) \/ Receive(m) \/ Falter(m) \/ Fail(m)
  \/ Backoff(m) \/ Store(m) \/ StoreError(m)

Next ==
  \/ \E r \in Request : Ask(r) \/ Proceed(r) \/ Abort(r) \/ Done(r) \/ Unauthorized(r)
  \/ \E m \in Manager : Load(m) \/ Refresh(m) \/ Rebuild(m)
  \/ AskLogout \/ Disconnect \/ Login \/ Restart \/ Expire \/ Revoke

Spec == Init /\ [][Next]_vars

(* Fairness: store calls and the exchange return or throw (the exchange has *)
(* a deadline), and a resumed caller runs.                                  *)
FairSpec ==
  /\ Spec
  /\ \A m \in Manager : WF_vars(Load(m)) /\ WF_vars(Refresh(m))
  /\ \A r \in Request : WF_vars(Proceed(r))
  /\ WF_vars(Disconnect)

-----------------------------------------------------------------------------
(* Properties.                                                             *)

\* Besides the types: nobody is twice in the gate's queue.
TypeOK ==
  /\ issued \in Token /\ stale \in 0..MaxToken /\ dead \in 0..MaxToken
  /\ row \in Token \cup {NoToken}
  /\ mem \in [Manager -> Memory]
  /\ forced \in [Manager -> BOOLEAN]
  /\ rejected \in [Manager -> Token \cup {NoToken}]
  /\ op \in [Manager -> Op]
  /\ gate \in Seq(Manager \cup {Logout})
  /\ \A i, j \in DOMAIN gate : gate[i] = gate[j] => i = j
  /\ revoked \in [Manager -> BOOLEAN]
  /\ req \in [Request -> Req]
  /\ answered \in SUBSET Token
  /\ lost \in BOOLEAN

\* A single-use refresh token is not sent again once the process has seen it
\* exchanged, whichever manager did so, if the store took what came for it: the replay would
\* end the whole family.
NoReplay == \A m \in Manager : op[m].phase = "sent" => op[m].token \notin answered

\* The rotated credential is always in the store or on its way there, unless it
\* was lost outside the process, with it or by the store: not even a token too short for the
\* request, an aborted caller or a late 401 keeps a rotation from being stored.
RotationKept ==
  row # NoToken /\ ~lost =>
    row = issued \/ \E m \in Manager : op[m].phase \in {"used", "writing"}

\* After a logout only a new login brings a credential back: no refresh that was
\* in flight or queued does, and no manager of the old login.
LogoutIsFinal ==
  [][row = NoToken /\ row' # NoToken => UNCHANGED op /\ row' > issued]_vars

\* No request is sent with "Bearer null", although any caller's 401 may clear
\* the token while others wait for it.
HeaderHasToken == \A r \in Request : req[r].phase = "calling" => req[r].token # NoToken

\* Every caller that waits for the credential gets an answer, whatever fails.
CallerAnswered ==
  \A r \in Request : req[r].phase \in {"loading", "refreshing"}
                     ~> req[r].phase \notin {"loading", "refreshing"}

=============================================================================
