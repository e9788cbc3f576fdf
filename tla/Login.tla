------------------------------- MODULE Login --------------------------------
(***************************************************************************)
(* Logging in: begin and callback of handlers/auth_routes.rs, the exchange *)
(* in crates/auth/src/providers.rs, the parked flows and the user upsert   *)
(* of repos.rs, and the sessions that outlive all three.  A login is begun *)
(* on one instance and may be completed on another; the callback comes     *)
(* without a cookie, late, twice, or with the code of another login, and   *)
(* is cut at its awaits.                                                   *)
(*                                                                         *)
(* An identity is an (issuer, subject) pair.  The state token of a flow    *)
(* stands for its nonce and PKCE verifier too, which are drawn with it.    *)
(* Where the browser is sent afterwards (return_to) is left out.           *)
(***************************************************************************)
EXTENDS Naturals

CONSTANTS
  Workers,           \* concurrent requests
  Providers,         \* configured providers
  Identities,        \* people, by provider account
  ProviderOf,        \* the provider that knows an identity
  AdminIdentities,   \* those listed in ADMIN_IDENTITIES of some deployment
  Ttl,               \* 15 minutes
  MaxTime,           \* bound: clock ticks
  MaxFlows           \* bound: flows begun

ASSUME LoginAssumption ==
  /\ ProviderOf \in [Identities -> Providers]
  /\ AdminIdentities \subseteq Identities
  /\ Ttl \in Nat /\ MaxTime \in Nat /\ MaxFlows \in Nat

VARIABLES
  now,               \* the database clock
  flows,             \* the oidc_flow table
  nextState,         \* the next fresh state token
  codes,             \* authorization codes the providers have issued
  users,             \* the app_user table
  nextUser,          \* its identity sequence
  sessions,          \* the session table
  completed,         \* history: state tokens of the flows completed
  req                \* what each worker is doing

vars == <<now, flows, nextState, codes, users, nextUser, sessions, completed, req>>

-----------------------------------------------------------------------------

Flow == [state : Nat, provider : Providers, created : Nat]
\* What a provider vouches for when it is shown the code and the verifier of the
\* flow it was issued for; name: whether it tells the display name.
Code == [state : Nat, provider : Providers, identity : Identities, name : BOOLEAN]
UserRow == [id : Nat, identity : Identities, name : BOOLEAN, admin : BOOLEAN]
\* SessionUser, with the identity and the flow that it was created for.
SessionRow == [user : Nat, admin : BOOLEAN, identity : Identities, state : Nat]

Idle == [pc |-> "idle"]
BeginReq == [pc : {"park"}, state : Nat, provider : Providers]
CallbackReq == [pc : {"exchange", "upsert"}, flow : Flow, provider : Providers, code : Code]
StoreReq == [pc : {"store"}, session : SessionRow]
Requests == {Idle} \cup BeginReq \cup CallbackReq \cup StoreReq

TypeOK ==
  /\ now \in Nat
  /\ flows \subseteq Flow
  /\ nextState \in Nat
  /\ codes \subseteq Code
  /\ users \subseteq UserRow
  /\ nextUser \in Nat
  /\ sessions \subseteq SessionRow
  /\ completed \subseteq Nat
  /\ req \in [Workers -> Requests]

Init ==
  /\ now = 0
  /\ flows = {} /\ codes = {} /\ users = {} /\ sessions = {} /\ completed = {}
  /\ nextState = 1 /\ nextUser = 1
  /\ req = [w \in Workers |-> Idle]

At(w, pc) == req[w].pc = pc
Reply(w) == req' = [req EXCEPT ![w] = Idle]

-----------------------------------------------------------------------------
\* begin, and what happens at the provider

\* Fault: the comparison of take.
SweptLikeTaken(f) == f.created + Ttl > now

\* created_at < now() - interval '15 minutes'
Swept(f) == f.created + Ttl < now

\* created_at > now() - interval '15 minutes'
Fresh(f) == f.created + Ttl > now

\* Draw the tokens and sweep what has expired.
Begin(w, p) ==
  /\ At(w, "idle") /\ nextState <= MaxFlows
  /\ flows' = {f \in flows : ~Swept(f)}
  /\ nextState' = nextState + 1
  /\ req' = [req EXCEPT ![w] = [pc |-> "park", state |-> nextState, provider |-> p]]
  /\ UNCHANGED <<now, codes, users, nextUser, sessions, completed>>

\* Insert the flow and redirect.
Park(w) ==
  /\ At(w, "park")
  /\ flows' = flows \cup {[state |-> req[w].state, provider |-> req[w].provider,
                           created |-> now]}
  /\ Reply(w)
  /\ UNCHANGED <<now, nextState, codes, users, nextUser, sessions, completed>>

\* Somebody authenticates at the provider they were sent to.  Whether their name
\* comes along is up to the provider: Apple sends it once.
Authorize(f, i, name) ==
  /\ ProviderOf[i] = f.provider
  /\ \A c \in codes : c.state # f.state
  /\ codes' = codes \cup {[state |-> f.state, provider |-> f.provider,
                           identity |-> i, name |-> name]}
  /\ UNCHANGED <<now, flows, nextState, users, nextUser, sessions, completed, req>>

-----------------------------------------------------------------------------
\* callback

\* Fault: the flow is read and stays.
TakeOnlyReads(w, p, f, c) ==
  /\ At(w, "idle") /\ Fresh(f)
  /\ req' = [req EXCEPT ![w] = [pc |-> "exchange", flow |-> f, provider |-> p, code |-> c]]
  /\ UNCHANGED <<now, flows, nextState, codes, users, nextUser, sessions, completed>>

\* take: one statement retrieves and deletes.  The provider is the one in the
\* URL, the code is whatever came with the state token.
Take(w, p, f, c) ==
  /\ At(w, "idle") /\ Fresh(f)
  /\ flows' = flows \ {f}
  /\ req' = [req EXCEPT ![w] = [pc |-> "exchange", flow |-> f, provider |-> p, code |-> c]]
  /\ UNCHANGED <<now, nextState, codes, users, nextUser, sessions, completed>>

\* Fault: neither verifier nor nonce ties the code to the flow.
VouchesForAny(f, p, c) == f.provider = p /\ c.provider = p

\* The provider match, the exchange with the flow's verifier, and the nonce.
Vouches(f, p, c) == f.provider = p /\ c.provider = p /\ c.state = f.state

\* complete: an answer that does not fit, or none, ends the login; its flow is
\* used up.
Complete(w) ==
  /\ At(w, "exchange")
  /\ IF Vouches(req[w].flow, req[w].provider, req[w].code)
     THEN /\ req' = [req EXCEPT ![w].pc = "upsert"]
          /\ completed' = completed \cup {req[w].flow.state}
     ELSE Reply(w) /\ UNCHANGED completed
  /\ UNCHANGED <<now, flows, nextState, codes, users, nextUser, sessions>>

\* is_admin_identity, on an instance whose configuration may or may not list it.
MayGrant(i, admin) == admin => i \in AdminIdentities

\* Fault: the smallest id not in use.
FreeId == CHOOSE n \in 1..nextUser :
            /\ \A u \in users : u.id # n
            /\ \A m \in 1..(n - 1) : \E u \in users : u.id = m

\* GENERATED ALWAYS AS IDENTITY
NewId == nextUser

RowsOf(i) == {u \in users : u.identity = i}

\* Fault: is_admin = EXCLUDED.is_admin.
UpsertedAdmin(i, name, admin) ==
  IF RowsOf(i) = {} THEN {[id |-> NewId, identity |-> i, name |-> name, admin |-> admin]}
  ELSE {[u EXCEPT !.name = @ \/ name, !.admin = admin] : u \in RowsOf(i)}

\* Fault: display_name = EXCLUDED.display_name.
UpsertedName(i, name, admin) ==
  IF RowsOf(i) = {} THEN {[id |-> NewId, identity |-> i, name |-> name, admin |-> admin]}
  ELSE {[u EXCEPT !.name = name, !.admin = @ \/ admin] : u \in RowsOf(i)}

\* Fault: no ON CONFLICT, and no UNIQUE (issuer, subject).
AlwaysInserted(i, name, admin) ==
  {[id |-> NewId, identity |-> i, name |-> name, admin |-> admin]}

\* The row that INSERT ... ON CONFLICT DO UPDATE writes and returns.
Upserted(i, name, admin) ==
  IF RowsOf(i) = {} THEN {[id |-> NewId, identity |-> i, name |-> name, admin |-> admin]}
  ELSE {[u EXCEPT !.name = @ \/ name, !.admin = @ \/ admin] : u \in RowsOf(i)}

\* A conflicting insert draws an id as well, which is not counted here.
Upsert(w, admin) ==
  LET c == req[w].code IN
  /\ At(w, "upsert")
  /\ MayGrant(c.identity, admin)
  /\ \E u \in Upserted(c.identity, c.name, admin) :
       /\ users' = {v \in users : v.id # u.id} \cup {u}
       /\ nextUser' = IF u.id = nextUser THEN nextUser + 1 ELSE nextUser
       /\ req' = [req EXCEPT ![w] =
                    [pc |-> "store",
                     session |-> [user |-> u.id, admin |-> u.admin, identity |-> c.identity,
                                  state |-> req[w].flow.state]]]
  /\ UNCHANGED <<now, flows, nextState, codes, sessions, completed>>

\* cycle_id and store: the session the browser came with, if any, is replaced.
Store(w, old) ==
  /\ At(w, "store")
  /\ sessions' = (sessions \ old) \cup {req[w].session}
  /\ Reply(w)
  /\ UNCHANGED <<now, flows, nextState, codes, users, nextUser, completed>>

-----------------------------------------------------------------------------
\* Sessions in use, and the end of sessions, accounts and requests

\* The AdminUser extractor: the flag in the session, not the one in the row.
AdminUser(s) == s.admin

\* delete_user: WHERE id = $1 AND is_admin = false, never the admin's own.
DeleteUser(s, u) ==
  /\ AdminUser(s) /\ u.id # s.user /\ ~u.admin
  /\ users' = users \ {u}
  /\ UNCHANGED <<now, flows, nextState, codes, nextUser, sessions, completed, req>>

\* logout, or 30 days without a request.
EndSession(s) ==
  /\ sessions' = sessions \ {s}
  /\ UNCHANGED <<now, flows, nextState, codes, users, nextUser, completed, req>>

\* A disconnect, a crash, an error of the provider or the database.
Abandon(w) ==
  /\ ~At(w, "idle")
  /\ Reply(w)
  /\ UNCHANGED <<now, flows, nextState, codes, users, nextUser, sessions, completed>>

Tick ==
  /\ now < MaxTime
  /\ now' = now + 1
  /\ UNCHANGED <<flows, nextState, codes, users, nextUser, sessions, completed, req>>

Next ==
  \/ \E w \in Workers :
       \/ \E p \in Providers : Begin(w, p)
       \/ Park(w)
       \/ \E p \in Providers, f \in flows, c \in codes : Take(w, p, f, c)
       \/ Complete(w)
       \/ \E admin \in BOOLEAN : Upsert(w, admin)
       \/ \E old \in {{}} \cup {{s} : s \in sessions} : Store(w, old)
       \/ Abandon(w)
  \/ \E f \in flows, i \in Identities, name \in BOOLEAN : Authorize(f, i, name)
  \/ \E s \in sessions : EndSession(s) \/ \E u \in users : DeleteUser(s, u)
  \/ Tick

Spec == Init /\ [][Next]_vars

-----------------------------------------------------------------------------
\* Properties

\* "Each flow completes at most once": a repeated callback, at the same time or
\* later, on this instance or another, does not log anybody in a second time.
FlowCompletesOnce ==
  [][\A w \in Workers : At(w, "exchange") /\ req'[w].pc = "upsert" =>
       req[w].flow.state \notin completed]_vars

\* No login in progress is cut short by another: a flow leaves the table when
\* its callback takes it, or when it is too old to be taken.
FlowsLeaveByTakeOrAge ==
  [][\A f \in flows \ flows' :
       ~Fresh(f) \/ \E w \in Workers : req'[w].pc = "exchange" /\ req'[w].flow = f]_vars

\* A session belongs to the person who authenticated in answer to its own login,
\* at the provider it was begun with, whatever codes came with the callback.
SessionIsAuthenticated ==
  \A s \in sessions : \E c \in codes :
    c.state = s.state /\ c.identity = s.identity /\ ProviderOf[c.identity] = c.provider

\* A session that outlives its account names nobody, never somebody else.
SessionNamesOwnUser ==
  \A s \in sessions, u \in users : u.id = s.user => u.identity = s.identity

\* No admin session outlives its account or its grant: the row is there and has
\* the flag (as long as nobody clears it by hand in the database).
AdminSessionsBacked ==
  \A s \in sessions : s.admin =>
    \E u \in users : u.id = s.user /\ u.admin /\ u.identity \in AdminIdentities

\* "Apple sends the name exactly once": a later login without the name, or two
\* at once, do not lose it.
NameKept ==
  [][\A u \in users, v \in users' : u.id = v.id /\ u.name => v.name]_vars

-----------------------------------------------------------------------------
\* Inductive strengthening

\* A state token is in one place: drawn, parked, taken, or used up.
StatesDrawn ==
  /\ \A f \in flows : f.state < nextState /\ f.state \notin completed
  /\ \A f, g \in flows : f.state = g.state => f = g
  /\ \A s \in completed : s < nextState
  /\ \A w \in Workers : At(w, "park") =>
       /\ req[w].state < nextState /\ req[w].state \notin completed
       /\ \A f \in flows : f.state # req[w].state
       /\ \A v \in Workers : At(v, "park") /\ req[v].state = req[w].state => v = w
  /\ \A w \in Workers : At(w, "exchange") =>
       /\ req[w].flow.state < nextState /\ req[w].flow.state \notin completed
       /\ \A f \in flows : f.state # req[w].flow.state
       /\ \A v \in Workers :
            /\ At(v, "park") => req[v].state # req[w].flow.state
            /\ At(v, "exchange") /\ req[v].flow.state = req[w].flow.state => v = w

\* Codes come from the provider of their identity.
CodesIssued == \A c \in codes : ProviderOf[c.identity] = c.provider

\* The keys of the user table, and who may be an admin in it.
UserKeys ==
  /\ \A u, v \in users : u.id = v.id \/ u.identity = v.identity => u = v
  /\ \A u \in users : u.id < nextUser /\ (u.admin => u.identity \in AdminIdentities)

\* What holds of a session holds of one about to be stored.
Backed(s) ==
  /\ s.user < nextUser
  /\ \A u \in users : u.id = s.user => u.identity = s.identity
  /\ s.admin => \E u \in users : u.id = s.user /\ u.admin /\ u.identity \in AdminIdentities
  /\ \E c \in codes :
       c.state = s.state /\ c.identity = s.identity /\ ProviderOf[c.identity] = c.provider

\* A callback past the exchange has the code of its own flow.
CallbacksVouched ==
  \A w \in Workers :
    /\ req[w].pc \in {"exchange", "upsert"} => req[w].code \in codes
    /\ At(w, "upsert") => req[w].code.state = req[w].flow.state
    /\ At(w, "store") => Backed(req[w].session)

\* Why logins are sound: a token moves on and never back, ids are not reused,
\* and an admin row stays.
LoginInv ==
  /\ TypeOK
  /\ StatesDrawn
  /\ CodesIssued
  /\ UserKeys
  /\ CallbacksVouched
  /\ \A s \in sessions : Backed(s)
=============================================================================
