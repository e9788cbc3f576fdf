---------------------------- MODULE LoginProofs -----------------------------
(***************************************************************************)
(* Logins for any number of requests, flows, providers and people.  The    *)
(* inductive invariant is LoginInv: a state token is in one place at a     *)
(* time, and what backs a session is never taken away again.               *)
(***************************************************************************)
EXTENDS Login, TLAPS

\* A request's pc tells which arguments it carries.
LEMMA LoginShape ==
  ASSUME NEW r \in Requests
  PROVE  /\ r.pc = "park" => r \in BeginReq
         /\ r.pc \in {"exchange", "upsert"} => r \in CallbackReq
         /\ r.pc = "store" => r \in StoreReq
  BY DEF Requests, Idle, BeginReq, CallbackReq, StoreReq

\* One worker's request changes, the others stay.
LEMMA ReqStep ==
  ASSUME TypeOK, NEW w \in Workers, NEW r, req' = [req EXCEPT ![w] = r]
  PROVE  req'[w] = r /\ \A v \in Workers \ {w} : req'[v] = req[v]
  BY DEF TypeOK

\* A worker that has replied is idle.
LEMMA ReplyStep ==
  ASSUME TypeOK, NEW w \in Workers, Reply(w)
  PROVE  /\ req'[w].pc = "idle" /\ \A v \in Workers \ {w} : req'[v] = req[v]
         /\ req' \in [Workers -> Requests]
<1>1. Idle.pc = "idle" /\ Idle \in Requests
  BY DEF Idle, Requests
<1> QED BY <1>1, ReqStep DEF Reply, TypeOK

\* The upsert writes one row of the identity: a new one under a fresh id, or the
\* old one with nothing taken away.
LEMMA UpsertWrites ==
  ASSUME TypeOK, NEW i \in Identities, NEW name \in BOOLEAN, NEW admin \in BOOLEAN,
         NEW u \in Upserted(i, name, admin)
  PROVE  /\ u \in UserRow /\ u.identity = i
         /\ \/ /\ u.id = nextUser /\ RowsOf(i) = {} /\ u.admin = admin
            \/ \E v \in users : /\ v.identity = i /\ u.id = v.id
                                /\ (v.name => u.name) /\ (v.admin => u.admin)
                                /\ (u.admin => v.admin \/ admin)
<1>1. CASE RowsOf(i) = {}
  <2>1. u = [id |-> nextUser, identity |-> i, name |-> name, admin |-> admin]
    BY <1>1 DEF Upserted, NewId
  <2> QED BY <1>1, <2>1 DEF UserRow, TypeOK
<1>2. CASE RowsOf(i) # {}
  <2>1. PICK v \in RowsOf(i) : u = [v EXCEPT !.name = v.name \/ name, !.admin = v.admin \/ admin]
    BY <1>2 DEF Upserted
  <2>2. v \in UserRow /\ v \in users /\ v.identity = i
    BY DEF RowsOf, TypeOK
  <2>3. v.name \in BOOLEAN /\ v.admin \in BOOLEAN
    BY <2>2 DEF UserRow
  <2>4. /\ u \in UserRow /\ u.identity = i /\ u.id = v.id
        /\ u.name = (v.name \/ name) /\ u.admin = (v.admin \/ admin)
    BY <2>1, <2>2, <2>3 DEF UserRow
  <2> QED BY <2>2, <2>3, <2>4
<1> QED BY <1>1, <1>2

-----------------------------------------------------------------------------
\* Types

\* No step of a login, a logout or a deletion stores an ill-typed value.
LEMMA TypeStep ==
  ASSUME TypeOK, [Next]_vars
  PROVE  TypeOK'
<1> USE LoginAssumption
<1>0. CASE UNCHANGED vars
  BY <1>0 DEF TypeOK, vars
<1>1. ASSUME NEW w \in Workers, NEW p \in Providers, Begin(w, p)
      PROVE  TypeOK'
  <2>1. [pc |-> "park", state |-> nextState, provider |-> p] \in Requests
    BY DEF Requests, BeginReq, TypeOK
  <2> QED BY <1>1, <2>1 DEF Begin, TypeOK
<1>2. ASSUME NEW w \in Workers, Park(w)
      PROVE  TypeOK'
  <2>1. req[w] \in BeginReq
    BY <1>2, LoginShape DEF Park, At, TypeOK
  <2>2. [state |-> req[w].state, provider |-> req[w].provider, created |-> now] \in Flow
    BY <2>1 DEF BeginReq, Flow, TypeOK
  <2> QED BY <1>2, <2>2, ReplyStep DEF Park, TypeOK
<1>3. ASSUME NEW w \in Workers, NEW p \in Providers, NEW f \in flows, NEW c \in codes,
             Take(w, p, f, c)
      PROVE  TypeOK'
  <2>1. [pc |-> "exchange", flow |-> f, provider |-> p, code |-> c] \in CallbackReq
    BY DEF CallbackReq, TypeOK
  <2> QED BY <1>3, <2>1 DEF Take, TypeOK, Requests
<1>4. ASSUME NEW w \in Workers, Complete(w)
      PROVE  TypeOK'
  <2>1. req[w] \in CallbackReq
    BY <1>4, LoginShape DEF Complete, At, TypeOK
  <2>2. [req[w] EXCEPT !.pc = "upsert"] \in Requests /\ req[w].flow.state \in Nat
    BY <2>1 DEF CallbackReq, Requests, Flow
  <2>3. req' \in [Workers -> Requests]
    BY <1>4, <2>2, ReplyStep DEF Complete, TypeOK
  <2> QED BY <1>4, <2>2, <2>3 DEF Complete, TypeOK
<1>5. ASSUME NEW w \in Workers, NEW admin \in BOOLEAN, Upsert(w, admin)
      PROVE  TypeOK'
  <2>1. req[w] \in CallbackReq
    BY <1>5, LoginShape DEF Upsert, At, TypeOK
  <2>2. /\ req[w].code.identity \in Identities /\ req[w].code.name \in BOOLEAN
        /\ req[w].flow.state \in Nat
    BY <2>1 DEF CallbackReq, Code, Flow
  <2>3. PICK u \in Upserted(req[w].code.identity, req[w].code.name, admin) :
          /\ users' = {v \in users : v.id # u.id} \cup {u}
          /\ nextUser' = IF u.id = nextUser THEN nextUser + 1 ELSE nextUser
          /\ req' = [req EXCEPT ![w] =
                [pc |-> "store", session |-> [user |-> u.id, admin |-> u.admin,
                              identity |-> req[w].code.identity,
                              state |-> req[w].flow.state]]]
    BY <1>5 DEF Upsert
  <2>4. u \in UserRow
    BY <2>2, UpsertWrites
  <2>5. [user |-> u.id, admin |-> u.admin, identity |-> req[w].code.identity,
         state |-> req[w].flow.state] \in SessionRow
    BY <2>2, <2>4 DEF UserRow, SessionRow
  <2>6. [pc |-> "store",
         session |-> [user |-> u.id, admin |-> u.admin, identity |-> req[w].code.identity,
                      state |-> req[w].flow.state]] \in StoreReq
    BY <2>1, <2>5 DEF StoreReq, CallbackReq
  <2> QED BY <1>5, <2>3, <2>4, <2>6 DEF Upsert, TypeOK, Requests
<1>6. ASSUME NEW w \in Workers, NEW old, Store(w, old)
      PROVE  TypeOK'
  <2>1. req[w].session \in SessionRow
    BY <1>6, LoginShape DEF Store, At, TypeOK, StoreReq
  <2> QED BY <1>6, <2>1, ReplyStep DEF Store, TypeOK
<1>7. ASSUME NEW w \in Workers, Abandon(w)
      PROVE  TypeOK'
  BY <1>7, ReplyStep DEF Abandon, TypeOK
<1>8. ASSUME NEW f \in flows, NEW i \in Identities, NEW name \in BOOLEAN, Authorize(f, i, name)
      PROVE  TypeOK'
  <2>1. [state |-> f.state, provider |-> f.provider, identity |-> i, name |-> name] \in Code
    BY DEF Code, Flow, TypeOK
  <2> QED BY <1>8, <2>1 DEF Authorize, TypeOK
<1>9. ASSUME NEW s \in sessions, EndSession(s) \/ \E u \in users : DeleteUser(s, u)
      PROVE  TypeOK'
  BY <1>9 DEF EndSession, DeleteUser, TypeOK
<1>10. CASE Tick
  BY <1>10 DEF Tick, TypeOK
<1> QED
  BY <1>0, <1>1, <1>2, <1>3, <1>4, <1>5, <1>6, <1>7, <1>8, <1>9, <1>10 DEF Next

-----------------------------------------------------------------------------
\* State tokens

\* Workers that neither begin nor take, and a flow table that only shrinks,
\* leave the tokens where they are.
LEMMA TokensStay ==
  ASSUME StatesDrawn, flows' \subseteq flows, UNCHANGED <<nextState, completed>>,
         \A v \in Workers : req'[v] = req[v] \/ req'[v].pc \notin {"park", "exchange"}
  PROVE  StatesDrawn'
  BY DEF StatesDrawn, At

\* A token moves on: drawn, parked, taken, used up.
LEMMA StatesStep ==
  ASSUME TypeOK, StatesDrawn, [Next]_vars
  PROVE  StatesDrawn'
<1>0. CASE UNCHANGED vars
  BY <1>0 DEF StatesDrawn, vars, At
<1>t. /\ nextState \in Nat
      /\ \A f \in flows : f.state \in Nat
      /\ \A v \in Workers : At(v, "park") => req[v].state \in Nat
      /\ \A v \in Workers : At(v, "exchange") => req[v].flow.state \in Nat
      /\ completed \subseteq Nat
  BY LoginShape DEF TypeOK, At, BeginReq, CallbackReq, Flow
<1>1. ASSUME NEW w \in Workers, NEW p \in Providers, Begin(w, p)
      PROVE  StatesDrawn'
  <2>1. /\ req'[w] = [pc |-> "park", state |-> nextState, provider |-> p]
        /\ \A v \in Workers \ {w} : req'[v] = req[v]
    BY <1>1, ReqStep DEF Begin
  <2>2. req'[w].pc = "park" /\ req'[w].state = nextState
    BY <2>1
  <2>3. flows' \subseteq flows /\ nextState' = nextState + 1 /\ completed' = completed
    BY <1>1 DEF Begin
  <2> QED BY <1>t, <2>1, <2>2, <2>3 DEF StatesDrawn, At
<1>2. ASSUME NEW w \in Workers, Park(w)
      PROVE  StatesDrawn'
  <2> DEFINE new == [state |-> req[w].state, provider |-> req[w].provider, created |-> now]
  <2>1. req'[w].pc = "idle" /\ \A v \in Workers \ {w} : req'[v] = req[v]
    BY <1>2, ReplyStep DEF Park
  <2>2. /\ new.state = req[w].state /\ flows' = flows \cup {new}
        /\ nextState' = nextState /\ completed' = completed /\ At(w, "park")
    BY <1>2 DEF Park
  <2> HIDE DEF new
  <2> QED BY <1>t, <2>1, <2>2 DEF StatesDrawn, At
<1>3. ASSUME NEW w \in Workers, NEW p \in Providers, NEW f \in flows, NEW c \in codes,
             Take(w, p, f, c)
      PROVE  StatesDrawn'
  <2>1. /\ req'[w] = [pc |-> "exchange", flow |-> f, provider |-> p, code |-> c]
        /\ \A v \in Workers \ {w} : req'[v] = req[v]
    BY <1>3, ReqStep DEF Take
  <2>2. req'[w].pc = "exchange" /\ req'[w].flow = f
    BY <2>1
  <2>3. flows' = flows \ {f} /\ nextState' = nextState /\ completed' = completed
    BY <1>3 DEF Take
  <2> QED BY <1>t, <2>1, <2>2, <2>3 DEF StatesDrawn, At
<1>4. ASSUME NEW w \in Workers, Complete(w)
      PROVE  StatesDrawn'
  <2>1. CASE Vouches(req[w].flow, req[w].provider, req[w].code)
    <3>1. /\ req'[w] = [req[w] EXCEPT !.pc = "upsert"]
          /\ \A v \in Workers \ {w} : req'[v] = req[v]
      BY <1>4, <2>1, ReqStep DEF Complete
    <3>2. req'[w].pc = "upsert"
      BY <1>4, <3>1, LoginShape DEF Complete, At, TypeOK, CallbackReq
    <3>3. /\ completed' = completed \cup {req[w].flow.state} /\ At(w, "exchange")
          /\ flows' = flows /\ nextState' = nextState
      BY <1>4, <2>1 DEF Complete
    <3>4. /\ \A f \in flows : f.state # req[w].flow.state
          /\ req[w].flow.state < nextState
          /\ \A v \in Workers \ {w} :
               /\ At(v, "park") => req[v].state # req[w].flow.state
               /\ At(v, "exchange") => req[v].flow.state # req[w].flow.state
      BY <3>3 DEF StatesDrawn
    <3>5. /\ \A f \in flows : f.state < nextState /\ f.state \notin completed'
          /\ \A f, g \in flows : f.state = g.state => f = g
          /\ \A s \in completed' : s < nextState
      BY <3>3, <3>4 DEF StatesDrawn
    <3>6. \A v \in Workers : At(v, "park")' =>
            /\ v # w /\ At(v, "park") /\ req'[v] = req[v]
            /\ req[v].state \notin completed'
      BY <3>1, <3>2, <3>3, <3>4 DEF StatesDrawn, At
    <3>7. \A v \in Workers : At(v, "exchange")' =>
            /\ v # w /\ At(v, "exchange") /\ req'[v] = req[v]
            /\ req[v].flow.state \notin completed'
      BY <3>1, <3>2, <3>3, <3>4 DEF StatesDrawn, At
    <3>8. flows' = flows /\ nextState' = nextState
      BY <3>3
    <3>9. \A v \in Workers : At(v, "park")' =>
            /\ req'[v].state < nextState' /\ req'[v].state \notin completed'
            /\ \A f \in flows' : f.state # req'[v].state
            /\ \A x \in Workers : At(x, "park")' /\ req'[x].state = req'[v].state => x = v
      BY <3>6, <3>8 DEF StatesDrawn
    <3>10. \A v \in Workers : At(v, "exchange")' =>
            /\ req'[v].flow.state < nextState' /\ req'[v].flow.state \notin completed'
            /\ \A f \in flows' : f.state # req'[v].flow.state
            /\ \A x \in Workers :
                 /\ At(x, "park")' => req'[x].state # req'[v].flow.state
                 /\ At(x, "exchange")' /\ req'[x].flow.state = req'[v].flow.state => x = v
      BY <3>6, <3>7, <3>8 DEF StatesDrawn
    <3> QED BY <3>5, <3>8, <3>9, <3>10 DEF StatesDrawn
  <2>2. CASE ~Vouches(req[w].flow, req[w].provider, req[w].code)
    BY <1>4, <2>2, ReplyStep, TokensStay DEF Complete
  <2> QED BY <2>1, <2>2
<1>5. ASSUME NEW w \in Workers, NEW admin \in BOOLEAN, Upsert(w, admin)
      PROVE  StatesDrawn'
  <2>1. PICK s : req' = [req EXCEPT ![w] = [pc |-> "store", session |-> s]]
    BY <1>5 DEF Upsert
  <2> DEFINE r == [pc |-> "store", session |-> s]
  <2>r. r.pc = "store" /\ req' = [req EXCEPT ![w] = r]
    BY <2>1
  <2> HIDE DEF r
  <2>2. req'[w].pc = "store" /\ \A v \in Workers \ {w} : req'[v] = req[v]
    BY <2>r, ReqStep
  <2> QED BY <1>5, <2>2, TokensStay DEF Upsert
<1>6. ASSUME NEW w \in Workers, (\E old : Store(w, old)) \/ Abandon(w)
      PROVE  StatesDrawn'
  BY <1>6, ReplyStep, TokensStay DEF Store, Abandon
<1>7. ASSUME UNCHANGED <<flows, nextState, completed, req>>
      PROVE  StatesDrawn'
  BY <1>7 DEF StatesDrawn, At
<1> QED
  BY <1>0, <1>1, <1>2, <1>3, <1>4, <1>5, <1>6, <1>7
     DEF Next, Authorize, EndSession, DeleteUser, Tick

-----------------------------------------------------------------------------
\* The user table

\* What a login or a deletion leaves of the user table: ids are not reused, rows
\* keep id and identity, admin rows and names stay.
UsersKept ==
  /\ nextUser <= nextUser'
  /\ \A v \in users' : v.id >= nextUser \/ \E u \in users : u.id = v.id /\ u.identity = v.identity
  /\ \A u \in users : u.admin => \E v \in users' : v.id = u.id /\ v.admin /\ v.identity = u.identity
  /\ \A u \in users, v \in users' : u.id = v.id /\ u.name => v.name

\* No step changes whose row it is, or takes away a name or a grant.
LEMMA UsersStep ==
  ASSUME TypeOK, UserKeys, [Next]_vars
  PROVE  UserKeys' /\ UsersKept
<1>t. nextUser \in Nat /\ \A u \in users : u.id \in Nat
  BY DEF TypeOK, UserRow
<1>1. CASE UNCHANGED <<users, nextUser>>
  BY <1>t, <1>1 DEF UserKeys, UsersKept
<1>2. ASSUME NEW w \in Workers, NEW admin \in BOOLEAN, Upsert(w, admin)
      PROVE  UserKeys' /\ UsersKept
  <2>1. req[w] \in CallbackReq
    BY <1>2, LoginShape DEF Upsert, At, TypeOK
  <2> DEFINE i == req[w].code.identity
  <2>2. i \in Identities /\ req[w].code.name \in BOOLEAN
    BY <2>1 DEF CallbackReq, Code
  <2>3. PICK u \in Upserted(i, req[w].code.name, admin) :
          /\ users' = {v \in users : v.id # u.id} \cup {u}
          /\ nextUser' = IF u.id = nextUser THEN nextUser + 1 ELSE nextUser
    BY <1>2 DEF Upsert
  <2>4. admin => i \in AdminIdentities
    BY <1>2 DEF Upsert, MayGrant
  <2>5. /\ u \in UserRow /\ u.identity = i
        /\ \/ /\ u.id = nextUser /\ RowsOf(i) = {} /\ u.admin = admin
           \/ \E v \in users : /\ v.identity = i /\ u.id = v.id
                               /\ (v.name => u.name) /\ (v.admin => u.admin)
                               /\ (u.admin => v.admin \/ admin)
    BY <2>2, UpsertWrites
  <2> HIDE DEF i
  <2>6. CASE u.id = nextUser /\ RowsOf(i) = {} /\ u.admin = admin
    <3>1. \A v \in users : v.id < nextUser /\ v.identity # i
      BY <2>6 DEF RowsOf, UserKeys
    <3>2. users' = users \cup {u} /\ nextUser' = nextUser + 1
      BY <1>t, <2>3, <2>6, <3>1
    <3>3. u.admin => u.identity \in AdminIdentities
      BY <2>4, <2>5, <2>6
    <3>4. UserKeys'
      BY <1>t, <2>5, <2>6, <3>1, <3>2, <3>3 DEF UserKeys
    <3>5. nextUser <= nextUser' /\ u.id >= nextUser
      BY <1>t, <2>6, <3>2
    <3>6. \A x \in users : x.id # u.id
      BY <1>t, <2>6, <3>1
    <3>7. \A x \in users, y \in users' : x.id = y.id => x = y
      BY <3>2, <3>6 DEF UserKeys
    <3>8. \A y \in users' : y.id >= nextUser \/ y \in users
      BY <3>2, <3>5
    <3>9. users \subseteq users'
      BY <3>2
    <3>10. UsersKept
      BY <3>5, <3>7, <3>8, <3>9, Zenon DEF UsersKept
    <3> QED BY <3>4, <3>10
  <2>7. ASSUME NEW v \in users, v.identity = i, u.id = v.id, v.name => u.name,
               v.admin => u.admin, u.admin => v.admin \/ admin
        PROVE  UserKeys' /\ UsersKept
    <3>1. \A x \in users : x.id = u.id \/ x.identity = i => x = v
      BY <2>7 DEF UserKeys
    <3>2. u.id < nextUser /\ nextUser' = nextUser
      BY <1>t, <2>3, <2>7 DEF UserKeys
    <3>3. u.admin => u.identity \in AdminIdentities
      BY <2>4, <2>5, <2>7 DEF UserKeys
    <3>4. UserKeys'
      BY <2>3, <2>5, <3>1, <3>2, <3>3 DEF UserKeys
    <3>5. nextUser <= nextUser'
      BY <1>t, <3>2
    <3>6. \A y \in users' : y \in users \/ y = u
      BY <2>3
    <3>7. \A x \in users : x \in users' \/ x = v
      BY <2>3, <3>1
    <3>8. \A y \in users' : \E x \in users : x.id = y.id /\ x.identity = y.identity
      BY <2>5, <2>7, <3>6
    <3>9. \A x \in users : x.admin =>
            \E y \in users' : y.id = x.id /\ y.admin /\ y.identity = x.identity
      <4>1. u \in users' /\ u.id = v.id /\ u.identity = v.identity
        BY <2>3, <2>5, <2>7
      <4> QED BY <2>7, <3>7, <4>1, Zenon
    <3>10. \A x \in users, y \in users' : x.id = y.id /\ x.name => y.name
      <4>1. SUFFICES ASSUME NEW x \in users, NEW y \in users', x.id = y.id, x.name
                     PROVE  y.name
        OBVIOUS
      <4>2. CASE y = u
        BY <2>7, <3>1, <4>1, <4>2, Zenon
      <4>3. CASE y \in users
        <5>1. x = y
          BY <4>1, <4>3 DEF UserKeys
        <5> QED BY <4>1, <5>1
      <4> QED BY <3>6, <4>2, <4>3
    <3>11. UsersKept
      BY <3>5, <3>8, <3>9, <3>10, Zenon DEF UsersKept
    <3> QED BY <3>4, <3>11
  <2> QED BY <2>5, <2>6, <2>7
<1>3. ASSUME NEW s \in sessions, NEW u \in users, DeleteUser(s, u)
      PROVE  UserKeys' /\ UsersKept
  BY <1>t, <1>3 DEF DeleteUser, UserKeys, UsersKept
<1> QED
  BY <1>1, <1>2, <1>3
     DEF Next, vars, Begin, Park, Take, Complete, Store, Abandon, Authorize, EndSession, Tick

-----------------------------------------------------------------------------
\* Codes and sessions

\* Codes are issued by the right provider and not withdrawn.
LEMMA CodesStep ==
  ASSUME TypeOK, CodesIssued, [Next]_vars
  PROVE  CodesIssued' /\ codes \subseteq codes'
<1>1. CASE UNCHANGED codes
  BY <1>1 DEF CodesIssued
<1>2. ASSUME NEW f \in flows, NEW i \in Identities, NEW name \in BOOLEAN, Authorize(f, i, name)
      PROVE  CodesIssued' /\ codes \subseteq codes'
  BY <1>2 DEF Authorize, CodesIssued
<1> QED
  BY <1>1, <1>2
     DEF Next, vars, Begin, Park, Take, Complete, Upsert, Store, Abandon, EndSession,
         DeleteUser, Tick

\* What backs a session is not taken away again, by whatever step.
LEMMA BackedStays ==
  ASSUME TypeOK, CodesIssued, UserKeys, [Next]_vars
  PROVE  \A s \in SessionRow : Backed(s) =>
           /\ s.user < nextUser'
           /\ \A u \in users' : u.id = s.user => u.identity = s.identity
           /\ s.admin =>
                \E u \in users' : u.id = s.user /\ u.admin /\ u.identity \in AdminIdentities
           /\ \E c \in codes' : /\ c.state = s.state /\ c.identity = s.identity
                                /\ ProviderOf[c.identity] = c.provider
<1> SUFFICES ASSUME NEW s \in SessionRow, Backed(s)
             PROVE  /\ s.user < nextUser'
                    /\ \A u \in users' : u.id = s.user => u.identity = s.identity
                    /\ s.admin =>
                         \E u \in users' : u.id = s.user /\ u.admin /\ u.identity \in AdminIdentities
                    /\ \E c \in codes' : /\ c.state = s.state /\ c.identity = s.identity
                                         /\ ProviderOf[c.identity] = c.provider
  OBVIOUS
<1>1. UsersKept /\ TypeOK' /\ codes \subseteq codes'
  BY UsersStep, CodesStep, TypeStep
<1>2. /\ nextUser \in Nat /\ nextUser' \in Nat /\ s.user \in Nat
      /\ \A u \in users' : u.id \in Nat
  BY <1>1 DEF TypeOK, SessionRow, UserRow
<1>3. s.user < nextUser'
  BY <1>1, <1>2 DEF Backed, UsersKept
<1>4. \A u \in users' : u.id = s.user => u.identity = s.identity
  BY <1>1, <1>2 DEF Backed, UsersKept
<1>5. s.admin => \E u \in users' : u.id = s.user /\ u.admin /\ u.identity \in AdminIdentities
  BY <1>1 DEF Backed, UsersKept
<1>6. \E c \in codes' : /\ c.state = s.state /\ c.identity = s.identity
                        /\ ProviderOf[c.identity] = c.provider
  BY <1>1 DEF Backed
<1> QED BY <1>3, <1>4, <1>5, <1>6

\* A request that was not the step's own, or is done, is still vouched for.
LEMMA VouchedStays ==
  ASSUME LoginInv, [Next]_vars, NEW v \in Workers,
         req'[v] = req[v] \/ req'[v].pc \in {"idle", "park"}
  PROVE  /\ req'[v].pc \in {"exchange", "upsert"} => req'[v].code \in codes'
         /\ req'[v].pc = "upsert" => req'[v].code.state = req'[v].flow.state
         /\ req'[v].pc = "store" => Backed(req[v].session)'
<1>1. codes \subseteq codes'
  BY CodesStep DEF LoginInv
<1>2. req'[v].pc \in {"exchange", "upsert"} => req'[v].code \in codes'
  BY <1>1 DEF LoginInv, CallbacksVouched
<1>3. req'[v].pc = "upsert" => req'[v].code.state = req'[v].flow.state
  BY DEF LoginInv, CallbacksVouched, At
<1>4. ASSUME req'[v].pc = "store"
      PROVE  Backed(req[v].session)'
  <2>1. req'[v] = req[v] /\ At(v, "store")
    BY <1>4 DEF At
  <2>2. req[v].session \in SessionRow /\ Backed(req[v].session)
    BY <2>1, LoginShape DEF LoginInv, CallbacksVouched, TypeOK, At, StoreReq
  <2> QED BY <2>1, <2>2, BackedStays DEF LoginInv, Backed
<1> QED BY <1>2, <1>3, <1>4

\* The session that an upsert prepares is backed.
LEMMA UpsertBacks ==
  ASSUME LoginInv, [Next]_vars, NEW w \in Workers, NEW admin \in BOOLEAN, Upsert(w, admin)
  PROVE  req'[w].pc = "store" /\ Backed(req[w].session)'
<1> DEFINE c == req[w].code
<1>1. req[w] \in CallbackReq
  BY LoginShape DEF LoginInv, TypeOK, Upsert, At
<1>2. c \in codes /\ c \in Code /\ c.state = req[w].flow.state
  BY <1>1 DEF LoginInv, CallbacksVouched, Upsert, At, CallbackReq
<1>3. PICK u \in Upserted(c.identity, c.name, admin) :
        /\ users' = {v \in users : v.id # u.id} \cup {u}
        /\ req' = [req EXCEPT ![w] =
              [pc |-> "store",
               session |-> [user |-> u.id, admin |-> u.admin, identity |-> c.identity,
                            state |-> req[w].flow.state]]]
  BY DEF Upsert
<1> DEFINE s == [user |-> u.id, admin |-> u.admin, identity |-> c.identity,
                 state |-> req[w].flow.state]
           r == [pc |-> "store", session |-> s]
<1>4. r.pc = "store" /\ r.session = s /\ req' = [req EXCEPT ![w] = r]
  BY <1>3
<1>5. /\ s.user = u.id /\ s.admin = u.admin /\ s.identity = c.identity
      /\ s.state = c.state
  BY <1>2
<1> HIDE DEF s, r
<1>6. req'[w] = r
  BY <1>4, ReqStep DEF LoginInv
<1>7. u.identity = c.identity
  BY <1>2, UpsertWrites DEF LoginInv, Code
<1>8. UserKeys' /\ codes \subseteq codes' /\ CodesIssued
  BY UsersStep, CodesStep DEF LoginInv
<1>9. u \in users' /\ \A v \in users' : v.id = u.id => v = u
  BY <1>3
<1>10. s.user < nextUser' /\ \A v \in users' : v.id = s.user => v.identity = s.identity
  BY <1>5, <1>7, <1>8, <1>9 DEF UserKeys
<1>11. s.admin => \E v \in users' : v.id = s.user /\ v.admin /\ v.identity \in AdminIdentities
  BY <1>5, <1>8, <1>9, Zenon DEF UserKeys
<1>12. \E d \in codes' : /\ d.state = s.state /\ d.identity = s.identity
                         /\ ProviderOf[d.identity] = d.provider
  <2> HIDE DEF c
  <2> QED BY <1>2, <1>5, <1>8 DEF CodesIssued
<1>13. req'[w].session = s /\ req'[w].pc = "store"
  BY <1>4, <1>6
<1> QED BY <1>10, <1>11, <1>12, <1>13 DEF Backed

\* A callback carries the code of its own flow from the exchange on.
LEMMA CallbacksStep ==
  ASSUME LoginInv, [Next]_vars
  PROVE  CallbacksVouched'
<1> DEFINE P(v) == /\ req'[v].pc \in {"exchange", "upsert"} => req'[v].code \in codes'
                   /\ req'[v].pc = "upsert" => req'[v].code.state = req'[v].flow.state
                   /\ req'[v].pc = "store" => Backed(req[v].session)'
<1>0. SUFFICES ASSUME NEW v \in Workers
               PROVE  P(v)
  BY DEF CallbacksVouched, At
<1>1. CASE req'[v] = req[v] \/ req'[v].pc \in {"idle", "park"}
  BY <1>1, VouchedStays
<1>2. ASSUME NEW p \in Providers, NEW f \in flows, NEW c \in codes, Take(v, p, f, c)
      PROVE  P(v)
  <2>1. req'[v] = [pc |-> "exchange", flow |-> f, provider |-> p, code |-> c]
    BY <1>2, ReqStep DEF Take, LoginInv
  <2>2. req'[v].pc = "exchange" /\ req'[v].code = c
    BY <2>1
  <2> QED BY <1>2, <2>2 DEF Take
<1>3. CASE Complete(v) /\ Vouches(req[v].flow, req[v].provider, req[v].code)
  <2>1. req'[v] = [req[v] EXCEPT !.pc = "upsert"]
    BY <1>3, ReqStep DEF Complete, LoginInv
  <2>2. req[v] \in CallbackReq
    BY <1>3, LoginShape DEF Complete, At, LoginInv, TypeOK
  <2>3. req'[v].pc = "upsert" /\ req'[v].code = req[v].code /\ req'[v].flow = req[v].flow
    BY <2>1, <2>2 DEF CallbackReq
  <2>4. req[v].code \in codes /\ req[v].code.state = req[v].flow.state
    BY <1>3 DEF LoginInv, CallbacksVouched, Complete, At, Vouches
  <2>5. codes' = codes
    BY <1>3 DEF Complete
  <2> QED BY <2>3, <2>4, <2>5
<1>4. ASSUME NEW admin \in BOOLEAN, Upsert(v, admin)
      PROVE  P(v)
  BY <1>4, UpsertBacks
<1>5. ASSUME NEW w \in Workers, w # v,
             \/ \E p \in Providers : Begin(w, p)
             \/ Park(w)
             \/ \E p \in Providers, f \in flows, c \in codes : Take(w, p, f, c)
             \/ Complete(w)
             \/ \E admin \in BOOLEAN : Upsert(w, admin)
             \/ \E old : Store(w, old)
             \/ Abandon(w)
      PROVE  req'[v] = req[v]
  BY <1>5 DEF Begin, Park, Take, Complete, Upsert, Store, Abandon, Reply, LoginInv, TypeOK
<1>6. ASSUME \/ \E p \in Providers : Begin(v, p)
             \/ Park(v)
             \/ Complete(v) /\ ~Vouches(req[v].flow, req[v].provider, req[v].code)
             \/ \E old : Store(v, old)
             \/ Abandon(v)
      PROVE  req'[v].pc \in {"idle", "park"}
  <2>1. CASE Reply(v)
    BY <2>1, ReplyStep DEF LoginInv
  <2>2. ASSUME NEW p \in Providers, Begin(v, p)
        PROVE  req'[v].pc = "park"
    <3>1. req'[v] = [pc |-> "park", state |-> nextState, provider |-> p]
      BY <2>2, ReqStep DEF Begin, LoginInv
    <3> QED BY <3>1
  <2> QED BY <1>6, <2>1, <2>2 DEF Park, Complete, Store, Abandon
<1>7. CASE UNCHANGED req
  BY <1>7, <1>1
<1> HIDE DEF P
<1> QED
  BY <1>1, <1>2, <1>3, <1>4, <1>5, <1>6, <1>7
     DEF Next, vars, Authorize, EndSession, DeleteUser, Tick

\* Every session is one that was there, or one that a callback had prepared.
LEMMA SessionsStep ==
  ASSUME LoginInv, [Next]_vars
  PROVE  \A s \in sessions' : Backed(s)'
<1>1. \A s \in sessions' : \/ s \in sessions
                           \/ \E w \in Workers : At(w, "store") /\ s = req[w].session
  BY DEF Next, vars, Begin, Park, Take, Complete, Upsert, Store, Abandon, Authorize,
         EndSession, DeleteUser, Tick
<1>2. \A s \in sessions' : s \in SessionRow /\ Backed(s)
  BY <1>1, LoginShape DEF LoginInv, TypeOK, CallbacksVouched, At, StoreReq
<1> QED BY <1>2, BackedStays DEF LoginInv, Backed

-----------------------------------------------------------------------------
\* The theorems

\* The inductive invariant: a state token is drawn, parked, taken or used up,
\* never two of these, and every session keeps its code, its row and its grant.
THEOREM LoginInvariant == Spec => []LoginInv
<1>1. Init => LoginInv
  <2> SUFFICES ASSUME Init PROVE LoginInv
    OBVIOUS
  <2>1. \A w \in Workers : req[w].pc = "idle"
    BY DEF Init, Idle
  <2>2. TypeOK
    BY DEF Init, TypeOK, Requests
  <2> QED BY <2>1, <2>2 DEF Init, LoginInv, StatesDrawn, CodesIssued, UserKeys, CallbacksVouched, At
<1>2. LoginInv /\ [Next]_vars => LoginInv'
  <2> SUFFICES ASSUME LoginInv, [Next]_vars PROVE LoginInv'
    OBVIOUS
  <2>1. TypeOK'
    BY TypeStep DEF LoginInv
  <2>2. StatesDrawn'
    BY StatesStep DEF LoginInv
  <2>3. CodesIssued' /\ UserKeys'
    BY CodesStep, UsersStep DEF LoginInv
  <2>4. CallbacksVouched'
    BY CallbacksStep
  <2>5. (\A s \in sessions : Backed(s))'
    BY SessionsStep
  <2> QED BY <2>1, <2>2, <2>3, <2>4, <2>5 DEF LoginInv
<1> QED BY <1>1, <1>2, PTL DEF Spec

\* Every session is its own login's person, names no other user, and is an
\* admin's only while the row grants it.
THEOREM LoginsAreSound ==
  Spec => [](SessionIsAuthenticated /\ SessionNamesOwnUser /\ AdminSessionsBacked)
<1>1. LoginInv => SessionIsAuthenticated /\ SessionNamesOwnUser /\ AdminSessionsBacked
  BY DEF LoginInv, Backed, SessionIsAuthenticated, SessionNamesOwnUser, AdminSessionsBacked
<1> QED BY <1>1, LoginInvariant, PTL

\* However often and wherever its callback arrives, a flow completes once.
THEOREM FlowsCompleteOnce == Spec => FlowCompletesOnce
<1>1. LoginInv /\ [Next]_vars =>
        [\A w \in Workers : At(w, "exchange") /\ req'[w].pc = "upsert" =>
           req[w].flow.state \notin completed]_vars
  BY DEF LoginInv, StatesDrawn
<1> QED BY <1>1, LoginInvariant, PTL DEF Spec, FlowCompletesOnce

\* No login is cut short by the sweep of another one.
THEOREM FlowsLeave == Spec => FlowsLeaveByTakeOrAge
<1>1. LoginInv /\ [Next]_vars =>
        [\A f \in flows \ flows' :
           ~Fresh(f) \/ \E w \in Workers : req'[w].pc = "exchange" /\ req'[w].flow = f]_vars
  <2> SUFFICES ASSUME LoginInv, Next, NEW f \in flows \ flows'
               PROVE  ~Fresh(f) \/ \E w \in Workers : req'[w].pc = "exchange" /\ req'[w].flow = f
    OBVIOUS
  <2>1. ASSUME NEW w \in Workers, NEW p \in Providers, Begin(w, p)
        PROVE  ~Fresh(f)
    <3>1. f.created \in Nat /\ now \in Nat /\ Swept(f)
      BY <2>1 DEF LoginInv, TypeOK, Flow, Begin
    <3> QED BY <3>1, LoginAssumption DEF Swept, Fresh
  <2>2. ASSUME NEW w \in Workers, NEW p \in Providers, NEW g \in flows, NEW c \in codes,
               Take(w, p, g, c)
        PROVE  req'[w].pc = "exchange" /\ req'[w].flow = f
    <3>1. req'[w] = [pc |-> "exchange", flow |-> g, provider |-> p, code |-> c]
      BY <2>2, ReqStep DEF Take, LoginInv
    <3>2. g = f
      BY <2>2 DEF Take
    <3> QED BY <3>1, <3>2
  <2>3. ~(flows \subseteq flows')
    OBVIOUS
  <2> QED
    BY <2>1, <2>2, <2>3
       DEF Next, Park, Complete, Upsert, Store, Abandon, Authorize, EndSession, DeleteUser, Tick
<1> QED BY <1>1, LoginInvariant, PTL DEF Spec, FlowsLeaveByTakeOrAge

\* A name once told is not lost by a later login without it.
THEOREM NamesKept == Spec => NameKept
<1>1. LoginInv /\ [Next]_vars =>
        [\A u \in users, v \in users' : u.id = v.id /\ u.name => v.name]_vars
  BY UsersStep DEF LoginInv, UsersKept
<1> QED BY <1>1, LoginInvariant, PTL DEF Spec, NameKept
=============================================================================
