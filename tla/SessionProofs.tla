--------------------------- MODULE SessionProofs ---------------------------
(***************************************************************************)
(* The guarantees of sessions and tokens for any tabs, users, life times   *)
(* and changes of users.  The argument is about the tokens in use: each is *)
(* backed by a moment in which its user was active in its role, no longer  *)
(* before its expiry than a login and the life of a token take.            *)
(***************************************************************************)
EXTENDS Session, TLAPS

-----------------------------------------------------------------------------
(* The inductive invariant.                                                *)

\* No role was held after now.
HeldInv == \A u \in User, r \in Role : held[u][r] <= now

Backed(k) == k # NoSession => k.exp <= LastHeld(k.user, k.role) + MaxLogin + TTL

TokenInv ==
  /\ Backed(stored)
  /\ \A t \in Tab : Backed(login[t].session)
  /\ \A c \in Call : Backed(call[c].token)

\* The role a login has read was held when it read it.
LoginGood(e) ==
  /\ e.stage = "sent" => e.user \in User
  /\ e.stage = "found" => /\ e.user \in User /\ e.role \in Role
                          /\ now <= e.at + MaxLogin
                          /\ e.at <= LastHeld(e.user, e.role)
  /\ e.outcome = "ok" => e.session # NoSession

LoginInv == \A t \in Tab : LoginGood(login[t])

\* Who is told 401 carried no token, or one that has expired.
CallGood(e) ==
  e.outcome = "unauthorized" => e.token = NoSession \/ e.token.exp <= now

CallInv == \A c \in Call : CallGood(call[c])

\* A tab logs in after it was opened, the only one does so at once, and what
\* else ends its wish to log in is a session.
LoneInv ==
  /\ \A t \in Tab \ opened : login[t].stage = "free" /\ tab[t].due
  /\ \A t \in Tab : Stuck(t) => tab[t].session # NoSession
  /\ \A t \in Tab : opened = {t} /\ tab[t].loading =>
       IF tab[t].due THEN stored = NoSession /\ login[t].stage = "free"
                     ELSE login[t].stage # "free"

SInv == TypeOK /\ HeldInv /\ TokenInv /\ LoginInv /\ CallInv /\ LoneInv

\* The sets TypeOK names.
TabSet == [session : SessionSet, loading : BOOLEAN, due : BOOLEAN]

LoginSet == [stage : {"free", "sent", "found", "answered"},
             user : User \cup {None}, role : Role \cup {None},
             at : 0..MaxTime, session : SessionSet,
             outcome : {None, "ok", "unauthorized", "error"}]

CallSet == [stage : {"free", "sent", "answered"}, token : SessionSet,
            outcome : {None, "ok", "forbidden", "unauthorized", "error"}]

-----------------------------------------------------------------------------
(* Sessions and the roles that back them.                                  *)

LEMMA NoneIsNobody == None \notin User /\ None \notin Role
<1>1. Roles = {"viewer", "operator", "reviewer", "admin"}
  BY DEF Roles, roleRank
<1> QED
  BY <1>1, UserAssumption DEF None

LEMMA SessionTypes ==
  /\ NoSession \in SessionSet
  /\ \A k \in SessionSet : k # NoSession =>
       k.user \in User /\ k.role \in Role /\ k.exp \in Nat /\ k.exp \in 0..(MaxTime + TTL)
  /\ \A u \in User, r \in Role, e \in 0..(MaxTime + TTL) :
       LET k == [user |-> u, role |-> r, exp |-> e] IN k \in SessionSet /\ k # NoSession
  BY NoneIsNobody, TimeAssumption DEF SessionSet, NoSession

LEMMA LoadedFields ==
  \A s : /\ Loaded(s).session = s
         /\ Loaded(s).loading => s = NoSession
         /\ s = NoSession => Loaded(s).loading /\ Loaded(s).due
  BY Zenon DEF Loaded

\* The finally clause: nothing is loading.
LEMMA SettledFields ==
  \A s : /\ Settled(s).session = s
         /\ ~Settled(s).loading
         /\ s = NoSession => Settled(s).due
  BY Zenon DEF Settled

\* Steps that change neither users nor time leave what backs a role alone.
LEMMA HeldKept ==
  ASSUME UNCHANGED <<now, users, held>>
  PROVE  /\ \A u, r : LastHeld(u, r)' = LastHeld(u, r)
         /\ \A k : Backed(k) => Backed(k)'
         /\ \A e : LoginGood(e) => LoginGood(e)'
         /\ \A e : CallGood(e) => CallGood(e)'
  BY DEF LastHeld, Backed, LoginGood, CallGood

LEMMA HeldTypes ==
  ASSUME TypeOK, HeldInv, NEW u \in User, NEW r \in Role
  PROVE  LastHeld(u, r) \in Nat /\ LastHeld(u, r) <= now
  BY DEF TypeOK, HeldInv, LastHeld

\* What backs a role only comes later.
LEMMA HeldGrows ==
  ASSUME SInv, Tick \/ \E u \in User, r \in Role, a \in BOOLEAN : ChangeUser(u, r, a),
         NEW u \in User, NEW r \in Role
  PROVE  LastHeld(u, r) <= LastHeld(u, r)'
<1>1. now \in Nat /\ held[u][r] \in Nat /\ held[u][r] <= now
  BY DEF SInv, TypeOK, HeldInv
<1>2. CASE Tick
  BY <1>1, <1>2 DEF Tick, LastHeld
<1>3. ASSUME NEW v \in User, NEW s \in Role, NEW a \in BOOLEAN, ChangeUser(v, s, a)
      PROVE  LastHeld(u, r) <= LastHeld(u, r)'
  <2>1. now' = now /\ held' = IF users[v].active
                              THEN [held EXCEPT ![v][users[v].role] = now] ELSE held
    BY <1>3 DEF ChangeUser
  <2>2. users' = [users EXCEPT ![v] = [role |-> s, active |-> a]]
    BY <1>3 DEF ChangeUser
  <2>3. users[u] = [role |-> r, active |-> TRUE]
          => held'[u][r] = now \/ users'[u] = users[u]
    <3>1. CASE u = v
      BY <2>1, <3>1 DEF SInv, TypeOK
    <3>2. CASE u # v
      BY <2>2, <3>2 DEF SInv, TypeOK
    <3> QED
      BY <3>1, <3>2
  <2>4. held'[u][r] = now \/ held'[u][r] = held[u][r]
    BY <2>1 DEF SInv, TypeOK
  <2> QED
    BY <1>1, <2>1, <2>3, <2>4 DEF LastHeld
<1> QED
  BY <1>2, <1>3

-----------------------------------------------------------------------------
(* Every step keeps the invariant.                                         *)

LEMMA InitSInv == Init => SInv
<1> SUFFICES ASSUME Init PROVE SInv
  OBVIOUS
<1>1. users \in [User -> [role : Role, active : BOOLEAN]]
  BY UserAssumption DEF Init
<1>2. TypeOK
  <2>1. tab \in [Tab -> [session : SessionSet, loading : BOOLEAN, due : BOOLEAN]]
    BY SessionTypes DEF Init, Loaded
  <2>2. login \in [Tab -> [stage : {"free", "sent", "found", "answered"},
                           user : User \cup {None}, role : Role \cup {None},
                           at : 0..MaxTime, session : SessionSet,
                           outcome : {None, "ok", "unauthorized", "error"}]]
    BY SessionTypes, TimeAssumption DEF Init, NoLogin
  <2>3. call \in [Call -> [stage : {"free", "sent", "answered"}, token : SessionSet,
                           outcome : {None, "ok", "forbidden", "unauthorized", "error"}]]
    BY SessionTypes DEF Init, NoCall
  <2>4. now \in 0..MaxTime /\ changes \in 0..MaxChanges /\ opened \subseteq Tab
        /\ held \in [User -> [Role -> 0..MaxTime]] /\ stored \in SessionSet
    BY SessionTypes, TimeAssumption, BoundAssumption DEF Init
  <2>5. up \in BOOLEAN
    BY DEF Init
  <2>6. \A t \in Tab : tab[t].loading /\ login[t].stage = "free"
    BY DEF Init, Loaded, NoLogin
  <2> QED
    BY <1>1, <2>1, <2>2, <2>3, <2>4, <2>5, <2>6 DEF TypeOK
<1>3. HeldInv /\ TokenInv
  BY DEF Init, HeldInv, TokenInv, Backed, NoLogin, NoCall
<1>4. LoginInv /\ CallInv
  BY DEF Init, LoginInv, CallInv, LoginGood, CallGood, NoLogin, NoCall, None
<1>5. LoneInv
  BY DEF Init, LoneInv, Stuck, NoLogin, Loaded
<1> QED
  BY <1>2, <1>3, <1>4, <1>5 DEF SInv

\* Most steps change neither users nor time, and many one login or one call.
LEMMA OpenSInv ==
  ASSUME SInv, NEW t \in Tab, Open(t)
  PROVE  SInv'
<1>1. /\ t \notin opened /\ opened' = opened \cup {t}
      /\ tab' = [tab EXCEPT ![t] = Loaded(stored)]
      /\ UNCHANGED <<now, up, users, held, changes, stored, login, call>>
  BY DEF Open, server
<1>2. Loaded(stored) \in [session : SessionSet, loading : BOOLEAN, due : BOOLEAN]
  BY DEF Loaded, SInv, TypeOK
<1>3. TypeOK'
  <2>1. tab' \in [Tab -> [session : SessionSet, loading : BOOLEAN, due : BOOLEAN]]
    BY <1>1, <1>2 DEF SInv, TypeOK
  <2>2. \A u \in Tab : /\ tab'[u].session = NoSession => tab'[u].loading \/ tab'[u].due
                       /\ login[u].stage # "free" => tab'[u].loading
    BY <1>1 DEF SInv, TypeOK, LoneInv, Loaded
  <2> QED
    BY <1>1, <2>1, <2>2 DEF SInv, TypeOK
<1>4. HeldInv' /\ TokenInv'
  BY <1>1, HeldKept DEF SInv, HeldInv, TokenInv
<1>5. LoginInv' /\ CallInv'
  BY <1>1, HeldKept DEF SInv, LoginInv, CallInv
<1>6. LoneInv'
  <2>1. \A u \in Tab \ opened' : login[u].stage = "free" /\ tab'[u].due
    BY <1>1 DEF SInv, TypeOK, LoneInv
  <2>2. ASSUME NEW u \in Tab, opened' = {u}, tab'[u].loading
        PROVE  tab'[u].due /\ stored = NoSession /\ login[u].stage = "free"
    <3>1. u = t
      BY <1>1, <2>2
    <3>2. tab'[t] = Loaded(stored) /\ login[t].stage = "free"
      BY <1>1 DEF SInv, TypeOK, LoneInv
    <3>3. Loaded(stored).loading 
      BY <1>1, <2>2, <3>1, <3>2
    <3> QED
      BY <3>1, <3>2, <3>3, LoadedFields
  <2>3. \A u \in Tab : Stuck(u)' => tab'[u].session # NoSession
    <3>1. tab'[t] = Loaded(stored) /\ \A u \in Tab \ {t} : tab'[u] = tab[u]
      BY <1>1 DEF SInv, TypeOK
    <3>2. ~Stuck(t)'
      BY <3>1 DEF Stuck, Loaded
    <3> QED
      BY <1>1, <3>1, <3>2 DEF SInv, LoneInv, Stuck
  <2> QED
    BY <1>1, <2>1, <2>2, <2>3 DEF LoneInv
<1> QED
  BY <1>3, <1>4, <1>5, <1>6 DEF SInv

LEMMA Types ==
  ASSUME SInv
  PROVE  /\ tab \in [Tab -> TabSet] /\ login \in [Tab -> LoginSet] /\ call \in [Call -> CallSet]
         /\ stored \in SessionSet /\ opened \subseteq Tab /\ now \in 0..MaxTime
         /\ users \in [User -> [role : Role, active : BOOLEAN]]
         /\ held \in [User -> [Role -> 0..MaxTime]]
         /\ \A t \in Tab : /\ tab[t].session = NoSession => tab[t].loading \/ tab[t].due
                           /\ login[t].stage # "free" => tab[t].loading
  BY DEF SInv, TypeOK, TabSet, LoginSet, CallSet

\* A tab asks for a login.
LEMMA AskSInv ==
  ASSUME SInv, NEW t \in opened, NEW u \in User, Ask(t, u),
         UNCHANGED <<server, opened, stored, call>>
  PROVE  SInv'
<1> DEFINE e == [NoLogin EXCEPT !.stage = "sent", !.user = u]
<1>1. /\ tab' = [tab EXCEPT ![t].loading = TRUE, ![t].due = FALSE]
      /\ login' = [login EXCEPT ![t] = e]
      /\ UNCHANGED <<now, up, users, held, changes, opened, stored, call>>
  BY DEF Ask, server
<1>a. e = [NoLogin EXCEPT !.stage = "sent", !.user = u]
  OBVIOUS
<1> HIDE DEF e
<1>2. /\ e.stage = "sent" /\ e.user = u /\ e.outcome = None /\ e.session = NoSession
      /\ e \in LoginSet
  <2>1. NoSession \in SessionSet /\ 0 \in 0..MaxTime
    BY SessionTypes, TimeAssumption
  <2>2. e.stage = "sent" /\ e.user = u /\ e.outcome = None /\ e.session = NoSession
    BY <1>a DEF NoLogin
  <2>3. e \in LoginSet
    BY <1>a, <2>1 DEF NoLogin, LoginSet
  <2> QED
    BY <2>2, <2>3
<1>3. t \in Tab /\ t \in opened
  BY Types
<1>4. /\ tab' \in [Tab -> TabSet]
      /\ tab'[t].loading /\ ~tab'[t].due
      /\ \A v \in Tab \ {t} : tab'[v] = tab[v]
  <2>1. tab \in [Tab -> TabSet]
    BY Types
  <2> QED
    BY <1>1, <1>3, <2>1 DEF TabSet
<1>5. /\ login' \in [Tab -> LoginSet] /\ login'[t] = e
      /\ \A v \in Tab \ {t} : login'[v] = login[v]
  BY <1>1, <1>2, <1>3, Types
<1>6. TypeOK'
  <2>1. \A v \in Tab : /\ tab'[v].session = NoSession => tab'[v].loading \/ tab'[v].due
                       /\ login'[v].stage # "free" => tab'[v].loading
    BY <1>4, <1>5, Types
  <2> QED
    BY <1>1, <1>4, <1>5, <2>1 DEF SInv, TypeOK, TabSet, LoginSet
<1>7. HeldInv' /\ TokenInv'
  BY <1>1, <1>2, <1>5, HeldKept DEF SInv, HeldInv, TokenInv, Backed
<1>8. LoginInv'
  <2>1. LoginGood(e)'
    BY <1>2 DEF LoginGood, None
  <2> QED
    BY <1>1, <1>5, <2>1, HeldKept DEF SInv, LoginInv
<1>9. CallInv'
  BY <1>1, HeldKept DEF SInv, CallInv
<1>10. LoneInv'
  BY <1>1, <1>2, <1>3, <1>4, <1>5 DEF SInv, LoneInv, Stuck
<1> QED
  BY <1>6, <1>7, <1>8, <1>9, <1>10 DEF SInv

\* The server is busy with a login.
LEMMA LoginStep ==
  ASSUME SInv, NEW t \in Tab, NEW e \in LoginSet,
         login' = [login EXCEPT ![t] = e], login[t].stage # "free", e.stage # "free",
         LoginGood(e), Backed(e.session),
         UNCHANGED <<server, opened, stored, tab, call>>
  PROVE  SInv'
<1>1. UNCHANGED <<now, up, users, held, changes, opened, stored, tab, call>>
  BY DEF server
<1>2. /\ login' \in [Tab -> LoginSet] /\ login'[t] = e
      /\ \A v \in Tab \ {t} : login'[v] = login[v]
  BY Types
<1>3. TypeOK'
  BY <1>1, <1>2, Types DEF SInv, TypeOK, LoginSet
<1>4. HeldInv' /\ TokenInv' /\ CallInv'
  BY <1>1, <1>2, HeldKept DEF SInv, HeldInv, TokenInv, CallInv
<1>5. LoginInv'
  BY <1>1, <1>2, HeldKept DEF SInv, LoginInv
<1>6. LoneInv'
  BY <1>1, <1>2 DEF SInv, LoneInv, Stuck
<1> QED
  BY <1>3, <1>4, <1>5, <1>6 DEF SInv

\* A request of a page proceeds; its answer may clear the session.
LEMMA CallStep ==
  ASSUME SInv, NEW c \in Call, NEW e \in CallSet,
         call' = [call EXCEPT ![c] = e], CallGood(e), Backed(e.token),
         stored' = stored \/ stored' = NoSession,
         UNCHANGED <<server, opened, tab, login>>
  PROVE  SInv'
<1>1. UNCHANGED <<now, up, users, held, changes, opened, tab, login>>
  BY DEF server
<1>2. /\ call' \in [Call -> CallSet] /\ call'[c] = e
      /\ \A d \in Call \ {c} : call'[d] = call[d]
  BY Types
<1>3. TypeOK'
  BY <1>1, <1>2, Types, SessionTypes DEF SInv, TypeOK, CallSet
<1>4. Backed(stored')
  BY DEF SInv, TokenInv, Backed
<1>5. HeldInv' /\ TokenInv' /\ LoginInv'
  BY <1>1, <1>2, <1>4, HeldKept DEF SInv, HeldInv, TokenInv, LoginInv, Backed, LastHeld
<1>6. CallInv'
  BY <1>1, <1>2, HeldKept DEF SInv, CallInv
<1>7. LoneInv'
  BY <1>1 DEF SInv, LoneInv, Stuck
<1> QED
  BY <1>3, <1>5, <1>6, <1>7 DEF SInv

LEMMA FindUserSInv ==
  ASSUME SInv, NEW t \in Tab, FindUser(t)
  PROVE  SInv'
<1> DEFINE u == login[t].user
<1>1. login[t].stage = "sent" /\ UNCHANGED <<server, opened, stored, tab, call>>
  BY DEF FindUser
<1>2. /\ u \in User /\ login[t] \in LoginSet /\ now \in 0..MaxTime
      /\ users[u] \in [role : Role, active : BOOLEAN]
      /\ Backed(login[t].session)
  BY <1>1, Types DEF SInv, LoginInv, LoginGood, TokenInv
<1>3. CASE users[u].active
  <2>1. PICK e : /\ e = [login[t] EXCEPT !.stage = "found", !.at = now, !.role = users[u].role]
                 /\ login' = [login EXCEPT ![t] = e]
    BY <1>3, Types DEF FindUser
  <2>2. e.stage = "found" /\ e.at = now /\ e.role = users[u].role /\ e.user = u
        /\ e.session = login[t].session /\ e.outcome = login[t].outcome
    BY <1>2, <2>1 DEF LoginSet
  <2>3. e \in LoginSet
    BY <1>2, <2>1 DEF LoginSet
  <2>4. LastHeld(u, users[u].role) = now
    BY <1>2, <1>3 DEF LastHeld
  <2>5. LoginGood(e)
    BY <1>2, <2>2, <2>4, TimeAssumption DEF SInv, LoginInv, LoginGood
  <2> QED
    BY <1>1, <1>2, <2>1, <2>2, <2>3, <2>5, LoginStep
<1>4. CASE ~users[u].active
  <2>1. PICK e : /\ e = [NoLogin EXCEPT !.stage = "answered", !.outcome = "unauthorized"]
                 /\ login' = [login EXCEPT ![t] = e]
    BY <1>4 DEF FindUser
  <2>2. e.stage = "answered" /\ e.outcome = "unauthorized" /\ e.session = NoSession
    BY <2>1 DEF NoLogin
  <2>3. e \in LoginSet
    <3>1. NoSession \in SessionSet /\ 0 \in 0..MaxTime
      BY SessionTypes, TimeAssumption
    <3> QED
      BY <2>1, <3>1 DEF NoLogin, LoginSet
  <2> QED
    BY <1>1, <2>1, <2>2, <2>3, LoginStep DEF LoginGood, Backed
<1> QED
  BY <1>3, <1>4

LEMMA SignSInv ==
  ASSUME SInv, NEW t \in Tab, Sign(t)
  PROVE  SInv'
<1> DEFINE k == [user |-> login[t].user, role |-> login[t].role, exp |-> now + TTL]
<1>1. /\ login[t].stage = "found" /\ UNCHANGED <<server, opened, stored, tab, call>>
  BY DEF Sign
<1>2. /\ login[t].user \in User /\ login[t].role \in Role /\ login[t].at \in Nat
      /\ now <= login[t].at + MaxLogin
      /\ login[t].at <= LastHeld(login[t].user, login[t].role)
      /\ now \in 0..MaxTime
  BY <1>1, Types DEF SInv, LoginInv, LoginGood, LoginSet
<1>3. PICK e : /\ e = [NoLogin EXCEPT !.stage = "answered", !.outcome = "ok", !.session = k]
               /\ login' = [login EXCEPT ![t] = e]
  BY DEF Sign
<1>4. e.stage = "answered" /\ e.outcome = "ok" /\ e.session = k
  BY <1>3 DEF NoLogin
<1>5. now + TTL \in 0..(MaxTime + TTL) /\ k.exp = now + TTL
  BY <1>2, TimeAssumption
<1>6. k \in SessionSet /\ k # NoSession
  BY <1>2, <1>5, SessionTypes
<1>7. Backed(k)
  <2>1. LastHeld(login[t].user, login[t].role) \in Nat
    BY <1>2, HeldTypes DEF SInv
  <2> QED
    BY <1>2, <2>1, TimeAssumption DEF Backed
<1> HIDE DEF k
<1>8. e \in LoginSet
  <2>1. 0 \in 0..MaxTime
    BY TimeAssumption
  <2> QED
    BY <1>3, <1>6, <2>1 DEF NoLogin, LoginSet
<1> QED
  BY <1>1, <1>3, <1>4, <1>6, <1>7, <1>8, LoginStep DEF LoginGood

LEMMA LoginFailsSInv ==
  ASSUME SInv, NEW t \in Tab, LoginFails(t)
  PROVE  SInv'
<1>1. PICK e : /\ e = [NoLogin EXCEPT !.stage = "answered", !.outcome = "error"]
               /\ login' = [login EXCEPT ![t] = e]
  BY DEF LoginFails
<1>2. e.stage = "answered" /\ e.outcome = "error" /\ e.session = NoSession
  BY <1>1 DEF NoLogin
<1>3. e \in LoginSet
  <2>1. NoSession \in SessionSet /\ 0 \in 0..MaxTime
    BY SessionTypes, TimeAssumption
  <2> QED
    BY <1>1, <2>1 DEF NoLogin, LoginSet
<1> QED
  BY <1>1, <1>2, <1>3, LoginStep DEF LoginFails, LoginGood, Backed

LEMMA CallsSInv ==
  ASSUME SInv, NEW c \in Call,
         \/ \E t \in Tab : Send(t, c)
         \/ \E minimum \in {"viewer", "reviewer"} : Serve(c, minimum)
         \/ Fail(c)
         \/ Answer(c)
  PROVE  SInv'
<1>1. call[c] \in CallSet /\ Backed(call[c].token) /\ Backed(stored) /\ stored \in SessionSet
  BY Types DEF SInv, TokenInv
<1>2. ASSUME NEW t \in Tab, Send(t, c) PROVE SInv'
  <2>1. PICK e : /\ e = [NoCall EXCEPT !.stage = "sent", !.token = stored]
                 /\ call' = [call EXCEPT ![c] = e]
    BY <1>2 DEF Send
  <2>2. e \in CallSet /\ e.token = stored /\ e.outcome = None
    BY <1>1, <2>1 DEF NoCall, CallSet
  <2> QED
    BY <1>1, <1>2, <2>1, <2>2, CallStep DEF Send, CallGood, None
<1>3. ASSUME NEW minimum \in {"viewer", "reviewer"}, Serve(c, minimum) PROVE SInv'
  <2> DEFINE o == Outcome(call[c].token, minimum)
  <2>1. o \in {"ok", "forbidden", "unauthorized"}
    BY DEF Outcome
  <2>2. PICK e : /\ e = [call[c] EXCEPT !.stage = "answered", !.outcome = o]
                 /\ call' = [call EXCEPT ![c] = e]
    BY <1>1, <1>3, Types DEF Serve
  <2> HIDE DEF o
  <2>3. e \in CallSet /\ e.token = call[c].token /\ e.outcome = o
    BY <1>1, <2>1, <2>2 DEF CallSet
  <2>4. CallGood(e)
    <3> SUFFICES ASSUME o = "unauthorized", e.token # NoSession PROVE e.token.exp <= now
      BY <2>3 DEF CallGood
    <3>1. ~Authentic(e.token)
      BY <2>3 DEF o, Outcome
    <3>2. e.token.role \in Role /\ e.token.exp \in Nat /\ now \in Nat
      BY <1>1, <2>3, SessionTypes, Types DEF CallSet
    <3> QED
      BY <3>1, <3>2, UserAssumption DEF Authentic
  <2> QED
    BY <1>1, <1>3, <2>2, <2>3, <2>4, CallStep DEF Serve
<1>4. CASE Fail(c)
  <2>1. PICK e : /\ e = [call[c] EXCEPT !.stage = "answered", !.outcome = "error"]
                 /\ call' = [call EXCEPT ![c] = e]
    BY <1>1, <1>4, Types DEF Fail
  <2>2. e \in CallSet /\ e.token = call[c].token /\ e.outcome = "error"
    BY <1>1, <2>1 DEF CallSet
  <2> QED
    BY <1>1, <1>4, <2>1, <2>2, CallStep DEF Fail, CallGood
<1>5. CASE Answer(c)
  <2>1. NoCall \in CallSet /\ NoCall.token = NoSession /\ NoCall.outcome = None
    BY SessionTypes DEF NoCall, CallSet
  <2> QED
    BY <1>5, <2>1, CallStep DEF Answer, CallGood, Backed, None
<1> QED
  BY <1>2, <1>3, <1>4, <1>5

LEMMA SwitchRoleSInv ==
  ASSUME SInv, NEW t \in Tab, NEW u \in User, SwitchRole(t, u)
  PROVE  SInv'
  BY AskSInv DEF SwitchRole

\* A tab has a session, of its own or of another one.
LEMMA InitializeSInv ==
  ASSUME SInv, NEW t \in Tab, Initialize(t)
  PROVE  SInv'
<1>1. CASE stored = NoSession
  BY <1>1, UserAssumption, AskSInv DEF Initialize
<1>2. CASE stored # NoSession
  <2>1. /\ t \in opened /\ tab[t].due
        /\ tab' = [tab EXCEPT ![t].session = stored, ![t].due = FALSE]
        /\ UNCHANGED <<now, up, users, held, changes, opened, stored, login, call>>
    BY <1>2 DEF Initialize, server
  <2>2. /\ tab \in [Tab -> TabSet] /\ stored \in SessionSet
    BY Types
  <2>3. /\ tab' \in [Tab -> TabSet] /\ tab'[t].session = stored
        /\ tab'[t].loading = tab[t].loading
        /\ \A v \in Tab \ {t} : tab'[v] = tab[v]
    BY <2>1, <2>2 DEF TabSet
  <2>4. TypeOK'
    <3>1. \A v \in Tab : /\ tab'[v].session = NoSession => tab'[v].loading \/ tab'[v].due
                         /\ login[v].stage # "free" => tab'[v].loading
      BY <1>2, <2>3, Types
    <3> QED
      BY <2>1, <2>3, <3>1 DEF SInv, TypeOK, TabSet
  <2>5. HeldInv' /\ TokenInv' /\ LoginInv' /\ CallInv'
    BY <2>1, HeldKept DEF SInv, HeldInv, TokenInv, LoginInv, CallInv
  <2>6. LoneInv'
    <3>1. ASSUME opened = {t} PROVE ~tab[t].loading
      BY <1>2, <2>1, <3>1 DEF SInv, LoneInv
    <3>2. t \in opened /\ tab'[t].session # NoSession
      BY <1>2, <2>3 DEF Initialize
    <3>3. \A v \in Tab : Stuck(v)' => tab'[v].session # NoSession
      BY <2>1, <2>3, <3>2 DEF SInv, LoneInv, Stuck
    <3> QED
      BY <2>1, <2>3, <3>1, <3>2, <3>3 DEF SInv, LoneInv
  <2> QED
    BY <2>4, <2>5, <2>6 DEF SInv
<1> QED
  BY <1>1, <1>2

LEMMA LoginAnswerSInv ==
  ASSUME SInv, NEW t \in Tab, LoginAnswer(t)
  PROVE  SInv'
<1> DEFINE a == login[t]
           s == IF a.outcome = "ok" THEN a.session ELSE tab[t].session
<1>1. /\ a.stage = "answered"
      /\ stored' = IF a.outcome = "ok" THEN a.session
                   ELSE IF Unauthorized(a.outcome) THEN NoSession ELSE stored
      /\ tab' = [tab EXCEPT ![t] = Settled(s)]
      /\ login' = [login EXCEPT ![t] = NoLogin]
      /\ UNCHANGED <<now, up, users, held, changes, opened, call>>
  BY Types DEF LoginAnswer, server
<1>2. a \in LoginSet /\ tab[t] \in TabSet /\ a.session \in SessionSet /\ s \in SessionSet
  BY Types DEF LoginSet, TabSet
<1> HIDE DEF s
<1>3. Settled(s) \in TabSet
  BY <1>2 DEF Settled, TabSet
<1>4. /\ tab' \in [Tab -> TabSet] /\ tab'[t] = Settled(s)
      /\ \A v \in Tab \ {t} : tab'[v] = tab[v]
  BY <1>1, <1>3, Types
<1>5. NoLogin \in LoginSet /\ NoLogin.stage = "free" /\ NoLogin.session = NoSession
      /\ NoLogin.outcome = None
  BY SessionTypes, TimeAssumption DEF NoLogin, LoginSet
<1>6. /\ login' \in [Tab -> LoginSet] /\ login'[t] = NoLogin
      /\ \A v \in Tab \ {t} : login'[v] = login[v]
  BY <1>1, <1>5, Types
<1>7. stored' \in SessionSet
  BY <1>1, <1>2, SessionTypes, Types
<1>8. TypeOK'
  <2>1. ASSUME NEW v \in Tab
        PROVE  /\ tab'[v].session = NoSession => tab'[v].loading \/ tab'[v].due
               /\ login'[v].stage # "free" => tab'[v].loading
    BY <1>4, <1>5, <1>6, Types, SettledFields
  <2> QED
    BY <1>1, <1>4, <1>6, <1>7, <2>1 DEF SInv, TypeOK, TabSet, LoginSet
<1>9. HeldInv' /\ TokenInv' /\ CallInv'
  <2>1. Backed(stored') /\ Backed(NoSession)
    BY <1>1 DEF SInv, TokenInv, Backed
  <2> QED
    BY <1>1, <1>5, <1>6, <2>1, HeldKept
    DEF SInv, HeldInv, TokenInv, CallInv, Backed, LastHeld
<1>10. LoginInv'
  <2>1. LoginGood(NoLogin)
    BY <1>5 DEF LoginGood, None
  <2> QED
    BY <1>1, <1>6, <2>1, HeldKept DEF SInv, LoginInv
<1>11. LoneInv'
  <2>1. ~tab'[t].loading /\ t \in opened
    BY <1>1, <1>4, SettledFields DEF SInv, LoneInv, Stuck
  <2>2. \A v \in Tab : opened = {v} => v = t
    BY <2>1
  <2> QED
    BY <1>1, <1>5, <1>6, <2>1, <2>2 DEF SInv, LoneInv, Stuck
<1> QED
  BY <1>8, <1>9, <1>10, <1>11 DEF SInv

LEMMA TimeAndUsersSInv ==
  ASSUME SInv, Tick \/ \E u \in User, r \in Role, a \in BOOLEAN : ChangeUser(u, r, a)
  PROVE  SInv'
<1>1. UNCHANGED <<up, opened, stored, tab, login, call>> /\ now <= now' /\ now' \in 0..MaxTime
  <2>1. now \in 0..MaxTime
    BY Types
  <2> QED
    BY <2>1, TimeAssumption DEF Tick, ChangeUser
<1>2. TypeOK'
  <2>1. CASE Tick
    BY <1>1, <2>1 DEF Tick, SInv, TypeOK
  <2>2. ASSUME NEW u \in User, NEW r \in Role, NEW a \in BOOLEAN, ChangeUser(u, r, a)
        PROVE  TypeOK'
    <3>1. users' \in [User -> [role : Role, active : BOOLEAN]]
      BY <2>2, Types DEF ChangeUser
    <3>2. held' \in [User -> [Role -> 0..MaxTime]]
      BY <2>2, Types DEF ChangeUser
    <3>3. changes' \in 0..MaxChanges
      BY <2>2, BoundAssumption DEF ChangeUser, SInv, TypeOK
    <3> QED
      BY <1>1, <3>1, <3>2, <3>3 DEF SInv, TypeOK
  <2> QED
    BY <2>1, <2>2
<1>3. HeldInv'
  <2>1. CASE Tick
    BY <1>1, <2>1, Types DEF Tick, SInv, HeldInv
  <2>2. ASSUME NEW u \in User, NEW r \in Role, NEW a \in BOOLEAN, ChangeUser(u, r, a)
        PROVE  HeldInv'
    <3>1. now' = now /\ now \in Nat
          /\ \A v \in User, q \in Role : held'[v][q] = now \/ held'[v][q] = held[v][q]
      BY <2>2, Types DEF ChangeUser
    <3> QED
      BY <3>1 DEF SInv, HeldInv
  <2> QED
    BY <2>1, <2>2
<1>4. \A u \in User, r \in Role :
        /\ LastHeld(u, r) <= LastHeld(u, r)'
        /\ LastHeld(u, r) \in Nat /\ LastHeld(u, r)' \in Nat
  BY <1>2, <1>3, HeldGrows, HeldTypes DEF SInv, TypeOK, HeldInv, LastHeld
<1>5. ASSUME NEW k \in SessionSet, Backed(k) PROVE Backed(k)'
  BY <1>4, <1>5, SessionTypes, TimeAssumption DEF Backed
<1>6. TokenInv'
  BY <1>1, <1>5, Types DEF SInv, TokenInv, LoginSet, CallSet
<1>7. LoginInv'
  <2> SUFFICES ASSUME NEW t \in Tab PROVE LoginGood(login[t])'
    BY <1>1 DEF LoginInv
  <2>1. LoginGood(login[t]) /\ login[t] \in LoginSet
    BY Types DEF SInv, LoginInv
  <2>2. login[t].stage = "found" => now' <= login[t].at + MaxLogin
    <3>1. now \in Nat /\ login[t].at \in Nat
      BY <2>1, Types DEF LoginSet
    <3> QED
      BY <2>1, <3>1, TimeAssumption DEF Tick, ChangeUser, LoginGood
  <2>3. login[t].stage = "found" =>
          login[t].at <= LastHeld(login[t].user, login[t].role)'
    <3> SUFFICES ASSUME login[t].stage = "found",
                        NEW u, u = login[t].user, NEW r, r = login[t].role
                 PROVE  login[t].at <= LastHeld(u, r)'
      BY <1>1 DEF LastHeld
    <3>1. u \in User /\ r \in Role /\ login[t].at \in Nat /\ login[t].at <= LastHeld(u, r)
      BY <2>1 DEF LoginSet, LoginGood
    <3> QED
      BY <1>4, <3>1
  <2> QED
    BY <1>1, <2>1, <2>2, <2>3 DEF LoginGood
<1>8. CallInv'
  <2> SUFFICES ASSUME NEW c \in Call PROVE CallGood(call[c])'
    BY <1>1 DEF CallInv
  <2>1. CallGood(call[c]) /\ call[c].token \in SessionSet /\ now \in Nat /\ now' \in Nat
    BY <1>1, Types DEF SInv, CallInv, CallSet
  <2> QED
    BY <1>1, <2>1, SessionTypes DEF CallGood
<1>9. LoneInv'
  BY <1>1 DEF SInv, LoneInv, Stuck
<1> QED
  BY <1>2, <1>3, <1>6, <1>7, <1>8, <1>9 DEF SInv

LEMMA NextSInv == SInv /\ [Next]_vars => SInv'
<1> SUFFICES ASSUME SInv, [Next]_vars PROVE SInv'
  OBVIOUS
<1>1. ASSUME NEW t \in Tab, Run(t) PROVE SInv'
  BY <1>1, InitializeSInv, FindUserSInv, SignSInv, LoginFailsSInv, LoginAnswerSInv DEF Run
<1>2. ASSUME NEW t \in Tab, Open(t) \/ \E u \in User : SwitchRole(t, u) PROVE SInv'
  BY <1>2, OpenSInv, SwitchRoleSInv
<1>3. ASSUME NEW c \in Call,
             \/ \E t \in Tab : Send(t, c)
             \/ Answer(c) \/ Fail(c)
             \/ \E minimum \in {"viewer", "reviewer"} : Serve(c, minimum)
      PROVE  SInv'
  BY <1>3, CallsSInv
<1>4. CASE Tick \/ \E u \in User, r \in Role, active \in BOOLEAN : ChangeUser(u, r, active)
  BY <1>4, TimeAndUsersSInv
<1>5. CASE Toggle \/ UNCHANGED vars
  <2>1. UNCHANGED <<now, users, held, changes, stored, opened, tab, login, call>>
        /\ up' \in BOOLEAN
    BY <1>5 DEF Toggle, vars, server, SInv, TypeOK
  <2>2. TypeOK'
    BY <2>1 DEF SInv, TypeOK
  <2> QED
    BY <2>1, <2>2, HeldKept
    DEF SInv, HeldInv, TokenInv, LoginInv, CallInv, LoneInv, Stuck
<1> QED
  BY <1>1, <1>2, <1>3, <1>4, <1>5 DEF Next

(***************************************************************************)
(* Every reachable state of browser and server satisfies the inductive     *)
(* invariant: each token is backed by a role its user had.                 *)
(***************************************************************************)
THEOREM SessionInvariance == Spec => []SInv
<1> QED
  BY InitSInv, NextSInv, PTL DEF Spec

-----------------------------------------------------------------------------
(* What the invariant is for.                                              *)

(***************************************************************************)
(* A tab without a session is loading or about to log in, and shows        *)
(* nothing else while it waits for a login.                                *)
(***************************************************************************)
THEOREM SessionTypeCorrect == Spec => []TypeOK
<1>1. SInv => TypeOK
  BY DEF SInv
<1> QED
  BY <1>1, SessionInvariance, PTL

(***************************************************************************)
(* A tab says that it is establishing a session only when it waits for a   *)
(* login or is about to ask for one, unless another tab has logged in for  *)
(* it.                                                                     *)
(***************************************************************************)
THEOREM LoadingIsLoginHolds == Spec => []LoadingIsLogin
<1>1. ASSUME SInv, NEW t \in Tab, Stuck(t)
      PROVE  tab[t].session # NoSession /\ \E other \in opened : other # t
  <2>1. tab[t].session # NoSession
    BY <1>1 DEF SInv, LoneInv
  <2>2. t \in opened
    BY <1>1 DEF SInv, LoneInv, Stuck
  <2>3. opened # {t}
    BY <1>1 DEF SInv, LoneInv, Stuck
  <2> QED
    BY <2>1, <2>2, <2>3
<1>2. SInv => LoadingIsLogin
  BY <1>1 DEF LoadingIsLogin
<1> QED
  BY <1>2, SessionInvariance, PTL

(***************************************************************************)
(* A tab another one has logged in for never stops saying that it is       *)
(* establishing a session.                                                 *)
(***************************************************************************)
THEOREM StuckStaysHolds == Spec => StuckStays
<1>1. ASSUME SInv, [Next]_vars, NEW t \in Tab, Stuck(t) PROVE Stuck(t)'
  <2>1. tab \in [Tab -> TabSet] /\ login \in [Tab -> LoginSet] /\ t \in opened
    BY <1>1, Types DEF SInv, LoneInv, Stuck
  <2>2. ASSUME NEW v \in Tab, Run(v) \/ Open(v) \/ \E u \in User : SwitchRole(v, u)
        PROVE  /\ v # t
               /\ \E e : tab' = [tab EXCEPT ![v] = e] \/ UNCHANGED tab
               /\ \E e : login' = [login EXCEPT ![v] = e] \/ UNCHANGED login
    <3>1. v # t
      BY <1>1, <2>1, <2>2 DEF Stuck, Run, Open, SwitchRole, Initialize, FindUser, Sign,
                              LoginFails, LoginAnswer
    <3>2. \E e : tab' = [tab EXCEPT ![v] = e] \/ UNCHANGED tab
      BY <2>1, <2>2 DEF Run, Open, SwitchRole, Initialize, Ask, FindUser, Sign, LoginFails,
                        LoginAnswer
    <3>3. \E e : login' = [login EXCEPT ![v] = e] \/ UNCHANGED login
      BY <2>1, <2>2 DEF Run, Open, SwitchRole, Initialize, Ask, FindUser, Sign, LoginFails,
                        LoginAnswer
    <3> QED
      BY <3>1, <3>2, <3>3
  <2>3. ASSUME NEW v \in Tab, Run(v) \/ Open(v) \/ \E u \in User : SwitchRole(v, u)
        PROVE  Stuck(t)'
    BY <1>1, <2>1, <2>2, <2>3 DEF Stuck
  <2>4. CASE UNCHANGED <<tab, login>>
    BY <1>1, <2>4 DEF Stuck
  <2>5. ASSUME NEW c \in Call,
               \/ \E v \in Tab : Send(v, c)
               \/ Answer(c) \/ Fail(c)
               \/ \E minimum \in {"viewer", "reviewer"} : Serve(c, minimum)
        PROVE  UNCHANGED <<tab, login>>
    BY <2>5 DEF Send, Answer, Fail, Serve
  <2>6. ASSUME \/ Tick \/ Toggle \/ UNCHANGED vars
               \/ \E u \in User, r \in Role, active \in BOOLEAN : ChangeUser(u, r, active)
        PROVE  UNCHANGED <<tab, login>>
    BY <2>6 DEF Tick, Toggle, ChangeUser, vars
  <2> QED
    BY <1>1, <2>3, <2>4, <2>5, <2>6 DEF Next
<1>2. SInv /\ [Next]_vars => [\A t \in Tab : Stuck(t) => Stuck(t)']_vars
  BY <1>1
<1> QED
  BY <1>2, SessionInvariance, PTL DEF Spec, StuckStays

(***************************************************************************)
(* Nobody acts in a role for longer than a login and the life of a token   *)
(* take after losing it, whatever happens to users in the meantime.        *)
(***************************************************************************)
THEOREM RoleWasHeldHolds == Spec => RoleWasHeld
<1>1. ASSUME SInv, [Next]_vars, NEW c \in Call, ~Admitted(c), Admitted(c)'
      PROVE  LET k == call[c].token
             IN now < LastHeld(k.user, k.role) + MaxLogin + TTL
  <2>1. call \in [Call -> CallSet]
    BY <1>1, Types
  <2>2. ASSUME NEW d \in Call
        PROVE  ~Fail(d) /\ ~Answer(d) /\ \A t \in Tab : ~Send(t, d)
    <3>1. ASSUME NEW t \in Tab, Send(t, d) PROVE FALSE
      BY <1>1, <2>1, <3>1 DEF Send, NoCall, Admitted, CallSet
    <3>2. ASSUME Fail(d) PROVE FALSE
      BY <1>1, <2>1, <3>2 DEF Fail, Admitted, CallSet
    <3>3. ASSUME Answer(d) PROVE FALSE
      BY <1>1, <2>1, <3>3 DEF Answer, NoCall, Admitted, CallSet
    <3> QED
      BY <3>1, <3>2, <3>3
  <2>3. ~UNCHANGED call
    BY <1>1 DEF Admitted
  <2>4. ASSUME NEW d \in Call, NEW minimum \in {"viewer", "reviewer"}, Serve(d, minimum)
        PROVE  Authentic(call[c].token)
    <3>1. d = c /\ Outcome(call[c].token, minimum) \in {"ok", "forbidden"}
      BY <1>1, <2>1, <2>4 DEF Serve, Admitted, CallSet
    <3> QED
      BY <3>1 DEF Outcome
  <2>5. Authentic(call[c].token)
    <3>1. ASSUME NEW t \in Tab, Run(t) \/ Open(t) \/ \E u \in User : SwitchRole(t, u)
          PROVE  FALSE
      BY <2>3, <3>1 DEF Run, Initialize, FindUser, Sign, LoginFails, LoginAnswer, SwitchRole, Open
    <3>2. ~ \/ Tick \/ Toggle \/ UNCHANGED vars
            \/ \E u \in User, r \in Role, active \in BOOLEAN : ChangeUser(u, r, active)
      BY <2>3 DEF Tick, ChangeUser, Toggle, vars
    <3>3. Next
      BY <1>1, <3>2
    <3>4. \E d \in Call : \/ (\E t \in Tab : Send(t, d)) \/ Answer(d) \/ Fail(d)
                          \/ \E minimum \in {"viewer", "reviewer"} : Serve(d, minimum)
      BY <3>1, <3>2, <3>3 DEF Next
    <3>5. PICK d \in Call : \/ (\E t \in Tab : Send(t, d)) \/ Answer(d) \/ Fail(d)
                            \/ \E minimum \in {"viewer", "reviewer"} : Serve(d, minimum)
      BY <3>4
    <3>6. \E minimum \in {"viewer", "reviewer"} : Serve(d, minimum)
      BY <2>2, <3>5
    <3> QED
      BY <2>4, <3>6
  <2> DEFINE k == call[c].token
  <2>6. k \in SessionSet /\ k # NoSession /\ now < k.exp /\ Backed(k)
    BY <1>1, <2>1, <2>5 DEF Authentic, CallSet, SInv, TokenInv
  <2>7. LastHeld(k.user, k.role) \in Nat /\ k.exp \in Nat /\ now \in Nat
    BY <1>1, <2>6, SessionTypes, HeldTypes, Types DEF SInv
  <2> QED
    BY <2>6, <2>7, TimeAssumption DEF Backed
<1>2. SInv /\ [Next]_vars =>
        [\A c \in Call : ~Admitted(c) /\ Admitted(c)' =>
           LET k == call[c].token
           IN now < LastHeld(k.user, k.role) + MaxLogin + TTL]_vars
  BY <1>1
<1> QED
  BY <1>2, SessionInvariance, PTL DEF Spec, RoleWasHeld

(***************************************************************************)
(* A session that is still valid is lost to the late answer of a request   *)
(* with another token, or to a refused login, and to nothing else.         *)
(***************************************************************************)
THEOREM LostToOthersHolds == Spec => LostToOthers
<1>1. ASSUME SInv, [Next]_vars, stored # NoSession, now < stored.exp, stored' = NoSession
      PROVE  \/ \E t \in Tab : login[t].outcome = "unauthorized"
             \/ \E c \in Call : call[c].stage = "answered" /\ call[c].token # stored
  <2>1. ASSUME NEW t \in Tab, LoginAnswer(t) PROVE login[t].outcome = "unauthorized"
    BY <1>1, <2>1 DEF LoginAnswer, Unauthorized, SInv, LoginInv, LoginGood
  <2>2. ASSUME NEW c \in Call, Answer(c)
        PROVE  call[c].stage = "answered" /\ call[c].token # stored
    <3>1. call[c].stage = "answered" /\ call[c].outcome = "unauthorized"
      BY <1>1, <2>2 DEF Answer, Unauthorized
    <3>2. call[c].token = NoSession \/ call[c].token.exp <= now
      BY <1>1, <3>1 DEF SInv, CallInv, CallGood
    <3>3. stored.exp \in Nat /\ now \in Nat
      BY <1>1, Types, SessionTypes
    <3> QED
      BY <1>1, <3>1, <3>2, <3>3
  <2>3. (\E t \in Tab : LoginAnswer(t)) \/ (\E c \in Call : Answer(c))
    BY <1>1
    DEF Next, Run, Initialize, Ask, FindUser, Sign, LoginFails, SwitchRole, Open, Send, Serve,
        Fail, Tick, ChangeUser, Toggle, vars
  <2> QED
    BY <2>1, <2>2, <2>3
<1>2. SInv /\ [Next]_vars =>
        [stored # NoSession /\ now < stored.exp /\ stored' = NoSession
           => \/ \E t \in Tab : login[t].outcome = "unauthorized"
              \/ \E c \in Call : call[c].stage = "answered" /\ call[c].token # stored]_vars
  BY <1>1
<1> QED
  BY <1>2, SessionInvariance, PTL DEF Spec, LostToOthers
=============================================================================
