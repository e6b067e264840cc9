------------------------------ MODULE Session ------------------------------
(***************************************************************************)
(* Who a browser is: hooks/useAuth.ts and api/client.ts in the tabs of one *)
(* browser, Login and Authenticate on the server.                          *)
(*                                                                         *)
(* The token lives twice, in localStorage, which all tabs share and every  *)
(* request reads, and in the store of each tab, which decides what the tab *)
(* shows.  A token names the role its user had when it was signed, and     *)
(* nothing looks the user up again until it expires.  Requests overlap, and*)
(* the answer 401 to any of them removes whatever token is stored by then. *)
(*                                                                         *)
(* The page switches roles by logging in as the user of that name.         *)
(***************************************************************************)
EXTENDS Policy

CONSTANTS
  Tab,         \* the tabs of the browser
  Call,        \* bound: the requests under way at a time
  User,        \* the users, named by the role they were seeded with
  Role,        \* the roles a user may have, some of Roles
  FirstUser,   \* whom a new browser logs in as ('admin')
  TTL,         \* ticks a token is valid for (TOKEN_TTL, 8h)
  MaxLogin,    \* ticks from reading the user to reading the clock in Login
  MaxTime,     \* bound: the last tick of a behaviour
  MaxChanges   \* bound: how often users are changed in a behaviour

ASSUME UserAssumption == User \subseteq Role /\ Role \subseteq Roles /\ FirstUser \in User
ASSUME TimeAssumption == TTL \in Nat /\ MaxLogin \in Nat /\ MaxTime \in Nat
ASSUME BoundAssumption == MaxChanges \in Nat

VARIABLES
  now,      \* the clock of the server
  up,       \* whether the server can be reached
  users,    \* users[u] : the row of user u
  held,     \* held[u][r] : when user u last was active in role r and no more
  changes,  \* how often users were changed
  stored,   \* the session in localStorage
  opened,   \* the tabs that have been opened
  tab,      \* tab[t] : the store of tab t
  login,    \* login[t] : the login tab t waits for
  call      \* call[c] : a request of some tab

server == <<now, up, users, held, changes>>
vars == <<server, stored, opened, tab, login, call>>

None == "none"

NoSession == [user |-> None, role |-> None, exp |-> 0]

NoLogin == [stage |-> "free", user |-> None, role |-> None, at |-> 0,
            outcome |-> None, session |-> NoSession]

NoCall == [stage |-> "free", token |-> NoSession, outcome |-> None]

\* The module state of useAuth: initialSession, loading, and whether the
\* effect that calls initialize is to run; initialized says session # null.
Loaded(s) == [session |-> s, loading |-> s = NoSession, due |-> s = NoSession]

Init ==
  /\ now = 0 /\ up \in BOOLEAN /\ changes = 0
  /\ users = [u \in User |-> [role |-> u, active |-> TRUE]]
  /\ held = [u \in User |-> [r \in Role |-> 0]]
  /\ stored = NoSession /\ opened = {}
  /\ tab = [t \in Tab |-> Loaded(stored)]
  /\ login = [t \in Tab |-> NoLogin]
  /\ call = [c \in Call |-> NoCall]

-----------------------------------------------------------------------------
(* The tabs.                                                               *)

\* A slip: the page stays mounted while the tab logs in.
Ask_Mounted(t, u) ==
  /\ tab' = [tab EXCEPT ![t].due = FALSE]
  /\ login' = [login EXCEPT ![t] = [NoLogin EXCEPT !.stage = "sent", !.user = u]]

Ask(t, u) ==
  /\ tab' = [tab EXCEPT ![t].loading = TRUE, ![t].due = FALSE]
  /\ login' = [login EXCEPT ![t] = [NoLogin EXCEPT !.stage = "sent", !.user = u]]

\* The scripts of a page are loaded.  A tab that is loaded again is another tab.
Open(t) ==
  /\ t \notin opened
  /\ opened' = opened \cup {t}
  /\ tab' = [tab EXCEPT ![t] = Loaded(stored)]
  /\ UNCHANGED <<server, stored, login, call>>

\* The effect of useAuth.  A session that has come to localStorage since the
\* tab was loaded is taken over, and loading stays as it is.
Initialize(t) ==
  /\ t \in opened /\ tab[t].due
  /\ IF stored # NoSession
     THEN /\ tab' = [tab EXCEPT ![t].session = stored, ![t].due = FALSE]
          /\ UNCHANGED login
     ELSE Ask(t, FirstUser)
  /\ UNCHANGED <<server, opened, stored, call>>

\* The role switch of the navigation, which is shown when nothing is loading.
SwitchRole(t, u) ==
  /\ t \in opened /\ ~tab[t].loading /\ ~tab[t].due
  /\ Ask(t, u)
  /\ UNCHANGED <<server, opened, stored, call>>

\* A page is mounted when nothing is loading; what it asks for carries the
\* token that is stored now.
Send(t, c) ==
  /\ t \in opened /\ ~tab[t].loading
  /\ call[c].stage = "free"
  /\ call' = [call EXCEPT ![c] = [NoCall EXCEPT !.stage = "sent", !.token = stored]]
  /\ UNCHANGED <<server, opened, stored, tab, login>>

\* A slip: every answer that is no success clears the session.
Unauthorized_AnyError(outcome) == outcome # "ok"

\* response.status === 401
Unauthorized(outcome) == outcome = "unauthorized"

\* A slip: loading is reset after a success only.
Settled_NoFinally(s) == [session |-> s, loading |-> s = NoSession, due |-> FALSE]

\* The finally clause mounts the page, whose effect may have to log in again.
Settled(s) == [session |-> s, loading |-> FALSE, due |-> s = NoSession]

\* The answer to a login: saveSession and set, or the finally clause alone.
LoginAnswer(t) ==
  LET a == login[t]
  IN /\ a.stage = "answered"
     /\ stored' = IF a.outcome = "ok" THEN a.session
                  ELSE IF Unauthorized(a.outcome) THEN NoSession ELSE stored
     /\ tab' = [tab EXCEPT ![t] =
                  Settled(IF a.outcome = "ok" THEN a.session ELSE @.session)]
     /\ login' = [login EXCEPT ![t] = NoLogin]
     /\ UNCHANGED <<server, opened, call>>

Answer(c) ==
  /\ call[c].stage = "answered"
  /\ stored' = IF Unauthorized(call[c].outcome) THEN NoSession ELSE stored
  /\ call' = [call EXCEPT ![c] = NoCall]
  /\ UNCHANGED <<server, opened, tab, login>>

-----------------------------------------------------------------------------
(* The server.                                                             *)

\* A slip: users that are not active are found.
FindUser_Inactive(t) ==
  /\ login[t].stage = "sent" /\ up
  /\ login' = [login EXCEPT ![t] = [@ EXCEPT !.stage = "found", !.at = now,
                                             !.role = users[login[t].user].role]]
  /\ UNCHANGED <<server, opened, stored, tab, call>>

\* Login reads the active user of that name and compares the password.
FindUser(t) ==
  LET u == users[login[t].user]
  IN /\ login[t].stage = "sent" /\ up
     /\ login' = [login EXCEPT ![t] =
          IF u.active
          THEN [@ EXCEPT !.stage = "found", !.at = now, !.role = u.role]
          ELSE [NoLogin EXCEPT !.stage = "answered", !.outcome = "unauthorized"]]
     /\ UNCHANGED <<server, opened, stored, tab, call>>

\* The claims: the role that was read, and the time that is read now.
Sign(t) ==
  /\ login[t].stage = "found"
  /\ login' = [login EXCEPT ![t] =
       [NoLogin EXCEPT !.stage = "answered", !.outcome = "ok",
                       !.session = [user |-> login[t].user, role |-> login[t].role,
                                    exp |-> now + TTL]]]
  /\ UNCHANGED <<server, opened, stored, tab, call>>

\* A slip: the expiry is not validated.
Authentic_NoExpiry(k) == k # NoSession

\* Authenticate: a token of ours that has not expired, with a known role.
Authentic(k) == k # NoSession /\ now < k.exp /\ k.role \in Roles

\* Limiter, Authenticate, the guard of the route, handler.
Outcome(k, minimum) ==
  IF ~Authentic(k) THEN "unauthorized"
  ELSE IF k.role \notin RequireMinimumRole(minimum) THEN "forbidden"
  ELSE "ok"

Serve(c, minimum) ==
  /\ call[c].stage = "sent" /\ up
  /\ call' = [call EXCEPT ![c].stage = "answered",
                          ![c].outcome = Outcome(call[c].token, minimum)]
  /\ UNCHANGED <<server, opened, stored, tab, login>>

\* The limiter refuses, which comes before Authenticate, or the handler fails.
Fail(c) ==
  /\ call[c].stage = "sent"
  /\ call' = [call EXCEPT ![c].stage = "answered", ![c].outcome = "error"]
  /\ UNCHANGED <<server, opened, stored, tab, login>>

LoginFails(t) ==
  /\ login[t].stage \in {"sent", "found"} /\ ~up
  /\ login' = [login EXCEPT ![t] = [NoLogin EXCEPT !.stage = "answered", !.outcome = "error"]]
  /\ UNCHANGED <<server, opened, stored, tab, call>>

-----------------------------------------------------------------------------
(* Time, and the operators of the database, who alone change users.        *)

\* A comparison of passwords takes less than MaxLogin ticks.
Tick ==
  /\ now < MaxTime
  /\ \A t \in Tab : login[t].stage = "found" => now < login[t].at + MaxLogin
  /\ now' = now + 1
  /\ UNCHANGED <<up, users, held, changes, opened, stored, tab, login, call>>

ChangeUser(u, r, active) ==
  /\ changes < MaxChanges
  /\ changes' = changes + 1
  /\ users' = [users EXCEPT ![u] = [role |-> r, active |-> active]]
  /\ held' = IF users[u].active
             THEN [held EXCEPT ![u][users[u].role] = now] ELSE held
  /\ UNCHANGED <<now, up, opened, stored, tab, login, call>>

Toggle ==
  /\ up' = ~up
  /\ UNCHANGED <<now, users, held, changes, opened, stored, tab, login, call>>

-----------------------------------------------------------------------------
\* What a tab and the server do on behalf of it by themselves.
Run(t) ==
  \/ Initialize(t)
  \/ FindUser(t)
  \/ Sign(t)
  \/ LoginFails(t)
  \/ LoginAnswer(t)

Next ==
  \/ \E t \in Tab :
       \/ Run(t)
       \/ \E u \in User : SwitchRole(t, u)
       \/ \E c \in Call : Send(t, c)
       \/ Open(t)
  \/ \E c \in Call :
       \/ Answer(c)
       \/ \E minimum \in {"viewer", "reviewer"} : Serve(c, minimum)
       \/ Fail(c)
  \/ Tick
  \/ \E u \in User, r \in Role, active \in BOOLEAN : ChangeUser(u, r, active)
  \/ Toggle

Spec == Init /\ [][Next]_vars

FairSpec == Spec /\ \A t \in Tab : WF_vars(Run(t))

-----------------------------------------------------------------------------
(* Properties.                                                             *)

SessionSet == [user : User, role : Role, exp : 0..(MaxTime + TTL)] \cup {NoSession}

(***************************************************************************)
(* A tab that has no session is loading or about to; a tab that waits for  *)
(* a login shows nothing else, so that it waits for one at a time.         *)
(***************************************************************************)
TypeOK ==
  /\ now \in 0..MaxTime /\ up \in BOOLEAN
  /\ changes \in 0..MaxChanges /\ opened \subseteq Tab
  /\ users \in [User -> [role : Role, active : BOOLEAN]]
  /\ held \in [User -> [Role -> 0..MaxTime]]
  /\ stored \in SessionSet
  /\ tab \in [Tab -> [session : SessionSet, loading : BOOLEAN, due : BOOLEAN]]
  /\ login \in [Tab -> [stage : {"free", "sent", "found", "answered"},
                        user : User \cup {None}, role : Role \cup {None},
                        at : 0..MaxTime, session : SessionSet,
                        outcome : {None, "ok", "unauthorized", "error"}]]
  /\ call \in [Call -> [stage : {"free", "sent", "answered"}, token : SessionSet,
                        outcome : {None, "ok", "forbidden", "unauthorized", "error"}]]
  /\ \A t \in Tab :
       /\ tab[t].session = NoSession => tab[t].loading \/ tab[t].due
       /\ login[t].stage # "free" => tab[t].loading

\* When user u last was active in role r.
LastHeld(u, r) == IF users[u] = [role |-> r, active |-> TRUE] THEN now ELSE held[u][r]

Admitted(c) == call[c].stage = "answered" /\ call[c].outcome \in {"ok", "forbidden"}

(***************************************************************************)
(* Authenticate lets nobody act in a role for longer than the life of a    *)
(* token, and the login that signed it, after the user lost that role or   *)
(* was deactivated, although it reads the role from the token alone.       *)
(***************************************************************************)
RoleWasHeld ==
  [][\A c \in Call :
       ~Admitted(c) /\ Admitted(c)'
         => LET k == call[c].token
            IN now < LastHeld(k.user, k.role) + MaxLogin + TTL]_vars

(***************************************************************************)
(* The browser loses a session that is still valid only to the late answer *)
(* of a request that carried another one, or to a login that is refused.   *)
(***************************************************************************)
LostToOthers ==
  [][stored # NoSession /\ now < stored.exp /\ stored' = NoSession
       => \/ \E t \in Tab : login[t].outcome = "unauthorized"
          \/ \E c \in Call : call[c].stage = "answered" /\ call[c].token # stored]_vars

(***************************************************************************)
(* Once the server stays up and the first user stays active, every tab has *)
(* a session in the end, however many logins failed before: each failure   *)
(* mounts a page that logs in again.                                       *)
(***************************************************************************)
SessionComes ==
  <>[](up /\ users[FirstUser].active) =>
    \A t \in Tab : t \in opened ~> tab[t].session # NoSession

\* The tab says that it is establishing a session, and nothing is under way.
Stuck(t) == tab[t].loading /\ ~tab[t].due /\ login[t].stage = "free"

(***************************************************************************)
(* A tab that says that it is establishing a session is: it waits for a    *)
(* login or is about to ask for one.  The exception is a tab that found,   *)
(* when it was about to ask, that another tab had logged in since it was   *)
(* loaded: it has that session and goes on saying so.                      *)
(***************************************************************************)
LoadingIsLogin ==
  \A t \in Tab : Stuck(t) => /\ tab[t].session # NoSession
                             /\ \E other \in opened : other # t

(***************************************************************************)
(* Such a tab never shows a page again, whatever the others do: it has to  *)
(* be loaded anew.                                                         *)
(***************************************************************************)
StuckStays == [][\A t \in Tab : Stuck(t) => Stuck(t)']_vars
=============================================================================
