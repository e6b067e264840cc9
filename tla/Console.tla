------------------------------ MODULE Console ------------------------------
(***************************************************************************)
(* The workbench page of one aggregate (EntityPage.tsx) over its store     *)
(* (stores/factory.ts) and the session (hooks/useAuth.ts), against the     *)
(* service it calls and the other users of that service.                   *)
(*                                                                         *)
(* The store starts calls and goes on when they are answered; nothing keeps*)
(* a second call from starting, or its answer from overtaking the first.   *)
(* A call is a promise chain: a load is one request; createRecord and      *)
(* transition are a POST and, when it succeeds, a load of the first page.  *)
(*                                                                         *)
(* The page offers what the role in the store of its tab may do.  A request*)
(* carries the token in localStorage, which all tabs of the browser share  *)
(* and any of them may have replaced, at any time, by that of another role *)
(* (Session follows the tokens): here it is whichever role a tab may have. *)
(*                                                                         *)
(* The list is kept to one record, which every query finds until somebody  *)
(* deletes it.  The service is taken to be atomic, which RecordService is  *)
(* for clients that never send a version ahead of the row, as this page    *)
(* never does (NeverAhead); what others make of the record meanwhile is    *)
(* what RecordService can make of a row (Written).                         *)
(***************************************************************************)
EXTENDS Policy

CONSTANTS
  Call,       \* bound: the promise chains of a behaviour
  Kind,       \* the aggregates whose page may be opened
  Role,       \* the roles of the role switch, some of Roles
  MaxVersion  \* bound: the version up to which the record is changed

ASSUME RoleAssumption == Role \subseteq Roles
ASSUME MaxVersionAssumption == MaxVersion \in Nat \ {0}

VARIABLES
  kind,       \* config.key of the page
  record,     \* the record as the service holds it
  role,       \* session.role in the store of this tab
  switching,  \* the role being logged in (state.loading), or None
  query,      \* the search and page the toolbar and footer show
  pending,    \* the transition the dialog asks to confirm, or None
  items,      \* the answer the table shows
  loading,    \* the spinner of the store
  error,      \* whether the store shows an error
  call        \* call[c] : the state of chain c

page == <<query, pending>>
store == <<items, loading, error>>
vars == <<kind, record, role, switching, page, store, call>>

None == "none"

Kinds == {"pressUnit", "printRun", "colorProof", "releaseDecision"}

ASSUME KindAssumption == Kind \subseteq Kinds

Service ==
  CASE kind = "pressUnit"       -> PressUnitService
    [] kind = "printRun"        -> PrintRunService
    [] kind = "colorProof"      -> ColorProofService
    [] kind = "releaseDecision" -> ReleaseDecisionService

Status == Service.statuses

\* The record, as those see it who list it.
Row == [life : {"live", "deleted"}, status : Status, version : 1..MaxVersion]

\* load(path) asks for page 1 and no search; the page may stand elsewhere.
First == "first page"

Query == {First, "elsewhere"}

NoDialog == [from |-> None, to |-> None, version |-> 0]

\* The answer to a GET: the one row there is, or none.
NoRow(q)  == [query |-> q, status |-> None, version |-> 0]
Listed(q) ==
  IF record.life = "live"
    THEN [query |-> q, status |-> record.status, version |-> record.version]
    ELSE NoRow(q)
NoItems   == NoRow(None)

\* role: the role of the store that offered a transition; token: the role of the
\* token the call carries; mounted: the page that asked for a transition is there to
\* close its dialog.
NoCall ==
  [stage |-> "free", does |-> None, query |-> None, dialog |-> NoDialog,
   expected |-> 0, role |-> None, token |-> None, mounted |-> FALSE,
   items |-> NoItems]

\* A chain that has ended.
Over == [NoCall EXCEPT !.stage = "done"]

Init ==
  /\ kind \in Kind
  /\ record \in [life : {"live"}, status : Service.seeds, version : {1}]
  /\ role \in Role
  /\ switching = role
  /\ query = First /\ pending = NoDialog
  /\ items = NoItems /\ loading = FALSE /\ error = FALSE
  /\ call = [c \in Call |-> NoCall]

-----------------------------------------------------------------------------
(* The store.                                                              *)

Begin == loading' = TRUE /\ error' = FALSE /\ UNCHANGED items

\* load(path, search, page)
Load(c, q) ==
  /\ call[c].stage = "free"
  /\ call' = [call EXCEPT ![c] = [NoCall EXCEPT !.stage = "get", !.query = q]]
  /\ Begin

\* getToken: what this tab or another saved last.  A token that is gone by the
\* time of the request, or not valid any more, is one answer of 401 among those
\* of Unreached.
Token == Role

\* createRecord(path, input)
CreateRecord(c) ==
  /\ switching = None
  /\ role \in RequireMinimumRole("operator")
  /\ call[c].stage = "free"
  /\ \E token \in Token :
       call' = [call EXCEPT ![c] = [NoCall EXCEPT !.stage = "post", !.does = "create",
                                                  !.token = token]]
  /\ Begin
  /\ UNCHANGED <<kind, record, role, switching, page>>

\* A slip: the version is taken from the table when the dialog is confirmed.
expectedVersion_Latest == items.version

expectedVersion == pending.version

\* transition(path, pending.item, pending.status), which leaves the dialog
\* open, to be confirmed again, until it is over.
Confirm(c) ==
  /\ switching = None
  /\ pending # NoDialog
  /\ call[c].stage = "free"
  /\ \E token \in Token :
       call' = [call EXCEPT ![c] = [NoCall EXCEPT !.stage = "post", !.does = "transition",
                                                  !.dialog = pending, !.role = role,
                                                  !.token = token,
                                                  !.expected = expectedVersion,
                                                  !.mounted = TRUE]]
  /\ Begin
  /\ UNCHANGED <<kind, record, role, switching, page>>

\* The answer of a GET is shown, whichever query it was for.
ShowAnswer(c) ==
  /\ call[c].stage = "got"
  /\ call' = [call EXCEPT ![c] = Over]
  /\ items' = call[c].items
  /\ loading' = FALSE
  /\ UNCHANGED error
  /\ pending' = IF call[c].mounted THEN NoDialog ELSE pending
  /\ UNCHANGED <<kind, record, role, switching, query>>

\* A slip: loading is reset after a success only.
ShowError_Loading(c) ==
  /\ call[c].stage \in {"failed", "unloaded"}
  /\ call' = [call EXCEPT ![c] = Over]
  /\ error' = TRUE
  /\ UNCHANGED <<kind, record, role, switching, page, items, loading>>

\* The catch of load, createRecord and transition.  The error of a load is
\* not thrown further, so a transition whose reload fails closes its dialog.
ShowError(c) ==
  /\ call[c].stage \in {"failed", "unloaded"}
  /\ call' = [call EXCEPT ![c] = Over]
  /\ error' = TRUE
  /\ loading' = FALSE
  /\ pending' = IF call[c].stage = "unloaded" /\ call[c].mounted THEN NoDialog ELSE pending
  /\ UNCHANGED <<kind, record, role, switching, query, items>>

\* await get().load(path)
Reload(c) ==
  /\ call[c].stage = "posted"
  /\ call' = [call EXCEPT ![c].stage = "get", ![c].query = First]
  /\ Begin
  /\ UNCHANGED <<kind, record, role, switching, page>>

-----------------------------------------------------------------------------
(* The service, and its other users.                                       *)

\* The POST is over, and what it carried with it.
Posted(c, outcome) ==
  [NoCall EXCEPT !.stage = outcome, !.mounted = call[c].mounted]

ServeGet(c) ==
  /\ call[c].stage = "get"
  /\ \/ call' = [call EXCEPT ![c].stage = "got", ![c].items = Listed(call[c].query)]
     \/ call' = [call EXCEPT ![c].stage = "unloaded"]
  /\ UNCHANGED <<kind, record, role, switching, page, store>>

\* The record the page shows is not the one created, which may fail and does
\* where the route does not admit the role of the token.
ServeCreate(c) ==
  /\ call[c].stage = "post" /\ call[c].does = "create"
  /\ \/ call' = [call EXCEPT ![c] = Posted(c, "failed")]
     \/ /\ call[c].token \in Routes["create"]
        /\ call' = [call EXCEPT ![c] = Posted(c, "posted")]
  /\ UNCHANGED <<kind, record, role, switching, page, store>>

\* What a transition may be refused with.  The route does not admit the role of
\* the token; or one of the checks of the row the service reads, in their order;
\* or the compare-and-swap, which may find a later row than they were made on.
Refusals(c) ==
  LET to    == call[c].dialog.to
      live  == record.life = "live"
      gated == {to, record.status} \cap Service.gated # {} /\ ~canReview(call[c].token)
      edge  == CanTransition(Service.graph, record.status, to)
  IN IF call[c].token \notin Routes["transition"] THEN {"forbidden"}
     ELSE {answer \in {"not_found", "forbidden", "invalid", "conflict"} :
             \/ answer = "not_found" /\ ~live
             \/ answer = "forbidden" /\ live /\ gated
             \/ answer = "invalid"   /\ live /\ ~gated /\ ~edge
             \/ answer = "conflict"  /\ (~live \/ record.version # call[c].expected)}

Refuse(c) ==
  /\ call[c].stage = "post" /\ call[c].does = "transition"
  /\ Refusals(c) # {}
  /\ call' = [call EXCEPT ![c] = Posted(c, "failed")]
  /\ UNCHANGED <<kind, record, role, switching, page, store>>

\* The transition takes effect; its answer, or the audit entry, may be lost.
Apply(c) ==
  /\ call[c].stage = "post" /\ call[c].does = "transition"
  /\ Refusals(c) = {}
  /\ record.version < MaxVersion
  /\ record' = [record EXCEPT !.status = call[c].dialog.to, !.version = @ + 1]
  /\ \E outcome \in {"posted", "failed"} : call' = [call EXCEPT ![c] = Posted(c, outcome)]
  /\ UNCHANGED <<kind, role, switching, page, store>>

\* The request does not reach the service, or is answered 429, 401 or 500.
Unreached(c) ==
  /\ call[c].stage = "post" /\ call[c].does = "transition"
  /\ call' = [call EXCEPT ![c] = Posted(c, "failed")]
  /\ UNCHANGED <<kind, record, role, switching, page, store>>

\* Another user's write.  A deletion was checked on an earlier row, so it may
\* come in any status.
OtherUser ==
  /\ record.version < MaxVersion
  /\ \E after \in Row :
       /\ Written(Service, record, after)
       /\ record' = after
  /\ UNCHANGED <<kind, role, switching, page, store, call>>

-----------------------------------------------------------------------------
(* The page.                                                               *)

\* A slip: the draft of a decision is offered for release to everybody.
nextPermittedStatus_NoRole(k, reviewer) ==
  CASE k = "pressUnit" ->
         [ready |-> "setup", setup |-> "printing", printing |-> "maintenance",
          maintenance |-> "printing"]
    [] k = "printRun" ->
         [setup |-> "printing", printing |-> "proofing", proofing |-> "released",
          hold |-> "proofing", released |-> "hold"]
    [] k = "colorProof" ->
         [captured |-> "review", review |-> "accepted", accepted |-> "review",
          rejected |-> "review"]
    [] k = "releaseDecision" ->
         [draft |-> "release", release |-> "rework", rework |-> "release",
          quarantine |-> "rework"]

\* A slip: a decision is released under the name a print run is.
nextPermittedStatus_Released(k, reviewer) ==
  [nextPermittedStatus_NoRole(k, reviewer) EXCEPT
     ![IF k = "releaseDecision" THEN "draft" ELSE "proofing"] = "released"]

\* The one target the page offers for each status, to reviewers and to others.
nextPermittedStatus(k, reviewer) ==
  LET Reviewed(status) == IF reviewer THEN status ELSE None
  IN CASE k = "pressUnit" ->
            [ready |-> "setup", setup |-> "printing", printing |-> "maintenance",
             maintenance |-> "printing"]
       [] k = "printRun" ->
            [setup |-> "printing", printing |-> "proofing",
             proofing |-> IF reviewer THEN "released" ELSE "hold",
             hold |-> "proofing", released |-> Reviewed("hold")]
       [] k = "colorProof" ->
            [captured |-> "review", review |-> Reviewed("accepted"),
             accepted |-> Reviewed("review"), rejected |-> Reviewed("review")]
       [] k = "releaseDecision" ->
            [draft |-> IF reviewer THEN "release" ELSE "rework",
             release |-> Reviewed("rework"), rework |-> Reviewed("release"),
             quarantine |-> Reviewed("rework")]

Offered(status) ==
  nextPermittedStatus(kind, role \in RequireMinimumRole("reviewer"))[status]

\* The button of a row is clicked.
Open ==
  /\ switching = None
  /\ items.status # None
  /\ role \in RequireMinimumRole("operator")
  /\ Offered(items.status) # None
  /\ pending' = [from |-> items.status, to |-> Offered(items.status),
                 version |-> items.version]
  /\ UNCHANGED <<kind, record, role, switching, query, store, call>>

Cancel ==
  /\ switching = None
  /\ pending # NoDialog
  /\ pending' = NoDialog
  /\ UNCHANGED <<kind, record, role, switching, query, store, call>>

\* A search is submitted or a page turned, and the effect loads it.
Turn(c, q) ==
  /\ switching = None
  /\ q # query
  /\ query' = q
  /\ Load(c, q)
  /\ UNCHANGED <<kind, record, role, switching, pending>>

\* A slip: the page stays mounted while the role is switched.
SwitchRole_Mounted(r) ==
  /\ switching = None
  /\ switching' = r
  /\ UNCHANGED <<kind, record, role, query, pending, store, call>>

\* switchRole: the application shows only that it is loading, so the page is
\* unmounted, its dialog with it; the chains it started go on without it.
SwitchRole(r) ==
  /\ switching = None
  /\ switching' = r
  /\ query' = First
  /\ pending' = NoDialog
  /\ call' = [c \in Call |-> [call[c] EXCEPT !.mounted = FALSE]]
  /\ UNCHANGED <<kind, record, role, store>>

\* The login succeeds, or it fails (or none was needed) and leaves the role as
\* it was; the page is mounted again and loads its first page.
Mount(c) ==
  /\ switching # None
  /\ role' \in {role, switching}
  /\ switching' = None
  /\ Load(c, First)
  /\ UNCHANGED <<kind, record, page>>

-----------------------------------------------------------------------------
Terminating ==
  /\ \A c \in Call : call[c].stage = "done"
  /\ UNCHANGED vars

Next ==
  \/ \E c \in Call :
       \/ Mount(c)
       \/ CreateRecord(c)
       \/ Confirm(c)
       \/ \E q \in Query : Turn(c, q)
       \/ ShowAnswer(c)
       \/ ShowError(c)
       \/ Reload(c)
       \/ ServeGet(c)
       \/ ServeCreate(c)
       \/ Refuse(c)
       \/ Apply(c)
       \/ Unreached(c)
  \/ Open
  \/ Cancel
  \/ \E r \in Role : SwitchRole(r)
  \/ OtherUser
  \/ Terminating

Spec == Init /\ [][Next]_vars

-----------------------------------------------------------------------------
(* Properties.                                                             *)

Dialog == [from : Status, to : Status, version : 1..MaxVersion]

Items ==
  [query : Query, status : Status, version : 1..MaxVersion] \cup {NoRow(q) : q \in Query}

(***************************************************************************)
(* What the page shows and asks for is a state of the aggregate; a status  *)
(* the service does not know is never offered.                             *)
(***************************************************************************)
TypeOK ==
  /\ kind \in Kinds
  /\ record \in Row
  /\ role \in Roles
  /\ switching \in Roles \cup {None}
  /\ query \in Query
  /\ pending \in Dialog \cup {NoDialog}
  /\ items \in Items \cup {NoItems}
  /\ loading \in BOOLEAN /\ error \in BOOLEAN
  /\ \A c \in Call :
       /\ call[c].stage \in {"free", "post", "posted", "get", "got", "unloaded", "failed", "done"}
       /\ call[c].dialog \in Dialog \cup {NoDialog}

InFlight(c) == call[c].stage \notin {"free", "done"}

(***************************************************************************)
(* The spinner stops: the store is loading only while a chain of its is on *)
(* its way, whatever failed and in whichever order chains end.             *)
(***************************************************************************)
LoadingEnds == loading => \E c \in Call : InFlight(c)

(***************************************************************************)
(* A transition that takes effect takes the record from the status the     *)
(* dialog showed to the one it showed, however stale the table was, and    *)
(* however often and after whichever failure it was confirmed.             *)
(***************************************************************************)
ConfirmedTruth ==
  [][\A c \in Call :
       call'[c] # call[c] /\ record' # record
         => /\ record.status = call[c].dialog.from
            /\ record.version = call[c].dialog.version
            /\ record'.status = call[c].dialog.to]_vars

(***************************************************************************)
(* What the page offers the service accepts: a transition is invalid only  *)
(* when another write came between the table and the POST, and forbidden   *)
(* only then, or when another tab had logged in with another role than this*)
(* tab's, so that the POST carried a token the offer was not made for.     *)
(***************************************************************************)
OfferAccepted ==
  \A c \in Call :
    call[c].stage = "post" /\ call[c].does = "transition" =>
      /\ "invalid" \in Refusals(c) => record.version > call[c].dialog.version
      /\ "forbidden" \in Refusals(c) =>
           \/ record.version > call[c].dialog.version
           \/ call[c].token # call[c].role

(***************************************************************************)
(* A dialog asks for what the role of the session may ask for: it does not *)
(* outlive a switch of roles.                                              *)
(***************************************************************************)
DialogOfRole ==
  pending # NoDialog =>
    /\ switching = None
    /\ role \in RequireMinimumRole("operator")
    /\ pending.to = Offered(pending.from)

(***************************************************************************)
(* The page never sends a version ahead of the record's: it is one of the  *)
(* clients for which RecordService is atomic.                              *)
(***************************************************************************)
NeverAhead ==
  \A c \in Call :
    call[c].stage = "post" /\ call[c].does = "transition" =>
      call[c].expected <= record.version

(***************************************************************************)
(* At rest, without an error, the table shows the page and search that the *)
(* toolbar and the footer show.                                            *)
(***************************************************************************)
ShowsQuery ==
  /\ switching = None
  /\ \A c \in Call : ~InFlight(c)
  /\ ~error
  => items.query = query
=============================================================================
