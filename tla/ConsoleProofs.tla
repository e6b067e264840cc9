--------------------------- MODULE ConsoleProofs ---------------------------
(***************************************************************************)
(* The guarantees of the workbench page for any number of overlapping      *)
(* chains, any roles and any other users.  What the page has seen of the   *)
(* record is never ahead of it, and where it is not behind it is right: so *)
(* a promise made to the user by a dialog is kept by the service's check   *)
(* of the version, however old the dialog is by then.                      *)
(***************************************************************************)
EXTENDS Console, TLAPS

-----------------------------------------------------------------------------
(* The inductive invariant.                                                *)

CallSet ==
  [stage : {"free", "post", "posted", "get", "got", "unloaded", "failed", "done"},
   does : {None, "create", "transition"}, query : Query \cup {None},
   dialog : Dialog \cup {NoDialog}, expected : Nat, role : Roles \cup {None},
   token : Roles \cup {None}, mounted : BOOLEAN, items : Items \cup {NoItems}]

Typed ==
  /\ kind \in Kinds
  /\ record \in Row
  /\ role \in Roles
  /\ switching \in Roles \cup {None}
  /\ query \in Query
  /\ pending \in Dialog \cup {NoDialog}
  /\ items \in Items \cup {NoItems}
  /\ loading \in BOOLEAN /\ error \in BOOLEAN
  /\ call \in [Call -> CallSet]

\* The record was once at this status and version, if it is r now.
Seen(status, version, r) ==
  /\ status \in Status /\ version \in 1..MaxVersion
  /\ version <= r.version
  /\ version = r.version => status = r.status

\* What an answer shows of the record is what it was when it was asked.
Shown(shown, r) == shown.status # None => Seen(shown.status, shown.version, r)

\* What a dialog asks for is an edge of the graph, which the role of the store
\* that offered it may take.
Promised(e, r) ==
  /\ e.dialog \in Dialog /\ e.expected = e.dialog.version
  /\ Seen(e.dialog.from, e.dialog.version, r)
  /\ e.dialog.to \in Service.graph[e.dialog.from]
  /\ e.role \in Routes["transition"]
  /\ {e.dialog.to, e.dialog.from} \cap Service.gated # {} => canReview(e.role)

CallOK(e, r) ==
  /\ e.stage \in {"get", "got"} => e.query \in Query
  /\ e.stage = "got" => e.items \in Items /\ Shown(e.items, r)
  /\ e.stage = "post" /\ e.does = "transition" => Promised(e, r)

TableInv == Shown(items, record)

DialogInv ==
  pending # NoDialog => /\ Seen(pending.from, pending.version, record)
                        /\ DialogOfRole

CInv ==
  /\ Typed
  /\ TableInv
  /\ DialogInv
  /\ \A c \in Call : CallOK(call[c], record)
  /\ LoadingEnds

-----------------------------------------------------------------------------
(* The page's copy of the rules against those of the service.              *)

LEMMA ServiceRules ==
  ASSUME kind \in Kinds
  PROVE  /\ Status = DOMAIN Service.graph /\ None \notin Status
         /\ Service.seeds \subseteq Status
         /\ \A s \in Status : Service.graph[s] \subseteq Status
<1>1. CASE kind = "pressUnit"
  BY <1>1 DEF Status, Service, PressUnitService, PressUnitTransitions, seedPressUnit, None
<1>2. CASE kind = "printRun"
  BY <1>2 DEF Status, Service, PrintRunService, PrintRunTransitions, seedPrintRun, None
<1>3. CASE kind = "colorProof"
  BY <1>3 DEF Status, Service, ColorProofService, ColorProofTransitions, seedColorProof, None
<1>4. CASE kind = "releaseDecision"
  BY <1>4 DEF Status, Service, ReleaseDecisionService, ReleaseDecisionTransitions,
              seedReleaseDecision, None
<1> QED
  BY <1>1, <1>2, <1>3, <1>4 DEF Kinds

\* The page offers edges of the graph only, and gated ones to reviewers only.
LEMMA OfferedRules ==
  ASSUME kind \in Kinds, NEW reviewer \in BOOLEAN, NEW s \in Status,
         NEW t, t = nextPermittedStatus(kind, reviewer)[s], t # None
  PROVE  /\ t \in Service.graph[s] /\ t \in Status
         /\ {t, s} \cap Service.gated # {} => reviewer
<1>1. CASE kind = "pressUnit"
  BY <1>1 DEF Status, Service, PressUnitService, PressUnitTransitions, nextPermittedStatus, None
<1>2. CASE kind = "printRun"
  BY <1>2 DEF Status, Service, PrintRunService, PrintRunTransitions, nextPermittedStatus, None
<1>3. CASE kind = "colorProof"
  BY <1>3 DEF Status, Service, ColorProofService, ColorProofTransitions, nextPermittedStatus, None
<1>4. CASE kind = "releaseDecision"
  BY <1>4 DEF Status, Service, ReleaseDecisionService, ReleaseDecisionTransitions,
              nextPermittedStatus, None
<1> QED
  BY <1>1, <1>2, <1>3, <1>4 DEF Kinds

LEMMA Reviewers ==
  \A r \in Roles : r \in RequireMinimumRole("reviewer") <=> canReview(r)
  BY DEF Roles, RequireMinimumRole, roleRank, canReview

-----------------------------------------------------------------------------
(* Steps.                                                                  *)

LEMMA SameKind ==
  ASSUME UNCHANGED kind
  PROVE  /\ Service' = Service /\ Status' = Status
         /\ Dialog' = Dialog /\ Row' = Row /\ Items' = Items /\ CallSet' = CallSet
         /\ \A s, v, r : Seen(s, v, r)' <=> Seen(s, v, r)
         /\ \A i, r : Shown(i, r)' <=> Shown(i, r)
         /\ \A e, r : CallOK(e, r)' <=> CallOK(e, r)
<1>1. Service' = Service
  BY DEF Service
<1>2. Status' = Status
  BY <1>1 DEF Status
<1>3. /\ Dialog' = Dialog /\ Row' = Row /\ Items' = Items
      /\ \A s, v, r : Seen(s, v, r)' <=> Seen(s, v, r)
      /\ \A i, r : Shown(i, r)' <=> Shown(i, r)
  BY <1>2 DEF Dialog, Row, Items, NoRow, Seen, Shown
<1>4. CallSet' = CallSet
  BY <1>3 DEF CallSet
<1>5. \A e, r : Promised(e, r)' <=> Promised(e, r)
  BY <1>1, <1>3 DEF Promised
<1>6. \A e, r : CallOK(e, r)' <=> CallOK(e, r)
  BY <1>3, <1>5 DEF CallOK
<1> QED
  BY <1>1, <1>2, <1>3, <1>4, <1>6

\* The record at r may become q: a version has one status, and none comes back.
Later(r, q) ==
  /\ r.version \in Nat /\ q.version \in Nat
  /\ q.version >= r.version
  /\ q.version = r.version => q.status = r.status

LEMMA SeenStays ==
  ASSUME NEW r, NEW q, Later(r, q), NEW s, NEW v, Seen(s, v, r)
  PROVE  Seen(s, v, q)
  BY MaxVersionAssumption DEF Later, Seen

LEMMA ShownStays ==
  ASSUME NEW r, NEW q, Later(r, q), NEW i, Shown(i, r)
  PROVE  Shown(i, q)
  BY SeenStays DEF Shown

LEMMA CallStays ==
  ASSUME NEW r, NEW q, Later(r, q), NEW e \in CallSet, CallOK(e, r)
  PROVE  CallOK(e, q)
<1>1. Promised(e, r) => Promised(e, q)
  BY SeenStays DEF Promised
<1>2. e.stage = "got" => Shown(e.items, q)
  BY ShownStays DEF CallOK
<1> QED
  BY <1>1, <1>2 DEF CallOK

\* A step of chain c, after which it is e.
LEMMA CallStep ==
  ASSUME CInv, NEW c \in Call, NEW e \in CallSet, CallOK(e, record'), UNCHANGED kind,
         Later(record, record'), call' = [call EXCEPT ![c] = e]
  PROVE  /\ (call \in [Call -> CallSet])'
         /\ (\A d \in Call : CallOK(call[d], record))'
         /\ call'[c] = e /\ \A d \in Call \ {c} : call'[d] = call[d]
<1>1. call \in [Call -> CallSet] /\ \A d \in Call : CallOK(call[d], record)
  BY DEF CInv, Typed
<1>2. /\ call' \in [Call -> CallSet] /\ call'[c] = e
      /\ \A d \in Call \ {c} : call'[d] = call[d]
  BY <1>1
<1>3. \A d \in Call : CallOK(call'[d], record')
  BY <1>1, <1>2, CallStays
<1> QED
  BY <1>2, <1>3, SameKind

\* A step that leaves the chains alone.
LEMMA CallsStay ==
  ASSUME CInv, UNCHANGED <<kind, call>>, Later(record, record')
  PROVE  /\ (call \in [Call -> CallSet])'
         /\ (\A d \in Call : CallOK(call[d], record))'
<1>1. call \in [Call -> CallSet] /\ \A d \in Call : CallOK(call[d], record)
  BY DEF CInv, Typed
<1>2. \A d \in Call : CallOK(call'[d], record')
  BY <1>1, CallStays
<1> QED
  BY <1>1, <1>2, SameKind

\* What is shown stays right.
LEMMA PageStays ==
  ASSUME CInv, UNCHANGED kind, Later(record, record')
  PROVE  /\ UNCHANGED items => TableInv'
         /\ UNCHANGED <<pending, switching, role>> => DialogInv'
<1>1. UNCHANGED items => TableInv'
  BY ShownStays, SameKind DEF CInv, TableInv
<1>2. ASSUME UNCHANGED <<pending, switching, role>> PROVE DialogInv'
  <2>1. pending # NoDialog => Seen(pending.from, pending.version, record')
    BY SeenStays DEF CInv, DialogInv
  <2>2. pending # NoDialog => DialogOfRole'
    BY <1>2 DEF CInv, DialogInv, DialogOfRole, Offered
  <2> QED
    BY <1>2, <2>1, <2>2, SameKind DEF DialogInv
<1> QED
  BY <1>1, <1>2

LEMMA Chain ==
  ASSUME CInv, NEW c \in Call
  PROVE  /\ call[c] \in CallSet /\ CallOK(call[c], record)
         /\ NoCall \in CallSet /\ Over \in CallSet
         /\ record \in Row
         /\ record.status \in Status /\ record.version \in 1..MaxVersion
         /\ record.version \in Nat /\ Later(record, record)
<1>1. NoCall \in CallSet /\ Over \in CallSet
  BY DEF NoCall, Over, CallSet
<1>2. call[c] \in CallSet /\ CallOK(call[c], record)
  BY DEF CInv, Typed
<1>3. /\ record \in Row
      /\ record.status \in Status /\ record.version \in 1..MaxVersion
      /\ record.version \in Nat
  BY MaxVersionAssumption DEF CInv, Typed, Row
<1> QED
  BY <1>1, <1>2, <1>3 DEF Later

\* A chain that begins or goes on, and the spinner with it.
LEMMA Begins ==
  ASSUME CInv, NEW c \in Call, NEW e \in CallSet, CallOK(e, record),
         e.stage \notin {"free", "done"},
         UNCHANGED <<kind, record>>, Begin, call' = [call EXCEPT ![c] = e],
         query' \in Query, role' \in Roles, switching' \in Roles \cup {None},
         UNCHANGED pending, pending = NoDialog \/ UNCHANGED <<switching, role>>
  PROVE  CInv'
<1>1. Later(record, record')
  BY Chain
<1>2. /\ (call \in [Call -> CallSet])'
      /\ (\A d \in Call : CallOK(call[d], record))'
      /\ call'[c] = e
  BY <1>1, CallStep
<1>3. Typed'
  BY <1>2, SameKind DEF CInv, Typed, Begin
<1>4. TableInv'
  BY <1>1, PageStays DEF Begin
<1>5. DialogInv'
  <2>1. CASE pending = NoDialog
    BY <2>1 DEF DialogInv
  <2>2. CASE UNCHANGED <<switching, role>>
    BY <1>1, <2>2, PageStays
  <2> QED
    BY <2>1, <2>2
<1>6. LoadingEnds'
  BY <1>2 DEF LoadingEnds, InFlight
<1> QED
  BY <1>2, <1>3, <1>4, <1>5, <1>6 DEF CInv

LEMMA MountStep ==
  ASSUME CInv, NEW c \in Call, Mount(c)
  PROVE  CInv'
<1>1. /\ switching # None /\ role' \in {role, switching} /\ switching' = None
      /\ UNCHANGED <<kind, record, query, pending>> /\ Begin /\ call[c].stage = "free"
  BY DEF Mount, Load, page
<1>2. PICK e : /\ e = [NoCall EXCEPT !.stage = "get", !.query = First]
               /\ call' = [call EXCEPT ![c] = e]
  BY DEF Mount, Load
<1>3. /\ e \in CallSet /\ e.stage = "get" /\ e.query = First
  BY <1>2, Chain DEF NoCall, CallSet, Query
<1>4. CallOK(e, record)
  BY <1>3 DEF CallOK, Query, None
<1>5. pending = NoDialog
  BY <1>1 DEF CInv, DialogInv, DialogOfRole
<1>6. role' \in Roles /\ query' \in Query
  BY <1>1 DEF CInv, Typed
<1> QED
  BY <1>1, <1>2, <1>3, <1>4, <1>5, <1>6, Begins

LEMMA TurnStep ==
  ASSUME CInv, NEW c \in Call, NEW q \in Query, Turn(c, q)
  PROVE  CInv'
<1>1. /\ query' = q /\ UNCHANGED <<kind, record, role, switching, pending>> /\ Begin
  BY DEF Turn, Load
<1>2. PICK e : /\ e = [NoCall EXCEPT !.stage = "get", !.query = q]
               /\ call' = [call EXCEPT ![c] = e]
  BY DEF Turn, Load
<1>3. /\ e \in CallSet /\ e.stage = "get" /\ e.query = q
  BY <1>2, Chain DEF NoCall, CallSet
<1>4. CallOK(e, record)
  BY <1>3 DEF CallOK, None
<1>5. role' \in Roles /\ switching' \in Roles \cup {None}
  BY <1>1 DEF CInv, Typed
<1> QED
  BY <1>1, <1>2, <1>3, <1>4, <1>5, Begins

LEMMA CreateRecordStep ==
  ASSUME CInv, NEW c \in Call, CreateRecord(c)
  PROVE  CInv'
<1>1. UNCHANGED <<kind, record, role, switching, query, pending>> /\ Begin
  BY DEF CreateRecord, page
<1>2. PICK token, e :
        /\ token \in Token
        /\ e = [NoCall EXCEPT !.stage = "post", !.does = "create", !.token = token]
        /\ call' = [call EXCEPT ![c] = e]
  BY DEF CreateRecord
<1>3. role \in Roles /\ switching \in Roles \cup {None} /\ query \in Query
  BY DEF CInv, Typed
<1>4. /\ e \in CallSet /\ e.stage = "post" /\ e.does = "create"
  BY <1>2, RoleAssumption, Chain DEF NoCall, CallSet, Token
<1>5. CallOK(e, record)
  BY <1>4 DEF CallOK, None
<1> QED
  BY <1>1, <1>2, <1>3, <1>4, <1>5, Begins

LEMMA ConfirmStep ==
  ASSUME CInv, NEW c \in Call, Confirm(c)
  PROVE  CInv'
<1>1. UNCHANGED <<kind, record, role, switching, query, pending>> /\ Begin /\ pending # NoDialog
  BY DEF Confirm, page
<1>2. PICK token, e :
        /\ token \in Token
        /\ e = [NoCall EXCEPT !.stage = "post", !.does = "transition",
                              !.dialog = pending, !.role = role, !.token = token,
                              !.expected = expectedVersion, !.mounted = TRUE]
        /\ call' = [call EXCEPT ![c] = e]
  BY DEF Confirm
<1>3. role \in Roles /\ switching \in Roles \cup {None} /\ query \in Query /\ kind \in Kinds
      /\ pending \in Dialog
  BY <1>1 DEF CInv, Typed
<1>4. pending.version \in Nat /\ pending.to \in Status /\ pending.from \in Status
  BY <1>3, MaxVersionAssumption DEF Dialog
<1>5. /\ e \in CallSet /\ e.stage = "post" /\ e.does = "transition"
      /\ e.dialog = pending /\ e.role = role /\ e.expected = pending.version
  BY <1>2, <1>3, <1>4, RoleAssumption, Chain DEF NoCall, CallSet, expectedVersion, Token
<1>6. /\ pending.to \in Service.graph[pending.from]
      /\ role \in Routes["transition"]
      /\ {pending.to, pending.from} \cap Service.gated # {} => canReview(role)
  <2>1. pending.to = Offered(pending.from) /\ pending.to # None
    BY <1>1, <1>3, <1>4, ServiceRules DEF CInv, DialogInv, DialogOfRole
  <2>2. PICK reviewer \in BOOLEAN : reviewer <=> role \in RequireMinimumRole("reviewer")
    OBVIOUS
  <2>3. pending.to = nextPermittedStatus(kind, reviewer)[pending.from]
    <3>1. reviewer = (role \in RequireMinimumRole("reviewer"))
      BY <2>2
    <3> QED
      BY <2>1, <3>1 DEF Offered
  <2> QED
    BY <1>1, <1>3, <1>4, <2>1, <2>2, <2>3, OfferedRules, Reviewers
       DEF CInv, DialogInv, DialogOfRole, Routes
<1>7. Promised(e, record)
  BY <1>1, <1>3, <1>5, <1>6 DEF Promised, CInv, DialogInv
<1>8. CallOK(e, record)
  BY <1>5, <1>7 DEF CallOK, None
<1> QED
  BY <1>1, <1>2, <1>3, <1>5, <1>8, Begins

LEMMA ReloadStep ==
  ASSUME CInv, NEW c \in Call, Reload(c)
  PROVE  CInv'
<1>1. /\ UNCHANGED <<kind, record, role, switching, query, pending>> /\ Begin
      /\ call[c].stage = "posted"
  BY DEF Reload, page
<1>2. PICK e : /\ e = [call[c] EXCEPT !.stage = "get", !.query = First]
               /\ call' = [call EXCEPT ![c] = e]
  BY DEF Reload, CInv, Typed
<1>3. role \in Roles /\ switching \in Roles \cup {None} /\ query \in Query
  BY DEF CInv, Typed
<1>4. /\ e \in CallSet /\ e.stage = "get" /\ e.query = First
      /\ e.dialog = call[c].dialog
  BY <1>2, Chain DEF CallSet, Query
<1>5. CallOK(e, record)
  BY <1>4, Chain DEF CallOK, Query
<1> QED
  BY <1>1, <1>2, <1>3, <1>4, <1>5, Begins

\* A chain that is answered.
LEMMA Served ==
  ASSUME CInv, NEW c \in Call, NEW e \in CallSet, CallOK(e, record'),
         e.stage \notin {"free", "done"}, Later(record, record'),
         record' \in Row,
         UNCHANGED <<kind, role, switching, page, store>>, call' = [call EXCEPT ![c] = e]
  PROVE  CInv'
<1>1. /\ (call \in [Call -> CallSet])'
      /\ (\A d \in Call : CallOK(call[d], record))'
      /\ call'[c] = e
  BY CallStep
<1>2. UNCHANGED <<query, pending, items, loading, error>>
  BY DEF page, store
<1>3. Typed'
  BY <1>1, <1>2, SameKind DEF CInv, Typed
<1>4. TableInv' /\ DialogInv'
  BY <1>2, PageStays
<1>5. LoadingEnds'
  BY <1>1 DEF LoadingEnds, InFlight
<1> QED
  BY <1>1, <1>3, <1>4, <1>5 DEF CInv

LEMMA ServeGetStep ==
  ASSUME CInv, NEW c \in Call, ServeGet(c)
  PROVE  CInv'
<1>1. call[c].stage = "get" /\ UNCHANGED <<kind, record, role, switching, page, store>>
  BY DEF ServeGet
<1>2. CASE call' = [call EXCEPT ![c].stage = "unloaded"]
  <2>1. PICK e : e = [call[c] EXCEPT !.stage = "unloaded"] /\ call' = [call EXCEPT ![c] = e]
    BY <1>2 DEF CInv, Typed
  <2>2. /\ e \in CallSet /\ e.stage = "unloaded"
        /\ e.dialog = call[c].dialog
    BY <2>1, Chain DEF CallSet
  <2>3. CallOK(e, record)
    BY <2>2, Chain DEF CallOK
  <2> QED
    BY <1>1, <2>1, <2>2, <2>3, Chain, Served
<1>3. CASE call' = [call EXCEPT ![c].stage = "got", ![c].items = Listed(call[c].query)]
  <2> DEFINE shown == Listed(call[c].query)
  <2>1. shown \in Items /\ Shown(shown, record)
    BY <1>1, Chain, MaxVersionAssumption DEF Listed, Items, NoRow, CallOK, Shown, Seen
  <2> HIDE DEF shown
  <2>2. PICK e : e = [call[c] EXCEPT !.stage = "got", !.items = shown]
                 /\ call' = [call EXCEPT ![c] = e]
    BY <1>3 DEF shown, CInv, Typed
  <2>3. /\ e \in CallSet /\ e.stage = "got" /\ e.items = shown /\ e.query = call[c].query
    BY <2>1, <2>2, Chain DEF CallSet
  <2>4. CallOK(e, record)
    BY <1>1, <2>1, <2>3, Chain DEF CallOK
  <2> QED
    BY <1>1, <2>2, <2>3, <2>4, Chain, Served
<1> QED
  BY <1>2, <1>3 DEF ServeGet

\* A POST that is over leaves nothing to be true of it.
LEMMA PostedIs ==
  ASSUME CInv, NEW c \in Call, NEW outcome \in {"posted", "failed"}
  PROVE  /\ Posted(c, outcome) \in CallSet /\ Posted(c, outcome).stage = outcome
         /\ \A r : CallOK(Posted(c, outcome), r)
<1>1. Posted(c, outcome) \in CallSet /\ Posted(c, outcome).stage = outcome
  BY Chain DEF Posted, NoCall, CallSet
<1> QED
  BY <1>1 DEF CallOK

LEMMA ServeCreateStep ==
  ASSUME CInv, NEW c \in Call, ServeCreate(c)
  PROVE  CInv'
<1>1. UNCHANGED <<kind, record, role, switching, page, store>>
  BY DEF ServeCreate
<1>2. PICK outcome \in {"posted", "failed"} : call' = [call EXCEPT ![c] = Posted(c, outcome)]
  BY DEF ServeCreate
<1> QED
  BY <1>1, <1>2, PostedIs, Chain, Served

\* A refusal, or a POST that does not arrive, ends the POST.
LEMMA FailsStep ==
  ASSUME CInv, NEW c \in Call, Refuse(c) \/ Unreached(c)
  PROVE  CInv'
BY PostedIs, Chain, Served DEF Refuse, Unreached

\* What the service refuses, but for a version that is not the latest, it
\* refuses of a record that has moved on since the dialog showed it, or of
\* another role than the dialog was offered to.
LEMMA RefusedLater ==
  ASSUME CInv, NEW c \in Call, call[c].stage = "post", call[c].does = "transition"
  PROVE  /\ "invalid" \in Refusals(c) => record.version > call[c].dialog.version
         /\ "forbidden" \in Refusals(c) => \/ record.version > call[c].dialog.version
                                           \/ call[c].token # call[c].role
<1>1. SUFFICES ASSUME record.version = call[c].dialog.version
               PROVE  /\ "invalid" \notin Refusals(c)
                      /\ call[c].token = call[c].role => "forbidden" \notin Refusals(c)
  <2>1. call[c].dialog.version <= record.version /\ call[c].dialog.version \in 1..MaxVersion
    BY Chain DEF CallOK, Promised, Seen
  <2> QED
    BY <2>1, MaxVersionAssumption, Chain
<1>2. record.status = call[c].dialog.from
  BY <1>1, Chain DEF CallOK, Promised, Seen
<1>3. /\ call[c].dialog.to \in Service.graph[record.status]
      /\ call[c].role \in Routes["transition"]
      /\ {call[c].dialog.to, record.status} \cap Service.gated # {} => canReview(call[c].role)
  BY <1>2, Chain DEF CallOK, Promised
<1>4. CanTransition(Service.graph, record.status, call[c].dialog.to)
  BY <1>3, Chain, ServiceRules DEF CanTransition, CInv, Typed
<1> QED
  BY <1>3, <1>4 DEF Refusals

\* A transition is applied to the record the dialog showed.
LEMMA AppliedTo ==
  ASSUME CInv, NEW c \in Call, Apply(c)
  PROVE  /\ record.version = call[c].dialog.version /\ record.status = call[c].dialog.from
         /\ record'.status = call[c].dialog.to /\ record'.version = record.version + 1
         /\ record' \in Row /\ Later(record, record')
<1>1. /\ call[c].stage = "post" /\ call[c].does = "transition" /\ Refusals(c) = {}
      /\ record' = [record EXCEPT !.status = call[c].dialog.to, !.version = @ + 1]
      /\ record.version < MaxVersion
  BY DEF Apply
<1>2. record.version = call[c].expected
  <2>1. "conflict" \notin Refusals(c) /\ call[c].token \in Routes["transition"]
    BY <1>1 DEF Refusals
  <2> QED
    BY <2>1 DEF Refusals
<1>3. /\ call[c].expected = call[c].dialog.version /\ call[c].dialog \in Dialog
      /\ Seen(call[c].dialog.from, call[c].dialog.version, record)
  BY <1>1, Chain DEF CallOK, Promised
<1>4. call[c].dialog.to \in Status
  BY <1>3 DEF Dialog
<1>5. record.version + 1 \in 1..MaxVersion
  BY <1>1, Chain, MaxVersionAssumption
<1>6. /\ record'.status = call[c].dialog.to /\ record'.version = record.version + 1
      /\ record' \in Row
  BY <1>1, <1>4, <1>5, Chain DEF Row
<1>7. Later(record, record')
  <2>1. record.version \in Nat
    BY Chain
  <2> QED
    BY <1>6, <2>1 DEF Later
<1> QED
  BY <1>2, <1>3, <1>6, <1>7 DEF Seen

LEMMA ApplyStep ==
  ASSUME CInv, NEW c \in Call, Apply(c)
  PROVE  CInv'
<1>1. UNCHANGED <<kind, role, switching, page, store>>
  BY DEF Apply
<1>2. PICK outcome \in {"posted", "failed"} : call' = [call EXCEPT ![c] = Posted(c, outcome)]
  BY DEF Apply
<1> QED
  BY <1>1, <1>2, AppliedTo, PostedIs, Served

\* Whatever one write makes of the record, it is a later one.
LEMMA WrittenLater ==
  ASSUME kind \in Kinds, record \in Row, NEW after \in Row, Written(Service, record, after)
  PROVE  Later(record, after)
<1>1. record.version \in Nat /\ after.version \in Nat
  BY MaxVersionAssumption DEF Row
<1>2. \/ after.version = record.version + 1
      \/ after.version = record.version /\ after.status = record.status
  BY DEF Written
<1> QED
  BY <1>1, <1>2 DEF Later

LEMMA OtherUserStep ==
  ASSUME CInv, OtherUser
  PROVE  CInv'
<1>1. UNCHANGED <<kind, role, switching, page, store, call>>
  BY DEF OtherUser
<1>2. record' \in Row /\ Written(Service, record, record')
  BY DEF OtherUser
<1>3. record' \in Row /\ Later(record, record')
  BY <1>2, WrittenLater DEF CInv, Typed
<1>4. UNCHANGED <<query, pending, items, loading, error>>
  BY <1>1 DEF page, store
<1>5. /\ (call \in [Call -> CallSet])'
      /\ (\A d \in Call : CallOK(call[d], record))'
  BY <1>1, <1>3, CallsStay
<1>6. Typed'
  BY <1>1, <1>3, <1>4, <1>5, SameKind DEF CInv, Typed
<1>7. TableInv' /\ DialogInv' /\ LoadingEnds'
  BY <1>1, <1>3, <1>4, PageStays DEF CInv, LoadingEnds, InFlight
<1> QED
  BY <1>5, <1>6, <1>7 DEF CInv

\* A chain that ends, and stops the spinner.
LEMMA Ends ==
  ASSUME CInv, NEW c \in Call, call' = [call EXCEPT ![c] = Over], loading' = FALSE,
         UNCHANGED <<kind, record, role, switching, query>>,
         pending' \in {pending, NoDialog}, items' \in Items \cup {NoItems},
         Shown(items', record),
         error' \in BOOLEAN
  PROVE  CInv'
<1>1. CallOK(Over, record) /\ Over \in CallSet /\ Later(record, record)
  BY Chain DEF Over, NoCall, CallOK, None
<1>2. /\ (call \in [Call -> CallSet])'
      /\ (\A d \in Call : CallOK(call[d], record))'
  BY <1>1, CallStep
<1>3. Typed'
  BY <1>2, SameKind DEF CInv, Typed
<1>4. TableInv'
  BY SameKind DEF TableInv
<1>5. DialogInv'
  BY <1>1, PageStays DEF DialogInv
<1> QED
  BY <1>2, <1>3, <1>4, <1>5 DEF CInv, LoadingEnds

LEMMA ShowAnswerStep ==
  ASSUME CInv, NEW c \in Call, ShowAnswer(c)
  PROVE  CInv'
<1>1. /\ call[c].stage = "got" /\ items' = call[c].items /\ loading' = FALSE
      /\ call' = [call EXCEPT ![c] = Over] /\ UNCHANGED error
      /\ UNCHANGED <<kind, record, role, switching, query>> /\ pending' \in {pending, NoDialog}
  BY DEF ShowAnswer
<1>2. items' \in Items /\ Shown(items', record)
  BY <1>1, Chain DEF CallOK
<1>3. error' \in BOOLEAN
  BY <1>1 DEF CInv, Typed
<1> QED
  BY <1>1, <1>2, <1>3, Ends

LEMMA ShowErrorStep ==
  ASSUME CInv, NEW c \in Call, ShowError(c)
  PROVE  CInv'
<1>1. /\ loading' = FALSE /\ call' = [call EXCEPT ![c] = Over] /\ error' = TRUE
      /\ UNCHANGED <<kind, record, role, switching, query, items>>
      /\ pending' \in {pending, NoDialog}
  BY DEF ShowError
<1>2. items' \in Items \cup {NoItems} /\ Shown(items', record)
  BY <1>1 DEF CInv, Typed, TableInv
<1> QED
  BY <1>1, <1>2, Ends

\* Steps of the page alone.
LEMMA OpenCancelStep ==
  ASSUME CInv, Open \/ Cancel
  PROVE  CInv'
<1>1. UNCHANGED <<kind, record, role, switching, query, store, call>>
  BY DEF Open, Cancel
<1>2. pending' \in Dialog \cup {NoDialog} /\ DialogInv'
  <2>1. CASE Cancel
    BY <2>1 DEF Cancel, DialogInv
  <2>2. CASE Open
    <3>1. /\ items.status # None /\ switching = None /\ role \in RequireMinimumRole("operator")
          /\ Offered(items.status) # None
          /\ pending' = [from |-> items.status, to |-> Offered(items.status),
                         version |-> items.version]
      BY <2>2 DEF Open
    <3>2. /\ items.status \in Status /\ items.version \in 1..MaxVersion /\ kind \in Kinds
          /\ Seen(items.status, items.version, record)
      BY <3>1 DEF CInv, TableInv, Shown, Seen, Typed
    <3>3. Offered(items.status) \in Status
      <4>1. PICK reviewer \in BOOLEAN : reviewer <=> role \in RequireMinimumRole("reviewer")
        OBVIOUS
      <4>2. Offered(items.status) = nextPermittedStatus(kind, reviewer)[items.status]
        <5>1. reviewer = (role \in RequireMinimumRole("reviewer"))
          BY <4>1
        <5> QED
          BY <5>1 DEF Offered
      <4> QED
        BY <3>1, <3>2, <4>2, OfferedRules
    <3>4. /\ pending' \in Dialog /\ pending'.from = items.status
          /\ pending'.to = Offered(items.status) /\ pending'.version = items.version
      BY <3>1, <3>2, <3>3 DEF Dialog
    <3>5. DialogOfRole'
      BY <1>1, <3>1, <3>4 DEF DialogOfRole, Offered
    <3> QED
      BY <1>1, <3>2, <3>4, <3>5, SameKind DEF DialogInv
  <2> QED
    BY <2>1, <2>2
<1>3. Later(record, record')
  BY <1>1, MaxVersionAssumption DEF CInv, Typed, Row, Later
<1>4. /\ (call \in [Call -> CallSet])'
      /\ (\A d \in Call : CallOK(call[d], record))'
  BY <1>1, <1>3, CallsStay
<1>5. Typed'
  BY <1>1, <1>2, <1>4, SameKind DEF CInv, Typed, store
<1>6. TableInv' /\ LoadingEnds'
  BY <1>1, <1>3, PageStays DEF CInv, LoadingEnds, InFlight, store
<1> QED
  BY <1>2, <1>4, <1>5, <1>6 DEF CInv

LEMMA SwitchRoleStep ==
  ASSUME CInv, NEW r \in Role, SwitchRole(r)
  PROVE  CInv'
<1>1. /\ switching' = r /\ query' = First /\ pending' = NoDialog
      /\ UNCHANGED <<kind, record, role, items, loading, error>>
      /\ call' = [c \in Call |-> [call[c] EXCEPT !.mounted = FALSE]]
  BY DEF SwitchRole, store
<1>2. ASSUME NEW c \in Call
      PROVE  /\ call'[c] \in CallSet /\ CallOK(call'[c], record)
             /\ call'[c].stage = call[c].stage
  <2>1. PICK e : e = [call[c] EXCEPT !.mounted = FALSE]
    OBVIOUS
  <2>2. /\ e \in CallSet /\ e.stage = call[c].stage /\ e.does = call[c].does
        /\ e.query = call[c].query /\ e.items = call[c].items /\ e.dialog = call[c].dialog
        /\ e.expected = call[c].expected /\ e.role = call[c].role
    BY <2>1, Chain DEF CallSet
  <2>3. CallOK(e, record)
    BY <2>2, Chain DEF CallOK, Promised
  <2>4. call'[c] = e
    BY <1>1, <2>1
  <2> QED
    BY <2>2, <2>3, <2>4
<1>3. (call \in [Call -> CallSet])'
  <2>1. call' = [c \in Call |-> call'[c]]
    BY <1>1
  <2>2. call' \in [Call -> CallSet]
    BY <1>2, <2>1
  <2> QED
    BY <1>1, <2>2, SameKind
<1>4. (\A c \in Call : CallOK(call[c], record))'
  BY <1>1, <1>2, SameKind
<1>5. r \in Roles
  BY RoleAssumption
<1>6. Typed'
  BY <1>1, <1>3, <1>5, SameKind DEF CInv, Typed, Query
<1>7. TableInv' /\ DialogInv'
  BY <1>1, SameKind DEF CInv, TableInv, DialogInv
<1>8. LoadingEnds'
  BY <1>1, <1>2 DEF CInv, LoadingEnds, InFlight
<1> QED
  BY <1>3, <1>4, <1>6, <1>7, <1>8 DEF CInv, DialogInv

LEMMA InitCInv == Init => CInv
<1> SUFFICES ASSUME Init PROVE CInv
  OBVIOUS
<1>1. kind \in Kinds /\ role \in Roles
  BY KindAssumption, RoleAssumption DEF Init
<1>2. record \in Row
  <2>1. record \in [life : {"live"}, status : Service.seeds, version : {1}]
    BY DEF Init
  <2>2. Service.seeds \subseteq Status /\ 1 \in 1..MaxVersion
    BY <1>1, ServiceRules, MaxVersionAssumption
  <2> QED
    BY <2>1, <2>2 DEF Row
<1>3. call \in [Call -> CallSet] /\ \A c \in Call : CallOK(call[c], record)
  <2>1. NoCall \in CallSet /\ CallOK(NoCall, record)
    BY DEF NoCall, CallSet, CallOK, None
  <2> QED
    BY <2>1 DEF Init
<1>4. Typed
  BY <1>1, <1>2, <1>3 DEF Init, Typed, Query
<1>5. TableInv /\ DialogInv /\ LoadingEnds
  BY DEF Init, TableInv, Shown, NoItems, NoRow, DialogInv, LoadingEnds
<1> QED
  BY <1>3, <1>4, <1>5 DEF CInv

LEMMA NextCInv == CInv /\ [Next]_vars => CInv'
<1> SUFFICES ASSUME CInv, [Next]_vars PROVE CInv'
  OBVIOUS
<1>1. CASE UNCHANGED vars
  <2>1. UNCHANGED <<kind, record, role, switching, query, pending, items, loading, error, call>>
    BY <1>1 DEF vars, page, store
  <2>2. Typed' /\ LoadingEnds'
    BY <2>1, SameKind DEF CInv, Typed, LoadingEnds, InFlight
  <2>3. Later(record, record')
    BY <2>1, MaxVersionAssumption DEF CInv, Typed, Row, Later
  <2> QED
    BY <2>1, <2>2, <2>3, CallsStay, PageStays DEF CInv
<1>2. CASE Terminating
  BY <1>1, <1>2 DEF Terminating
<1>3. ASSUME NEW c \in Call, Mount(c) \/ CreateRecord(c) \/ Confirm(c) \/ Reload(c)
      PROVE  CInv'
  BY <1>3, MountStep, CreateRecordStep, ConfirmStep, ReloadStep
<1>4. ASSUME NEW c \in Call, NEW q \in Query, Turn(c, q) PROVE CInv'
  BY <1>4, TurnStep
<1>5. ASSUME NEW c \in Call,
             ServeGet(c) \/ ServeCreate(c) \/ Refuse(c) \/ Apply(c) \/ Unreached(c)
      PROVE  CInv'
  BY <1>5, ServeGetStep, ServeCreateStep, ApplyStep, FailsStep
<1>6. ASSUME NEW c \in Call, ShowAnswer(c) \/ ShowError(c) PROVE CInv'
  BY <1>6, ShowAnswerStep, ShowErrorStep
<1> QED
  BY <1>1, <1>2, <1>3, <1>4, <1>5, <1>6, OpenCancelStep, SwitchRoleStep, OtherUserStep DEF Next

(***************************************************************************)
(* Every reachable state satisfies the inductive invariant.                *)
(***************************************************************************)
THEOREM ConsoleInvariance == Spec => []CInv
<1> QED
  BY InitCInv, NextCInv, PTL DEF Spec

-----------------------------------------------------------------------------
(* What the invariant is for.                                              *)

(***************************************************************************)
(* What the page of any aggregate shows and asks for is a state of it.     *)
(***************************************************************************)
THEOREM ConsoleTypeCorrect == Spec => []TypeOK
<1>1. CInv => TypeOK
  <2> SUFFICES ASSUME CInv PROVE TypeOK
    OBVIOUS
  <2>1. \A c \in Call :
          /\ call[c].stage \in {"free", "post", "posted", "get", "got", "unloaded", "failed", "done"}
          /\ call[c].dialog \in Dialog \cup {NoDialog}
    BY Chain DEF CallSet
  <2> QED
    BY <2>1 DEF CInv, Typed, TypeOK
<1> QED
  BY <1>1, ConsoleInvariance, PTL

(***************************************************************************)
(* The store is never loading without a chain on its way, for any number   *)
(* of overlapping chains.                                                  *)
(***************************************************************************)
THEOREM LoadingEndsHolds == Spec => []LoadingEnds
<1>1. CInv => LoadingEnds
  BY DEF CInv
<1> QED
  BY <1>1, ConsoleInvariance, PTL

(***************************************************************************)
(* An open dialog asks for what the role of the session may ask for.       *)
(***************************************************************************)
THEOREM DialogOfRoleHolds == Spec => []DialogOfRole
<1>1. CInv => DialogOfRole
  BY DEF CInv, DialogInv, DialogOfRole
<1> QED
  BY <1>1, ConsoleInvariance, PTL

\* The only step of a chain that changes the record applies its transition.
LEMMA AppliesStep ==
  ASSUME CInv, [Next]_vars, NEW c \in Call, call'[c] # call[c], record' # record
  PROVE  Apply(c)
<1>1. ~UNCHANGED record /\ ~UNCHANGED call
  OBVIOUS
<1>2. \E d \in Call : Apply(d)
  <2>1. ASSUME NEW d \in Call,
               \/ Mount(d) \/ CreateRecord(d) \/ Confirm(d) \/ \E q \in Query : Turn(d, q)
               \/ ShowAnswer(d) \/ ShowError(d) \/ Reload(d) \/ ServeGet(d)
               \/ ServeCreate(d) \/ Refuse(d) \/ Unreached(d)
        PROVE  UNCHANGED record
    BY <2>1 DEF Mount, CreateRecord, Confirm, Turn, ShowAnswer, ShowError, Reload,
                ServeGet, ServeCreate, Refuse, Unreached
  <2>2. ASSUME Open \/ Cancel \/ OtherUser \/ Terminating \/ (\E r \in Role : SwitchRole(r))
               \/ UNCHANGED vars
        PROVE  UNCHANGED record \/ UNCHANGED call
    BY <2>2 DEF Open, Cancel, OtherUser, Terminating, SwitchRole, vars
  <2> QED
    BY <1>1, <2>1, <2>2 DEF Next
<1>3. PICK d \in Call : Apply(d)
  BY <1>2
<1>4. \E e : call' = [call EXCEPT ![d] = e]
  BY <1>3 DEF Apply
<1>5. d = c
  BY <1>4 DEF CInv, Typed
<1> QED
  BY <1>3, <1>5

(***************************************************************************)
(* A transition that takes effect does what its dialog showed, whatever    *)
(* other users did in between and however often it was confirmed.          *)
(***************************************************************************)
THEOREM ConfirmedTruthHolds == Spec => ConfirmedTruth
<1>1. CInv /\ [Next]_vars =>
        [\A c \in Call :
           call'[c] # call[c] /\ record' # record
             => /\ record.status = call[c].dialog.from
                /\ record.version = call[c].dialog.version
                /\ record'.status = call[c].dialog.to]_vars
  BY AppliesStep, AppliedTo
<1> QED
  BY <1>1, ConsoleInvariance, PTL DEF Spec, ConfirmedTruth

(***************************************************************************)
(* What the page of any aggregate offers to any role, the service accepts, *)
(* unless another write came in between, or the token was that of another  *)
(* role than the page's because another tab had replaced it.               *)
(***************************************************************************)
THEOREM OfferAcceptedHolds == Spec => []OfferAccepted
<1>1. CInv => OfferAccepted
  BY RefusedLater DEF OfferAccepted
<1> QED
  BY <1>1, ConsoleInvariance, PTL

(***************************************************************************)
(* The page is one of the clients for which RecordService is atomic: it    *)
(* never sends a version the record has not reached.                       *)
(***************************************************************************)
THEOREM NeverAheadHolds == Spec => []NeverAhead
<1>1. CInv => NeverAhead
  BY DEF CInv, CallOK, Promised, Seen, NeverAhead
<1> QED
  BY <1>1, ConsoleInvariance, PTL
=============================================================================
