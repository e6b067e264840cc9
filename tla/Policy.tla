------------------------------- MODULE Policy -------------------------------
(***************************************************************************)
(* The rules of the four aggregates, as data: the status graphs of         *)
(* constants/status.go, the role ranks of middleware/auth.go, and, for     *)
(* each aggregate, one record that says what its service checks.  The four *)
(* services are the same procedure over different rules, so the behaviour  *)
(* is written once, in RecordService, over one of these records.           *)
(*                                                                         *)
(*   statuses   the statuses of the aggregate (the keys of its graph)      *)
(*   initial    the status Create gives a record                           *)
(*   graph      status -> the statuses Transition may move it to           *)
(*   gated      entering or leaving one of these needs canReview           *)
(*   frozen     Update answers ErrLocked in these                          *)
(*   deletable  Delete answers ErrLocked outside of these                  *)
(*   versioned  writes append a revision in the transaction of the write   *)
(*   seeds      the statuses of the rows Seed inserts                      *)
(***************************************************************************)
EXTENDS Naturals

-----------------------------------------------------------------------------
(* Roles.                                                                  *)

roleRank == [viewer |-> 1, operator |-> 2, reviewer |-> 3, admin |-> 4]

Roles == DOMAIN roleRank

RequireMinimumRole(minimum) == {r \in Roles : roleRank[r] >= roleRank[minimum]}

RequireRoles(roles) == roles

canReview(role) == role \in {"reviewer", "admin"}

\* The roles that may call each writing route of an aggregate.
Routes ==
  [create     |-> RequireMinimumRole("operator"),
   update     |-> RequireMinimumRole("operator"),
   transition |-> RequireMinimumRole("operator"),
   delete     |-> RequireRoles({"admin"})]

-----------------------------------------------------------------------------
(* The status graphs.                                                      *)

PressUnitTransitions ==
  [ready       |-> {"setup", "printing"},
   setup       |-> {"printing", "maintenance", "ready"},
   printing    |-> {"maintenance", "setup"},
   maintenance |-> {"printing"}]

PrintRunTransitions ==
  [setup    |-> {"printing"},
   printing |-> {"proofing", "hold", "setup"},
   proofing |-> {"hold", "released", "printing"},
   hold     |-> {"proofing"},
   released |-> {"hold"}]

ColorProofTransitions ==
  [captured |-> {"review"},
   review   |-> {"accepted", "rejected", "captured"},
   accepted |-> {"review"},
   rejected |-> {"review"}]

ReleaseDecisionTransitions ==
  [draft      |-> {"release", "rework"},
   release    |-> {"rework", "quarantine", "draft"},
   rework     |-> {"quarantine", "release"},
   quarantine |-> {"rework"}]

\* A status outside the graph has no targets: the map lookup of the code
\* yields false for it on either side.
CanTransition(graph, from, to) == from \in DOMAIN graph /\ to \in graph[from]

-----------------------------------------------------------------------------
(* The statuses of the rows each aggregate is seeded with.                 *)

seedPressUnit       == {"ready", "setup", "printing"}
seedPrintRun        == {"setup", "printing", "proofing"}
seedColorProof      == {"captured", "review", "accepted"}
seedReleaseDecision == {"draft", "release", "rework"}

-----------------------------------------------------------------------------
(* The four services.                                                      *)

PressUnitService ==
  [statuses  |-> DOMAIN PressUnitTransitions,
   initial   |-> "ready",
   graph     |-> PressUnitTransitions,
   gated     |-> {},
   frozen    |-> {},
   deletable |-> DOMAIN PressUnitTransitions,
   versioned |-> FALSE,
   seeds     |-> seedPressUnit]

PrintRunService ==
  [statuses  |-> DOMAIN PrintRunTransitions,
   initial   |-> "setup",
   graph     |-> PrintRunTransitions,
   gated     |-> {"released"},
   frozen    |-> {},
   deletable |-> {"setup"},
   versioned |-> TRUE,
   seeds     |-> seedPrintRun]

ColorProofService ==
  [statuses  |-> DOMAIN ColorProofTransitions,
   initial   |-> "captured",
   graph     |-> ColorProofTransitions,
   gated     |-> {"accepted", "rejected"},
   frozen    |-> {},
   deletable |-> DOMAIN ColorProofTransitions,
   versioned |-> FALSE,
   seeds     |-> seedColorProof]

ReleaseDecisionService ==
  [statuses  |-> DOMAIN ReleaseDecisionTransitions,
   initial   |-> "draft",
   graph     |-> ReleaseDecisionTransitions,
   gated     |-> {"release", "quarantine"},
   frozen    |-> {"release", "quarantine"},
   deletable |-> {"draft"},
   versioned |-> TRUE,
   seeds     |-> seedReleaseDecision]

\* What one write of a service makes of a live row, as those see it who list
\* it: an update keeps the status, a transition follows the graph, a deletion
\* leaves everything but the row's place in the lists.
Written(service, before, after) ==
  /\ before.life = "live"
  /\ \/ /\ after.life = "live"
        /\ after.version = before.version + 1
        /\ after.status \in {before.status} \cup service.graph[before.status]
     \/ /\ after.life = "deleted"
        /\ after.version = before.version
        /\ after.status = before.status

-----------------------------------------------------------------------------
(***************************************************************************)
(* What RecordService asks of the rules it is given; PolicyProofs shows    *)
(* that the four services satisfy it.  The last conjunct is not decoration:*)
(* without it a Transition could leave the status where it is and the two  *)
(* kinds of write would not be told apart in the revision chain.           *)
(***************************************************************************)
WellFormed(s) ==
  /\ s.graph \in [s.statuses -> SUBSET s.statuses]
  /\ s.initial \in s.statuses
  /\ s.seeds \subseteq s.statuses
  /\ s.gated \subseteq s.statuses
  /\ s.frozen \subseteq s.statuses
  /\ s.deletable \subseteq s.statuses
  /\ s.versioned \in BOOLEAN
  /\ \A t \in s.statuses : t \notin s.graph[t]
=============================================================================
