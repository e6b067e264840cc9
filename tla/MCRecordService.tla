-------------------------- MODULE MCRecordService --------------------------
(***************************************************************************)
(* RecordService for TLC: requests are interchangeable, payloads are not,  *)
(* as a revision may or may not tell them apart.                           *)
(***************************************************************************)
EXTENDS RecordService, TLC

Symmetry == Permutations(Request)

\* A role below the review gate and one above it, both of which may write.
FewRoles == {"operator", "admin"}

\* Fields that differ in what a revision copies, in what it leaves out, or in
\* both.
Drafts == {"matte, due today", "matte, due later", "glossy, due today"}

\* Fields that a revision tells apart.
Finishes == {"matte, due today", "glossy, due today"}

\* The finish is copied, the date is not.
FinishOf(d) ==
  CASE d \in {"matte, due today", "matte, due later"} -> "matte"
    [] d = "glossy, due today" -> "glossy"
    [] OTHER -> None
=============================================================================
