------------------------------ MODULE Catalog ------------------------------
(***************************************************************************)
(* What the tables are to those who use them, whatever starts, collides or *)
(* stops behind them: a table is seeded once, all its seeds at a time;     *)
(* clients come when every table is; and a code is used once: it is taken  *)
(* by one row, which may be deleted, and never returns.  There are no      *)
(* instances, outages or kills here; Startup, where several instances seed *)
(* one database and may stop at any statement, is shown to implement this. *)
(***************************************************************************)
CONSTANTS
  Table,   \* the tables that are seeded
  Closed,  \* those of them no client writes
  Seeds,   \* the codes each is seeded with
  Extra    \* the codes clients may use beside them

VARIABLES live, gone

vars == <<live, gone>>

Used(t) == live[t] \cup gone[t]

Init == live = [t \in Table |-> {}] /\ gone = [t \in Table |-> {}]

Seed(t) ==
  /\ Used(t) = {}
  /\ live' = [live EXCEPT ![t] = Seeds]
  /\ UNCHANGED gone

Open == \A t \in Table : Seeds \subseteq Used(t)

Create(t, c) ==
  /\ Open
  /\ c \notin Used(t)
  /\ live' = [live EXCEPT ![t] = @ \cup {c}]
  /\ UNCHANGED gone

Delete(t, c) ==
  /\ Open
  /\ c \in live[t]
  /\ live' = [live EXCEPT ![t] = @ \ {c}]
  /\ gone' = [gone EXCEPT ![t] = @ \cup {c}]

Next ==
  \/ \E t \in Table : Seed(t)
  \/ \E t \in Table \ Closed, c \in Seeds \cup Extra : Create(t, c) \/ Delete(t, c)

Spec == Init /\ [][Next]_vars
=============================================================================
