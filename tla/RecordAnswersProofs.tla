------------------------ MODULE RecordAnswersProofs ------------------------
(***************************************************************************)
(* What the answers and the audit log of RecordService tell a client, for  *)
(* any number of requests, any expected versions and any faults; and the   *)
(* inductive invariant of RecordService as one theorem.                    *)
(***************************************************************************)
EXTENDS RecordServiceProofs

-----------------------------------------------------------------------------
(* What a step does to one request.                                        *)

\* What request x holds does not change in the step.
Kept(x) ==
  /\ pc'[x] = pc[x] /\ input'[x] = input[x] /\ snap'[x] = snap[x]
  /\ reply'[x] = reply[x] /\ committed'[x] = committed[x]

LEMMA CommitAt ==
  ASSUME NEW p \in Request, Commit(p) PROVE pc[p] \in {"insert", "write"}
BY DEF Commit, CommitInsert, CommitUpdate, CommitDelete

\* A request that is served is not done, and the others keep what they hold.
LEMMA ServeLocal ==
  ASSUME TypeInv, NEW p \in Request, Serve(p)
  PROVE  pc[p] # "done" /\ \A x \in Request \ {p} : Kept(x)
<1> USE DEF TypeInv, TypeOK, Kept, Goto, Finish
<1>1. CASE ReceiveCreate(p)
  BY <1>1 DEF ReceiveCreate, Receive
<1>2. CASE ReceiveUpdate(p)
  BY <1>2 DEF ReceiveUpdate, Receive
<1>3. CASE ReceiveTransition(p)
  BY <1>3 DEF ReceiveTransition, Receive
<1>4. CASE ReceiveDelete(p)
  BY <1>4 DEF ReceiveDelete, Receive
<1>5. CASE Load(p)
  BY <1>5 DEF Load
<1>6. CASE Write(p)
  BY <1>6, CommitAt DEF Write
<1>7. CASE Refuse(p)
  BY <1>7 DEF Refuse
<1>8. CASE Audit(p)
  BY <1>8 DEF Audit, Continue
<1>9. CASE AuditFails(p)
  BY <1>9 DEF AuditFails, Continue
<1>10. CASE Reload(p)
  BY <1>10 DEF Reload
<1>11. CASE StatementFails(p)
  BY <1>11 DEF StatementFails
<1>12. CASE WriteUnacknowledged(p)
  BY <1>12, CommitAt DEF WriteUnacknowledged
<1> QED
  BY <1>1, <1>2, <1>3, <1>4, <1>5, <1>6, <1>7, <1>8, <1>9, <1>10, <1>11, <1>12 DEF Serve

\* A request keeps what it holds, or is served, or lost in a restart.
LEMMA StepOf ==
  ASSUME TypeInv, [Next]_vars, NEW q \in Request
  PROVE  \/ Kept(q)
         \/ Serve(q)
         \/ /\ Restart /\ pc[q] # "done"
            /\ pc'[q] = "done" /\ reply'[q] = "lost"
<1>1. CASE UNCHANGED vars
  BY <1>1 DEF vars, Kept
<1>2. CASE Terminating
  BY <1>2 DEF Terminating, vars, Kept
<1>3. CASE Restart
  BY <1>3 DEF Restart, InFlight, Kept, TypeInv, TypeOK
<1>4. ASSUME NEW p \in Request, Serve(p) PROVE Kept(q) \/ Serve(q)
  BY <1>4, ServeLocal
<1> QED
  BY <1>1, <1>2, <1>3, <1>4 DEF Next

\* A request that is done stays as it is.
LEMMA DoneKept ==
  ASSUME TypeInv, [Next]_vars, NEW q \in Request, pc[q] = "done"
  PROVE  Kept(q)
BY StepOf, ServeLocal

\* Audit entries are never removed.
LEMMA AuditsGrow == ASSUME [Next]_vars PROVE audits \subseteq audits'
BY DEF Next, Serve, ReceiveCreate, ReceiveUpdate, ReceiveTransition, ReceiveDelete,
       Receive, Load, Write, Refuse, Audit, AuditFails, Reload, StatementFails,
       WriteUnacknowledged, Restart, Terminating, vars

\* The actions that answer ok.
LEMMA AnswersOk ==
  ASSUME TypeInv, [Next]_vars, NEW q \in Request, reply'[q] = "ok", reply[q] # "ok"
  PROVE  \/ Reload(q) /\ snap'[q] = row[input[q].rec]
         \/ Audit(q) /\ ~Writes(q)
         \/ AuditFails(q) /\ input[q].op = "create"
<1> USE DEF TypeInv, TypeOK, Goto, Finish
<1>1. Serve(q)
  BY StepOf DEF Kept
<1>2. ~ \/ ReceiveCreate(q) \/ ReceiveUpdate(q) \/ ReceiveTransition(q)
        \/ ReceiveDelete(q) \/ Load(q)
  BY DEF ReceiveCreate, ReceiveUpdate, ReceiveTransition, ReceiveDelete, Receive,
         Load, Refusal
<1>3. ~(Write(q) \/ Refuse(q) \/ StatementFails(q) \/ WriteUnacknowledged(q))
  BY DEF Write, Refuse, StatementFails, WriteUnacknowledged
<1>4. CASE Reload(q)
  BY <1>4 DEF Reload
<1>5. CASE Audit(q)
  BY <1>5 DEF Audit, Continue, Writes
<1>6. CASE AuditFails(q)
  BY <1>6 DEF AuditFails, Continue
<1> QED
  BY <1>1, <1>2, <1>3, <1>4, <1>5, <1>6 DEF Serve

\* A refusal comes before any write of the request.
LEMMA AnswersRefused ==
  ASSUME TypeInv, [Next]_vars, NEW q \in Request, reply[q] # reply'[q],
         reply'[q] \in {"forbidden", "locked", "invalid", "conflict"}
  PROVE  pc[q] \in {"idle", "load", "insert", "write"} /\ UNCHANGED committed
<1> USE DEF TypeInv, TypeOK, Goto, Finish
<1>1. Serve(q)
  BY StepOf DEF Kept
<1>2. ~(StatementFails(q) \/ WriteUnacknowledged(q) \/ Write(q))
  BY DEF StatementFails, WriteUnacknowledged, Write
<1>3. ~(Audit(q) \/ AuditFails(q) \/ Reload(q))
  BY DEF Audit, AuditFails, Continue, Reload
<1>4. CASE Load(q) \/ Refuse(q)
  BY <1>4 DEF Load, Refuse
<1>5. CASE \/ ReceiveCreate(q) \/ ReceiveUpdate(q) \/ ReceiveTransition(q)
           \/ ReceiveDelete(q)
  BY <1>5 DEF ReceiveCreate, ReceiveUpdate, ReceiveTransition, ReceiveDelete, Receive
<1> QED
  BY <1>1, <1>2, <1>3, <1>4, <1>5 DEF Serve

-----------------------------------------------------------------------------
(* The answers.                                                            *)

\* A request reaches its audit by its own commit.
LEMMA AuditStart ==
  ASSUME TypeInv, NEW q \in Request, Serve(q), pc'[q] = "audit"
  PROVE  reply'[q] = reply[q] /\ committed'[q] /\ pc[q] # "done"
<1> USE DEF TypeInv, TypeOK, Goto, Finish
<1>1. ~ \/ ReceiveCreate(q) \/ ReceiveUpdate(q) \/ ReceiveTransition(q)
        \/ ReceiveDelete(q) \/ Load(q)
  BY DEF ReceiveCreate, ReceiveUpdate, ReceiveTransition, ReceiveDelete, Receive, Load
<1>2. ~(Refuse(q) \/ Reload(q) \/ StatementFails(q) \/ WriteUnacknowledged(q))
  BY DEF Refuse, Reload, StatementFails, WriteUnacknowledged
<1>3. ~(Audit(q) \/ AuditFails(q))
  BY DEF Audit, AuditFails, Continue
<1>4. CASE Write(q)
  BY <1>4, CommitAt DEF Write
<1> QED
  BY <1>1, <1>2, <1>3, <1>4 DEF Serve

\* A request reaches its reload by its audit, whose error only an update drops.
LEMMA ReloadStart ==
  ASSUME TypeInv, NEW q \in Request, Serve(q), pc'[q] = "reload"
  PROVE  /\ pc[q] = "audit" /\ UNCHANGED <<input, committed, reply>>
         /\ \/ audits' = audits \cup {AuditEntry(q)}
            \/ Faults /\ input[q].op # "transition"
<1> USE DEF TypeInv, TypeOK, Goto, Finish
<1>1. ~ \/ ReceiveCreate(q) \/ ReceiveUpdate(q) \/ ReceiveTransition(q)
        \/ ReceiveDelete(q) \/ Load(q)
  BY DEF ReceiveCreate, ReceiveUpdate, ReceiveTransition, ReceiveDelete, Receive, Load
<1>2. ~ \/ Write(q) \/ Refuse(q) \/ Reload(q) \/ StatementFails(q)
        \/ WriteUnacknowledged(q)
  BY DEF Write, Refuse, Reload, StatementFails, WriteUnacknowledged
<1>3. CASE Audit(q)
  BY <1>3 DEF Audit, Continue
<1>4. CASE AuditFails(q)
  BY <1>4 DEF AuditFails, Continue
<1> QED
  BY <1>1, <1>2, <1>3, <1>4 DEF Serve

\* A request that is not done after a step has not been answered in it.
LEMMA Unanswered ==
  ASSUME TypeInv, NEW q \in Request, Serve(q), pc'[q] # "done"
  PROVE  reply'[q] = reply[q]
BY DEF TypeInv, TypeOK, Goto, Finish, Serve, ReceiveCreate, ReceiveUpdate,
       ReceiveTransition, ReceiveDelete, Receive, Load, Write, Refuse, Audit,
       AuditFails, Continue, Reload, StatementFails, WriteUnacknowledged

LEMMA EntryBy == ASSUME NEW q \in Request PROVE AuditEntry(q).by = q
BY DEF AuditEntry

LEMMA AnswerStep == TypeInv /\ AnswerInv /\ [Next]_vars => AnswerInv'
<1> SUFFICES ASSUME TypeInv, AnswerInv, [Next]_vars, NEW q \in Request
             PROVE  /\ pc'[q] # "done" => reply'[q] = None
                    /\ pc'[q] \in {"audit", "reload"} => committed'[q]
                    /\ pc'[q] = "reload" /\ input'[q].op = "transition"
                         => \E a \in audits' : a.by = q
  BY DEF AnswerInv
<1>1. CASE Kept(q)
  BY <1>1, AuditsGrow DEF Kept, AnswerInv
<1>2. CASE pc'[q] = "done"
  BY <1>2
<1>3. CASE Serve(q) /\ pc'[q] # "done"
  <2>1. reply'[q] = None
    BY <1>3, Unanswered, ServeLocal DEF AnswerInv
  <2>2. pc'[q] \in {"audit", "reload"} => committed'[q]
    BY <1>3, AuditStart, ReloadStart DEF AnswerInv
  <2>3. ASSUME pc'[q] = "reload", input'[q].op = "transition"
        PROVE  \E a \in audits' : a.by = q
    BY <1>3, <2>3, ReloadStart, EntryBy
  <2> QED
    BY <2>1, <2>2, <2>3
<1> QED
  BY <1>1, <1>2, <1>3, StepOf

LEMMA AnswerInvariant == Spec => [](TypeInv /\ AnswerInv)
<1>1. Init => AnswerInv
  BY DEF Init, AnswerInv
<1> QED
  BY <1>1, AnswerStep, TypeInit, TypeStep, PTL DEF Spec

LEMMA HonestStep ==
  TypeInv /\ AnswerInv /\ ReplyHonest /\ [Next]_vars => ReplyHonest'
<1> SUFFICES ASSUME TypeInv, AnswerInv, ReplyHonest, [Next]_vars, NEW q \in Request
             PROVE  /\ reply'[q] = "ok" => committed'[q]
                    /\ reply'[q] \in {"forbidden", "locked", "invalid", "conflict"}
                         => ~committed'[q]
  BY DEF ReplyHonest
<1>1. CASE pc[q] = "done"
  BY <1>1, DoneKept DEF Kept, ReplyHonest
<1>2. CASE pc[q] # "done"
  <2>1. reply[q] = None
    BY <1>2 DEF AnswerInv
  <2>2. ASSUME reply'[q] = "ok" PROVE committed'[q]
    <3>1. pc[q] \in {"audit", "reload"} /\ UNCHANGED committed
      BY <2>1, <2>2, AnswersOk DEF Reload, Audit, AuditFails, None
    <3> QED
      BY <3>1 DEF AnswerInv
  <2>3. ASSUME reply'[q] \in {"forbidden", "locked", "invalid", "conflict"}
        PROVE  ~committed'[q]
    BY <2>1, <2>3, AnswersRefused DEF None, TypeInv, StageInv, Stage
  <2> QED
    BY <2>2, <2>3
<1> QED
  BY <1>1, <1>2

\* No answer claims a write that did not happen, and no refusal hides one.
THEOREM ReplyHonestInvariant == Spec => []ReplyHonest
<1>1. Init => ReplyHonest
  BY DEF Init, ReplyHonest, None
<1> QED
  BY <1>1, HonestStep, AnswerInvariant, PTL DEF Spec

LEMMA AckedStep ==
  TypeInv /\ AnswerInv /\ AckedAudited /\ [Next]_vars => AckedAudited'
<1> SUFFICES ASSUME TypeInv, AnswerInv, AckedAudited, [Next]_vars, NEW q \in Request,
                    reply'[q] = "ok", input'[q].op \in {"transition", "delete"}
             PROVE  \E a \in audits' : a.by = q
  BY DEF AckedAudited
<1>1. CASE pc[q] = "done"
  BY <1>1, DoneKept, AuditsGrow DEF Kept, AckedAudited
<1>2. CASE pc[q] # "done"
  <2>1. reply[q] # "ok"
    BY <1>2 DEF AnswerInv, None
  <2>2. CASE Reload(q)
    <3>1. pc[q] = "reload" /\ input'[q] = input[q] /\ audits' = audits
      BY <2>2 DEF Reload
    <3>2. input[q].op = "transition"
      BY <3>1 DEF TypeInv, StageInv, Stage, Writes
    <3> QED
      BY <3>1, <3>2 DEF AnswerInv
  <2>3. CASE Audit(q)
    BY <2>3, EntryBy DEF Audit
  <2>4. CASE AuditFails(q) /\ input[q].op = "create"
    BY <2>4 DEF AuditFails
  <2> QED
    BY <2>1, <2>2, <2>3, <2>4, AnswersOk
<1> QED
  BY <1>1, <1>2

\* A transition or deletion that was answered with success is in the audit log.
THEOREM AckedAuditedInvariant == Spec => []AckedAudited
<1>1. Init => AckedAudited
  BY DEF Init, AckedAudited, None
<1> QED
  BY <1>1, AckedStep, AnswerInvariant, PTL DEF Spec

LEMMA NotOlderStep ==
  TypeInv /\ WinnerInv /\ AnswerInv /\ ReplyNotOlder /\ [Next]_vars => ReplyNotOlder'
<1> SUFFICES ASSUME TypeInv, WinnerInv, AnswerInv, ReplyNotOlder, [Next]_vars,
                    NEW q \in Request, reply'[q] = "ok", Writes(q)'
             PROVE  snap'[q].version > input'[q].expected
  BY DEF ReplyNotOlder
<1>1. CASE pc[q] = "done"
  BY <1>1, DoneKept DEF Kept, ReplyNotOlder, Writes
<1>2. CASE pc[q] # "done"
  <2>1. reply[q] # "ok"
    BY <1>2 DEF AnswerInv, None
  <2>2. Reload(q) /\ snap'[q] = row[input[q].rec]
    BY <2>1, AnswersOk DEF Audit, AuditFails, Writes
  <2>3. pc[q] = "reload" /\ input'[q] = input[q] /\ committed[q] /\ Writes(q)
    BY <2>2 DEF Reload, AnswerInv, Writes
  <2>4. input[q].expected < row[input[q].rec].version
    BY <2>3 DEF WinnerInv
  <2>5. input[q].expected \in Nat /\ row[input[q].rec].version \in Nat
    BY <2>3, InputFields DEF TypeInv, TypeOK, StageInv, Stage, Writes, Row
  <2> QED
    BY <2>2, <2>3, <2>4, <2>5
<1> QED
  BY <1>1, <1>2

\* The row a writer is answered with is beyond the version it expected.
THEOREM ReplyNotOlderInvariant == Spec => []ReplyNotOlder
<1>1. Init => WinnerInv /\ ReplyNotOlder
  BY DEF Init, WinnerInv, ReplyNotOlder, None
<1> QED
  BY <1>1, NotOlderStep, WinnerStep, AnswerInvariant, PTL DEF Spec

-----------------------------------------------------------------------------
(* The audit log while no statement fails.                                 *)

\* Where a request stands when it ends without a fault.
LEMMA Ends ==
  ASSUME TypeInv, ~Faults, NEW q \in Request, Serve(q), pc'[q] = "done"
  PROVE  \/ pc[q] \in {"idle", "load", "insert", "write"} /\ UNCHANGED committed
         \/ pc[q] = "reload"
         \/ audits' = audits \cup {AuditEntry(q)}
<1> USE DEF TypeInv, TypeOK, Goto, Finish
<1>1. CASE \/ ReceiveCreate(q) \/ ReceiveUpdate(q) \/ ReceiveTransition(q)
           \/ ReceiveDelete(q)
  BY <1>1 DEF ReceiveCreate, ReceiveUpdate, ReceiveTransition, ReceiveDelete, Receive
<1>2. CASE Load(q) \/ Refuse(q) \/ Reload(q) \/ Audit(q)
  BY <1>2 DEF Load, Refuse, Reload, Audit
<1>3. ~(Write(q) \/ AuditFails(q) \/ StatementFails(q) \/ WriteUnacknowledged(q))
  BY DEF Write, AuditFails, StatementFails, WriteUnacknowledged
<1> QED
  BY <1>1, <1>2, <1>3 DEF Serve

\* A request is audited before it reads the row again.
ReloadAudited ==
  \A q \in Request : pc[q] = "reload" => \E a \in audits : a.by = q

LEMMA AuditCompleteStep ==
  ASSUME ~Faults
  PROVE  TypeInv /\ ReloadAudited /\ AuditComplete /\ [Next]_vars
           => (ReloadAudited /\ AuditComplete)'
<1> SUFFICES ASSUME TypeInv, ReloadAudited, AuditComplete, [Next]_vars, NEW q \in Request
             PROVE  /\ pc'[q] = "reload" => \E a \in audits' : a.by = q
                    /\ pc'[q] = "done" /\ committed'[q] => \E a \in audits' : a.by = q
  BY DEF ReloadAudited, AuditComplete
<1>1. CASE Kept(q)
  BY <1>1, AuditsGrow DEF Kept, ReloadAudited, AuditComplete
<1>2. CASE Serve(q)
  <2>1. CASE pc'[q] = "reload"
    BY <1>2, <2>1, ReloadStart, EntryBy
  <2>2. ASSUME pc'[q] = "done", committed'[q] PROVE \E a \in audits' : a.by = q
    <3>1. ~(pc[q] \in {"idle", "load", "insert", "write"} /\ UNCHANGED committed)
      BY <2>2 DEF TypeInv, StageInv, Stage
    <3>2. CASE pc[q] = "reload"
      BY <3>2, AuditsGrow DEF ReloadAudited
    <3>3. CASE audits' = audits \cup {AuditEntry(q)}
      BY <3>3, EntryBy
    <3> QED
      BY <1>2, <2>2, <3>1, <3>2, <3>3, Ends
  <2> QED
    BY <2>1, <2>2
<1>3. ~Restart
  BY DEF Restart
<1> QED
  BY <1>1, <1>2, <1>3, StepOf

\* While no statement fails, every committed write is in the audit log by the
\* time its request is over.
THEOREM AuditCompleteInvariant ==
  ASSUME ~Faults
  PROVE  Spec => []AuditComplete
<1>1. Init => ReloadAudited /\ AuditComplete
  BY DEF Init, ReloadAudited, AuditComplete
<1> QED
  BY <1>1, AuditCompleteStep, TypeInvariant, PTL DEF Spec

-----------------------------------------------------------------------------
(* What the entries of the audit log say.                                  *)

\* Once a request is at its audit, what it asked for stays.
LEMMA AskedKept ==
  ASSUME TypeInv, NEW q \in Request, Serve(q), pc[q] \in {"audit", "reload"}
  PROVE  /\ input' = input /\ committed' = committed
         /\ pc'[q] \in {"reload", "done"}
<1> USE DEF TypeInv, TypeOK, Goto, Finish
<1>1. ~ \/ ReceiveCreate(q) \/ ReceiveUpdate(q) \/ ReceiveTransition(q)
        \/ ReceiveDelete(q) \/ Load(q)
  BY DEF ReceiveCreate, ReceiveUpdate, ReceiveTransition, ReceiveDelete, Receive, Load
<1>2. ~(Write(q) \/ WriteUnacknowledged(q))
  BY CommitAt DEF Write, WriteUnacknowledged
<1>3. ~Refuse(q)
  BY DEF Refuse
<1>4. CASE Audit(q) \/ AuditFails(q)
  BY <1>4 DEF Audit, AuditFails, Continue
<1>5. CASE Reload(q) \/ StatementFails(q)
  BY <1>5 DEF Reload, StatementFails
<1> QED
  BY <1>1, <1>2, <1>3, <1>4, <1>5 DEF Serve

\* An entry is written by the audit of the request it names.
LEMMA EntryStart ==
  ASSUME TypeInv, [Next]_vars
  PROVE  \/ audits' = audits
         \/ \E q \in Request :
              /\ Serve(q) /\ pc[q] = "audit"
              /\ audits' = audits \cup {AuditEntry(q)}
<1>1. CASE UNCHANGED vars \/ Terminating \/ Restart
  BY <1>1 DEF vars, Terminating, Restart
<1>2. ASSUME NEW q \in Request, Serve(q)
      PROVE  \/ audits' = audits
             \/ pc[q] = "audit" /\ audits' = audits \cup {AuditEntry(q)}
  BY <1>2 DEF Serve, ReceiveCreate, ReceiveUpdate, ReceiveTransition, ReceiveDelete,
              Receive, Load, Write, Refuse, Audit, AuditFails, Reload,
              StatementFails, WriteUnacknowledged
<1> QED
  BY <1>1, <1>2 DEF Next

\* An entry stays true of its request, which has nothing left to write.
LEMMA EntryKept ==
  ASSUME TypeInv, [Next]_vars, NEW q \in Request, pc[q] \in {"reload", "done"}
  PROVE  /\ input'[q] = input[q] /\ committed'[q] = committed[q]
         /\ pc'[q] \in {"reload", "done"}
<1>1. CASE Kept(q)
  BY <1>1 DEF Kept
<1>2. CASE Serve(q)
  BY <1>2, ServeLocal, AskedKept
<1>3. CASE Restart /\ pc'[q] = "done"
  BY <1>3 DEF Restart
<1> QED
  BY <1>1, <1>2, <1>3, StepOf

LEMMA EntryStep ==
  TypeInv /\ AnswerInv /\ EntryInv /\ AuditSound /\ [Next]_vars
    => (EntryInv /\ AuditSound)'
<1> SUFFICES ASSUME TypeInv, AnswerInv, EntryInv, AuditSound, [Next]_vars
             PROVE  (EntryInv /\ AuditSound)'
  OBVIOUS
<1> DEFINE True(a) == /\ pc'[a.by] \in {"reload", "done"}
                      /\ committed'[a.by]
                      /\ a.action = input'[a.by].op
                      /\ a.rec = input'[a.by].rec
                      /\ a.action = "transition" => a.after = input'[a.by].target
<1>1. ASSUME NEW a \in audits PROVE True(a)
  <2>1. a.by \in Request /\ pc[a.by] \in {"reload", "done"}
    BY DEF TypeInv, TypeOK, Audited, EntryInv
  <2> QED
    BY <2>1, EntryKept DEF AuditSound
<1>2. CASE audits' = audits
  BY <1>1, <1>2 DEF EntryInv, AuditSound
<1>3. ASSUME NEW q \in Request, Serve(q), pc[q] = "audit",
             audits' = audits \cup {AuditEntry(q)}
      PROVE  (EntryInv /\ AuditSound)'
  <2>1. \A a \in audits : a.by # q
    BY <1>3 DEF EntryInv
  <2>2. /\ committed[q] /\ input' = input /\ committed' = committed
        /\ pc'[q] \in {"reload", "done"}
    BY <1>3, AskedKept DEF AnswerInv
  <2>3. /\ AuditEntry(q).by = q
        /\ AuditEntry(q).action = input[q].op
        /\ AuditEntry(q).rec = input[q].rec
        /\ input[q].op = "transition" => AuditEntry(q).after = input[q].target
    BY DEF AuditEntry, StatusAfter
  <2>4. True(AuditEntry(q))
    BY <2>2, <2>3
  <2>5. \A a \in audits' : True(a)
    BY <1>1, <1>3, <2>4
  <2>6. \A a, b \in audits' : a.by = b.by => a = b
    BY <1>3, <2>1, <2>3 DEF AuditSound
  <2> QED
    BY <2>5, <2>6 DEF EntryInv, AuditSound
<1> QED
  BY <1>2, <1>3, EntryStart

\* Every audit entry is of a request that took effect, says what it asked for,
\* and is the only one of it: with any faults and any expected versions.
THEOREM AuditSoundInvariant == Spec => []AuditSound
<1>1. Init => EntryInv /\ AuditSound
  BY DEF Init, EntryInv, AuditSound
<1> QED
  BY <1>1, EntryStep, AnswerInvariant, PTL DEF Spec

-----------------------------------------------------------------------------
\* With clients that send versions they were answered, the conjunction of all
\* of this is inductive.
THEOREM InductiveInvariant ==
  ASSUME Lookahead = 0
  PROVE  Spec => []IInv
<1>1. Init => IInv
  <2>1. Init => WinnerInv /\ SnapshotInv /\ FreshnessInv /\ RecordedInv /\ AuditTruth /\ AnswerInv
              /\ EntryInv /\ AuditSound
    BY DEF Init, WinnerInv, SnapshotInv, FreshnessInv, RecordedInv, AuditTruth, AnswerInv,
           EntryInv, AuditSound
  <2> QED
    BY <2>1, TypeInit, VersionInit, ChainInit DEF IInv, TypeInv
<1>2. IInv /\ [Next]_vars => IInv'
  BY TypeStep, WinnerStep, VersionStep, ChainStep, SnapshotStep, FreshnessStep, RecordedStep,
     AuditTruthStep, AnswerStep, EntryStep DEF IInv, TypeInv
<1> QED
  BY <1>1, <1>2, PTL DEF Spec
=============================================================================
