--------------------------- MODULE ApprovalsProofs ---------------------------
(***************************************************************************)
(* Proofs about the two queues a person answers.  First the server's,      *)
(* Approvals, for any number of sessions, rows and failures; then the one  *)
(* a browser fills from its audits, AuditRun, for any site, edits and      *)
(* crawls: what it may hold, what may be answered in bulk, and what the    *)
(* audit behind it may call fixed or done.                                 *)
(***************************************************************************)
EXTENDS Approvals, AuditRun, TLAPS

(***************************************************************************)
(* The inductive invariant.  Bookkeeping relates the parts of one          *)
(* transaction; Exclusive says that outside the recorded overlaps a row is *)
(* in the hands of one transaction, which therefore finds it as it read    *)
(* it; Counted relates the replays to what is committed and what is open.  *)
(***************************************************************************)
Bookkeeping ==
  \A s \in Sessions, a \in ApprovalIds :
    /\ a \in tx[s].todo => ~Holds(s, a) /\ tx[s].phase \in {"decide", "bulk"}
    /\ a \in tx[s].read => ~Locked(s, a)
    /\ a \in tx[s].ran <=> tx[s].wrote[a] \in {"executed", "failed"}
    /\ tx[s].wrote[a] # "pending"
    /\ Holds(s, a) => row[a].status # "absent" /\ tx[s].phase # "idle"

Exclusive ==
  \A a \in ApprovalIds \ overlapped :
    /\ \A s, t \in Sessions : Holds(s, a) /\ Holds(t, a) => s = t
    /\ \A s \in Sessions : Holds(s, a) => row[a].status = "pending"

Counted ==
  \A a \in ApprovalIds :
    /\ row[a].status = "absent" \/ ~row[a].tool => replays[a] = 0
    /\ replays[a] = 0 => authority[a] = {}
    /\ \A s \in Sessions : a \in tx[s].ran /\ row[a].tool => replays[a] > 0
    /\ a \notin overlapped \cup lost =>
         /\ replays[a] <= 1
         /\ row[a].status \in {"rejected", "changes_requested", "expired"} => replays[a] = 0
         /\ row[a].status = "pending" /\ (\A s \in Sessions : a \notin tx[s].ran)
            => replays[a] = 0

\* A transaction of the sweep or of a bulk approval only holds rows it may act on.
Entitled ==
  \A s \in Sessions, a \in ApprovalIds : Holds(s, a) =>
    /\ tx[s].phase = "sweep" => row[a].autoAt # NoDelay /\ row[a].autoAt <= now
    /\ tx[s].phase = "bulk" /\ tx[s].decision = "approved"
       => row[a].risk \notin {"high", "critical"}
    /\ tx[s].wrote[a] \in Granted =>
         /\ tx[s].phase # "expire"
         /\ tx[s].phase = "bulk" => tx[s].decision = "approved"

IInv ==
  /\ TypeOK
  /\ Bookkeeping
  /\ Exclusive
  /\ Counted
  /\ Entitled
  /\ RecordedMeansReplayed
  /\ ReplayWasAuthorised

-----------------------------------------------------------------------------
\* A transaction at rest, and a row not yet there, are values of their types.
LEMMA IdleType == Idle \in Txs
  BY DEF Idle, Txs, Phases, Decisions, Statuses

\* The same of the row.
LEMMA NoRowType == NoRow \in Rows
  BY DEF NoRow, Rows, Statuses, Risks, Decisions

\* What a transaction writes first to a row is a decision or one of the sweep's.
LEMMA FirstWriteType ==
  ASSUME TypeOK, NEW s \in Sessions
  PROVE  FirstWrite(s) \in Decisions \cup {"auto_approved", "expired"}
  BY DEF TypeOK, FirstWrite, Txs, Decisions

\* Every variable keeps its type: rows hold the statuses of the Approval model,
\* transactions the columns they read and wrote.
THEOREM TypeCorrect == Spec => []TypeOK
<1>1. Init => TypeOK
  BY IdleType, NoRowType DEF Init, TypeOK, Phases
<1>2. TypeOK /\ [Next]_vars => TypeOK'
  <2> SUFFICES ASSUME TypeOK, [Next]_vars PROVE TypeOK'
    OBVIOUS
  <2> USE ConstantsAssumption DEF TypeOK
  <2>1. CASE Tick
    BY <2>1 DEF Tick
  <2>2. ASSUME NEW a \in ApprovalIds, NEW k \in Kinds, Create(a, k) PROVE TypeOK'
    <3>1. k \in [risk : Risks, delay : Nat \cup {NoDelay}, tool : BOOLEAN]
      OBVIOUS
    <3>2. [status |-> "pending", executed |-> FALSE, risk |-> k.risk, tool |-> k.tool,
           autoAt |-> IF k.delay = NoDelay THEN NoDelay ELSE now + k.delay,
           expiresAt |-> now + Expiry] \in Rows
      BY <3>1 DEF Rows, Statuses
    <3> QED
      BY <2>2, <3>2 DEF Create
  <2>3. ASSUME NEW s \in Sessions, NEW A \in SUBSET ApprovalIds, NEW d \in Decisions,
               BeginBulk(s, A, d)
        PROVE TypeOK'
    BY <2>3, IdleType DEF BeginBulk, Txs, Phases
  <2>4. ASSUME NEW s \in Sessions, NEW a \in ApprovalIds, NEW d \in Decisions,
               BeginDecide(s, a, d)
        PROVE TypeOK'
    <3>1. [Idle EXCEPT !.phase = "decide", !.decision = d, !.todo = {a}] \in Txs
      BY IdleType DEF Txs, Phases
    <3> QED
      BY <2>4, <3>1 DEF BeginDecide
  <2>5. ASSUME NEW s \in Sessions, BeginSweep(s) PROVE TypeOK'
    <3>1. PICK A \in SUBSET ApprovalIds :
            /\ tx' = [tx EXCEPT ![s] = [Idle EXCEPT !.phase = "sweep", !.read = A]]
            /\ overlapped' = overlapped \cup Contended(s, A)
      BY <2>5 DEF BeginSweep
    <3>2. [Idle EXCEPT !.phase = "sweep", !.read = A] \in Txs
      BY IdleType DEF Txs, Phases
    <3> QED
      BY <2>5, <3>1, <3>2 DEF BeginSweep, Contended
  <2>6. ASSUME NEW s \in Sessions, SelectExpired(s) PROVE TypeOK'
    <3>1. PICK A \in SUBSET ApprovalIds :
            /\ tx' = [tx EXCEPT ![s].phase = "expire", ![s].read = A]
            /\ overlapped' = overlapped \cup Contended(s, A)
      BY <2>6 DEF SelectExpired
    <3>2. tx[s] \in Txs /\ "expire" \in Phases
      BY DEF Phases
    <3>3. [tx[s] EXCEPT !.phase = "expire", !.read = A] \in Txs
      BY <3>2 DEF Txs
    <3> QED
      BY <2>6, <3>1, <3>3 DEF SelectExpired, Contended
  <2>7. ASSUME NEW s \in Sessions, NEW a \in ApprovalIds, LookUp(s, a) PROVE TypeOK'
    <3>1. PICK A \in SUBSET ApprovalIds :
            /\ tx' = [tx EXCEPT ![s].todo = @ \ {a}, ![s].read = A]
            /\ overlapped' = overlapped \cup Contended(s, A)
      BY <2>7 DEF LookUp
    <3>2. [tx[s] EXCEPT !.todo = @ \ {a}, !.read = A] \in Txs
      BY DEF Txs
    <3> QED
      BY <2>7, <3>1, <3>2 DEF LookUp, Contended
  <2>8. ASSUME NEW s \in Sessions, NEW a \in ApprovalIds, QueueForLock(s, a) PROVE TypeOK'
    <3>1. [tx[s] EXCEPT !.waits = {a}] \in Txs
      BY DEF Txs
    <3> QED
      BY <2>8, <3>1 DEF QueueForLock
  <2>9. ASSUME NEW s \in Sessions, NEW a \in ApprovalIds, Flush(s, a) PROVE TypeOK'
    <3>1. FirstWrite(s) \in Statuses
      BY FirstWriteType DEF Statuses
    <3>2. [tx[s] EXCEPT !.read = @ \ {a}, !.waits = {}, !.wrote[a] = FirstWrite(s)] \in Txs
      BY <3>1 DEF Txs
    <3> QED
      BY <2>9, <3>2 DEF Flush
  <2>10. ASSUME NEW s \in Sessions, NEW a \in ApprovalIds, NEW ok \in BOOLEAN,
                Execute(s, a, ok)
         PROVE TypeOK'
    <3> DEFINE status == IF ok THEN "executed" ELSE "failed"
    <3>1. [tx[s] EXCEPT !.wrote[a] = status, !.ran = @ \cup {a}] \in Txs
      BY DEF Txs, Statuses
    <3>2. tx[s].phase \in Phases
      BY DEF Txs
    <3> QED
      BY <2>10, <3>1, <3>2 DEF Execute
  <2>11. ASSUME NEW s \in Sessions, Commit(s) PROVE TypeOK'
    <3>1. ASSUME NEW a \in ApprovalIds PROVE row'[a] \in Rows
      <4> DEFINE done == row[a].executed \/ ExecutedAt(s, a)
      <4>1. done \in BOOLEAN
        OBVIOUS
      <4>2. tx[s].wrote[a] \in Statuses
        BY DEF Txs
      <4> HIDE DEF done
      <4>3. [row[a] EXCEPT !.status = tx[s].wrote[a], !.executed = done] \in Rows
        BY <4>1, <4>2 DEF Rows
      <4> QED
        BY <2>11, <4>3 DEF Commit, done
    <3>2. row' \in [ApprovalIds -> Rows]
      BY <2>11, <3>1 DEF Commit
    <3> QED
      BY <2>11, <3>2, IdleType DEF Commit
  <2>12. ASSUME NEW s \in Sessions, Rollback(s), aborts' \in Nat PROVE TypeOK'
    BY <2>12, IdleType DEF Rollback, Txs
  <2>13. ASSUME NEW s \in Sessions, Abort(s) PROVE TypeOK'
    BY <2>12, <2>13 DEF Abort
  <2>14. ASSUME NEW s \in Sessions, DeadlockAbort(s) PROVE TypeOK'
    BY <2>12, <2>14 DEF DeadlockAbort
  <2>15. CASE UNCHANGED vars
    BY <2>15 DEF vars
  <2> HIDE DEF TypeOK
  <2> QED
    BY ONLY ConstantsAssumption, [Next]_vars, <2>1, <2>2, <2>3, <2>4, <2>5, <2>6, <2>7, <2>8,
       <2>9, <2>10, <2>11, <2>13, <2>14, <2>15 DEF Next, Api
<1> QED
  BY <1>1, <1>2, PTL DEF Spec

-----------------------------------------------------------------------------
\* What the invariant says of one transaction s that a step leaves with no row in hand.
LEMMA IdleHoldsNothing ==
  ASSUME NEW a \in ApprovalIds
  PROVE  /\ Idle.todo = {} /\ Idle.read = {} /\ Idle.waits = {} /\ Idle.ran = {}
         /\ Idle.wrote[a] = "absent" /\ Idle.phase = "idle"
  BY DEF Idle

\* The initial states satisfy the invariant.
LEMMA InitIInv == Init => IInv
<1> SUFFICES ASSUME Init PROVE IInv
  OBVIOUS
<1>1. TypeOK
  BY IdleType, NoRowType DEF Init, TypeOK, Phases
<1>2. \A s \in Sessions : tx[s] = Idle
  BY DEF Init
<1>3. \A a \in ApprovalIds :
        /\ row[a].status = "absent" /\ ~row[a].executed
        /\ replays[a] = 0 /\ authority[a] = {}
  BY DEF Init, NoRow
<1> QED
  BY <1>1, <1>2, <1>3, IdleHoldsNothing
  DEF IInv, Bookkeeping, Exclusive, Counted, Entitled, RecordedMeansReplayed,
      ReplayWasAuthorised, Holds, Locked, Granted

\* The clock moves on: what had matured stays matured.
LEMMA TickIInv ==
  ASSUME IInv, TypeOK', Tick
  PROVE  IInv'
<1>1. \A n \in Nat \cup {NoDelay} : n # NoDelay /\ n <= now => n <= now'
  BY ConstantsAssumption DEF Tick, IInv, TypeOK
<1>2. \A a \in ApprovalIds : row[a].autoAt \in Nat \cup {NoDelay}
  BY DEF IInv, TypeOK, Rows
<1> QED
  BY <1>1, <1>2
  DEF Tick, IInv, Bookkeeping, Exclusive, Counted, Entitled, RecordedMeansReplayed,
      ReplayWasAuthorised, Holds, Locked

\* A new row is in nobody's hands.
LEMMA CreateIInv ==
  ASSUME IInv, TypeOK', NEW a \in ApprovalIds, NEW k \in Kinds, Create(a, k)
  PROVE  IInv'
<1>1. \A b \in ApprovalIds : b # a => row'[b] = row[b]
  BY DEF Create, IInv, TypeOK
<1>2. row'[a].status = "pending" /\ ~row'[a].executed
  BY DEF Create, IInv, TypeOK
<1>3. \A s \in Sessions : ~Holds(s, a) /\ a \notin tx[s].ran
  BY DEF Create, IInv, Bookkeeping, Holds, Locked
<1>4. replays[a] = 0
  BY DEF Create, IInv, Counted
<1>5. authority[a] = {}
  BY <1>4 DEF IInv, Counted
<1> QED
  BY <1>1, <1>2, <1>3, <1>4, <1>5
  DEF Create, IInv, Bookkeeping, Exclusive, Counted, Entitled, RecordedMeansReplayed,
      ReplayWasAuthorised, Holds, Locked

\* A request opens: s holds nothing before and nothing after.
LEMMA BeginIInv ==
  ASSUME IInv, TypeOK', NEW s \in Sessions, NEW A \in SUBSET ApprovalIds,
         NEW d \in Decisions, NEW p \in {"decide", "bulk"},
         tx[s].phase = "idle",
         tx' = [tx EXCEPT ![s] = [Idle EXCEPT !.phase = p, !.decision = d, !.todo = A]],
         UNCHANGED <<now, row, aborts, replays, authority, overlapped, lost>>
  PROVE  IInv'
<1>1. \A t \in Sessions : t # s => tx'[t] = tx[t]
  BY DEF IInv, TypeOK
<1>2. /\ tx'[s].read = {} /\ tx'[s].ran = {}
      /\ \A a \in ApprovalIds : tx'[s].wrote[a] = "absent"
  BY IdleType DEF IInv, TypeOK, Idle
<1>3. \A a \in ApprovalIds : ~Holds(s, a) /\ a \notin tx[s].ran
  BY DEF IInv, Bookkeeping, Holds, Locked
<1> QED
  BY <1>1, <1>2, <1>3
  DEF IInv, Bookkeeping, Exclusive, Counted, Entitled, RecordedMeansReplayed,
      ReplayWasAuthorised, Holds, Locked, Granted

\* A SELECT gives s the rows A, all of them pending and none already its own.
LEMMA ReadIInv ==
  ASSUME IInv, TypeOK', NEW s \in Sessions, NEW A \in SUBSET ApprovalIds,
         \A a \in A : row[a].status = "pending" /\ ~Locked(s, a) /\ a \notin tx'[s].todo,
         \A a \in ApprovalIds : ~Locked(s, a) => a \notin tx[s].ran,
         tx[s].read = {}, tx'[s].read = A, tx'[s].wrote = tx[s].wrote,
         tx'[s].ran = tx[s].ran, tx'[s].todo \subseteq tx[s].todo,
         tx'[s].phase # "idle",
         \A a \in tx'[s].todo : tx'[s].phase \in {"decide", "bulk"},
         \A t \in Sessions : t # s => tx'[t] = tx[t],
         \A a \in ApprovalIds : tx[s].wrote[a] \notin Granted,
         overlapped' = overlapped \cup Contended(s, A),
         UNCHANGED <<now, row, aborts, replays, authority, lost>>,
         Entitled'
  PROVE  IInv'
<1>1. Bookkeeping'
  BY DEF IInv, Bookkeeping, Holds, Locked
<1>2. Exclusive'
  BY DEF IInv, Exclusive, Contended, Holds, Locked
<1>3. Counted'
  BY DEF IInv, Counted, Holds, Locked
<1> QED
  BY <1>1, <1>2, <1>3 DEF IInv, RecordedMeansReplayed, ReplayWasAuthorised

\* What a request found pending it has read, and nothing else.
LEMMA LookUpIInv ==
  ASSUME IInv, TypeOK', NEW s \in Sessions, NEW a \in ApprovalIds, LookUp(s, a)
  PROVE  IInv'
<1> DEFINE A == IF Decidable(a) /\ ~SkippedInBulk(s, a) THEN {a} ELSE {}
<1>1. /\ tx' = [tx EXCEPT ![s].todo = @ \ {a}, ![s].read = A]
      /\ overlapped' = overlapped \cup Contended(s, A)
  BY DEF LookUp
<1>2. /\ tx'[s].read = A /\ tx'[s].wrote = tx[s].wrote /\ tx'[s].ran = tx[s].ran
      /\ tx'[s].todo = tx[s].todo \ {a} /\ tx'[s].phase = tx[s].phase
      /\ tx'[s].decision = tx[s].decision
      /\ \A t \in Sessions : t # s => tx'[t] = tx[t]
  BY <1>1 DEF IInv, TypeOK, Txs
<1>3. \A b \in A : row[b].status = "pending" /\ ~Locked(s, b) /\ b \notin tx'[s].todo
  BY <1>2 DEF LookUp, Decidable, IInv, Bookkeeping, Holds
<1>4. \A b \in ApprovalIds : tx[s].wrote[b] \notin Granted
  BY DEF LookUp, Unexecuted
<1>5. \A b \in ApprovalIds : ~Locked(s, b) => b \notin tx[s].ran
  BY DEF IInv, Bookkeeping, Locked
<1>6. Entitled'
  <2>1. tx[s].phase \in {"decide", "bulk"} /\ UNCHANGED <<now, row>>
    BY DEF LookUp
  <2>2. \A b \in A : tx[s].phase = "bulk" /\ tx[s].decision = "approved"
                    => row[b].risk \notin {"high", "critical"}
    BY DEF SkippedInBulk
  <2> HIDE DEF A
  <2> QED
    BY <1>2, <1>4, <2>1, <2>2 DEF IInv, Entitled, Holds, Locked, Granted
<1>7. A \subseteq ApprovalIds
  OBVIOUS
<1>8. /\ tx[s].read = {} /\ tx[s].phase # "idle"
      /\ UNCHANGED <<now, row, aborts, replays, authority, lost>>
  BY DEF LookUp
<1>9. /\ tx'[s].todo \subseteq tx[s].todo /\ tx'[s].phase # "idle"
      /\ \A b \in tx'[s].todo : tx'[s].phase \in {"decide", "bulk"}
  BY <1>2, <1>8 DEF LookUp
<1> HIDE DEF A
<1> QED
  BY <1>1, <1>2, <1>3, <1>4, <1>5, <1>6, <1>7, <1>8, <1>9, ReadIInv

\* The sweep reads rows whose deadline has passed.
LEMMA BeginSweepIInv ==
  ASSUME IInv, TypeOK', NEW s \in Sessions, BeginSweep(s)
  PROVE  IInv'
<1>1. PICK A \in SUBSET ApprovalIds :
        /\ \A a \in A : Due(a)
        /\ tx' = [tx EXCEPT ![s] = [Idle EXCEPT !.phase = "sweep", !.read = A]]
        /\ overlapped' = overlapped \cup Contended(s, A)
  BY DEF BeginSweep
<1>2. /\ tx'[s].read = A /\ tx'[s].wrote = Idle.wrote /\ tx'[s].ran = {}
      /\ tx'[s].todo = {} /\ tx'[s].phase = "sweep"
      /\ \A t \in Sessions : t # s => tx'[t] = tx[t]
  BY <1>1, IdleType DEF IInv, TypeOK, Idle
<1>3. \A a \in ApprovalIds : ~Holds(s, a) /\ a \notin tx[s].ran
  BY DEF BeginSweep, IInv, Bookkeeping, Holds, Locked
<1>4. tx[s].wrote = Idle.wrote /\ tx[s].ran = {} /\ tx[s].read = {}
  <2>1. /\ tx[s].wrote \in [ApprovalIds -> Statuses]
        /\ tx[s].ran \subseteq ApprovalIds /\ tx[s].read \subseteq ApprovalIds
    BY DEF IInv, TypeOK, Txs
  <2>2. \A a \in ApprovalIds : tx[s].wrote[a] = "absent" /\ a \notin tx[s].read
    BY <1>3 DEF Holds, Locked
  <2> QED
    BY <1>3, <2>1, <2>2 DEF Idle
<1>5. UNCHANGED <<now, row, aborts, replays, authority, lost>>
  BY DEF BeginSweep
<1>6. \A a \in ApprovalIds : Idle.wrote[a] = "absent"
  BY DEF Idle
<1>7. Entitled'
  BY <1>1, <1>2, <1>5, <1>6 DEF IInv, Entitled, Holds, Locked, Due, Granted
<1>8. \A a \in A : row[a].status = "pending" /\ ~Locked(s, a) /\ a \notin tx'[s].todo
  BY <1>1, <1>2, <1>3 DEF Due, Holds
<1>9. \A a \in ApprovalIds : tx[s].wrote[a] \notin Granted /\ a \notin tx[s].ran
  BY <1>4, <1>6 DEF Granted
<1>10. tx'[s].todo \subseteq tx[s].todo
  BY <1>2
<1> QED
  BY <1>1, <1>2, <1>4, <1>5, <1>7, <1>8, <1>9, <1>10, ReadIInv

\* The expiry of the same pass reads rows that are still pending.
LEMMA SelectExpiredIInv ==
  ASSUME IInv, TypeOK', NEW s \in Sessions, SelectExpired(s)
  PROVE  IInv'
<1>1. PICK A \in SUBSET ApprovalIds :
        /\ \A a \in A : Stale(s, a)
        /\ tx' = [tx EXCEPT ![s].phase = "expire", ![s].read = A]
        /\ overlapped' = overlapped \cup Contended(s, A)
  BY DEF SelectExpired
<1>2. /\ tx'[s].read = A /\ tx'[s].wrote = tx[s].wrote /\ tx'[s].ran = tx[s].ran
      /\ tx'[s].todo = tx[s].todo /\ tx'[s].phase = "expire"
      /\ \A t \in Sessions : t # s => tx'[t] = tx[t]
  BY <1>1 DEF IInv, TypeOK, Txs
<1>3. \A a \in ApprovalIds : tx[s].wrote[a] \notin Granted
  BY DEF SelectExpired, Unexecuted
<1>4. /\ tx[s].read = {} /\ tx[s].phase = "sweep"
      /\ UNCHANGED <<now, row, aborts, replays, authority, lost>>
  BY DEF SelectExpired
<1>5. tx[s].todo = {}
  <2>1. tx[s].todo \subseteq ApprovalIds
    BY DEF IInv, TypeOK, Txs
  <2> QED
    BY <1>4, <2>1 DEF IInv, Bookkeeping
<1>6. \A a \in ApprovalIds : ~Locked(s, a) => a \notin tx[s].ran
  BY DEF IInv, Bookkeeping, Locked
<1>7. \A a \in A : row[a].status = "pending" /\ ~Locked(s, a) /\ a \notin tx'[s].todo
  BY <1>1, <1>2, <1>5 DEF Stale
<1>8. Entitled'
  BY <1>2, <1>3, <1>4 DEF IInv, Entitled, Holds, Locked, Granted
<1>9. tx'[s].todo \subseteq tx[s].todo /\ tx'[s].phase # "idle"
  BY <1>2
<1> QED
  BY <1>1, <1>2, <1>3, <1>4, <1>5, <1>6, <1>7, <1>8, <1>9, ReadIInv

\* Waiting for a lock changes nothing but who waits.
LEMMA QueueForLockIInv ==
  ASSUME IInv, TypeOK', NEW s \in Sessions, NEW a \in ApprovalIds, QueueForLock(s, a)
  PROVE  IInv'
<1>1. \A t \in Sessions :
        /\ tx'[t].read = tx[t].read /\ tx'[t].wrote = tx[t].wrote
        /\ tx'[t].ran = tx[t].ran /\ tx'[t].todo = tx[t].todo
        /\ tx'[t].phase = tx[t].phase /\ tx'[t].decision = tx[t].decision
  BY DEF QueueForLock, IInv, TypeOK, Txs
<1> QED
  BY <1>1
  DEF QueueForLock, IInv, Bookkeeping, Exclusive, Counted, Entitled, RecordedMeansReplayed,
      ReplayWasAuthorised, Holds, Locked

\* The UPDATE puts the row in the hands of the one that had read it.
LEMMA FlushIInv ==
  ASSUME IInv, TypeOK', NEW s \in Sessions, NEW a \in ApprovalIds, Flush(s, a)
  PROVE  IInv'
<1> DEFINE w == FirstWrite(s)
<1>1. /\ tx'[s].read = tx[s].read \ {a} /\ tx'[s].ran = tx[s].ran
      /\ tx'[s].todo = tx[s].todo /\ tx'[s].phase = tx[s].phase
      /\ tx'[s].decision = tx[s].decision
      /\ tx'[s].wrote[a] = w
      /\ \A b \in ApprovalIds : b # a => tx'[s].wrote[b] = tx[s].wrote[b]
      /\ \A t \in Sessions : t # s => tx'[t] = tx[t]
  BY DEF Flush, IInv, TypeOK, Txs
<1>2. /\ a \in tx[s].read
      /\ UNCHANGED <<now, row, aborts, replays, authority, overlapped, lost>>
  BY DEF Flush
<1>3. w \in Decisions \cup {"auto_approved", "expired"}
  BY FirstWriteType DEF IInv
<1>4. w \notin {"absent", "pending", "executed", "failed"}
  BY <1>3 DEF Decisions
<1>5. w \in Granted => /\ tx[s].phase # "expire"
                       /\ tx[s].phase = "bulk" => tx[s].decision = "approved"
  BY DEF FirstWrite, Granted, IInv, TypeOK, Txs, Decisions
<1> HIDE DEF w
<1>6. \A t \in Sessions, b \in ApprovalIds : Holds(t, b)' <=> Holds(t, b)
  BY <1>1, <1>2, <1>4 DEF IInv, Bookkeeping, Holds, Locked
<1>7. Bookkeeping'
  BY <1>1, <1>2, <1>4, <1>6 DEF IInv, Bookkeeping, Holds, Locked
<1>8. Exclusive'
  BY <1>2, <1>6 DEF IInv, Exclusive
<1>9. \A t \in Sessions : tx'[t].ran = tx[t].ran
  BY <1>1
<1>10. Counted'
  BY <1>2, <1>9 DEF IInv, Counted
<1>11. Entitled'
  BY <1>1, <1>2, <1>5, <1>6 DEF IInv, Entitled
<1> QED
  BY <1>2, <1>7, <1>8, <1>10, <1>11 DEF IInv, RecordedMeansReplayed, ReplayWasAuthorised

\* A replay is of a row the transaction holds.
LEMMA ExecuteIInv ==
  ASSUME IInv, TypeOK', NEW s \in Sessions, NEW a \in ApprovalIds, NEW ok \in BOOLEAN,
         Execute(s, a, ok)
  PROVE  IInv'
<1>1. /\ tx'[s].read = tx[s].read /\ tx'[s].ran = tx[s].ran \cup {a}
      /\ tx'[s].todo = tx[s].todo /\ tx'[s].phase = tx[s].phase
      /\ tx'[s].decision = tx[s].decision
      /\ tx'[s].wrote[a] \in {"executed", "failed"}
      /\ \A b \in ApprovalIds : b # a => tx'[s].wrote[b] = tx[s].wrote[b]
      /\ \A t \in Sessions : t # s => tx'[t] = tx[t]
  BY DEF Execute, IInv, TypeOK, Txs
<1>2. tx[s].wrote[a] \in Granted /\ UNCHANGED <<now, row, aborts, overlapped, lost>>
  BY DEF Execute, Unexecuted
<1>3. Holds(s, a) /\ a \notin tx[s].ran
  BY <1>2 DEF IInv, Bookkeeping, Holds, Locked, Granted
<1>4. \A t \in Sessions, b \in ApprovalIds : Holds(t, b)' <=> Holds(t, b)
  BY <1>1, <1>2 DEF Holds, Locked, Granted
<1>5. Bookkeeping'
  BY <1>1, <1>2, <1>4 DEF IInv, Bookkeeping, Locked, Granted
<1>6. Exclusive'
  BY <1>2, <1>4 DEF IInv, Exclusive
<1>7. Entitled'
  BY <1>1, <1>2, <1>4 DEF IInv, Entitled, Granted
<1>8. \A b \in ApprovalIds : /\ b # a \/ ~row[a].tool => replays'[b] = replays[b]
                             /\ b # a \/ ~row[a].tool => authority'[b] = authority[b]
  BY DEF Execute, IInv, TypeOK
<1>9. row[a].tool => /\ replays'[a] = IF replays[a] < 2 THEN replays[a] + 1 ELSE 2
                     /\ authority'[a] = authority[a] \cup {tx[s].phase}
  BY DEF Execute, IInv, TypeOK
<1>10. replays[a] \in 0..2
  BY DEF IInv, TypeOK
<1>11. a \notin overlapped \cup lost => replays[a] = 0
  <2>1. SUFFICES ASSUME a \notin overlapped \cup lost PROVE replays[a] = 0
    OBVIOUS
  <2>2. row[a].status = "pending" /\ \A t \in Sessions : Holds(t, a) => t = s
    BY <1>3, <2>1 DEF IInv, Exclusive
  <2>3. \A t \in Sessions : a \in tx[t].ran => Holds(t, a)
    BY DEF IInv, Bookkeeping, Holds, Locked
  <2> QED
    BY <1>3, <2>1, <2>2, <2>3 DEF IInv, Counted
<1>12. row[a].status # "absent" /\ (a \notin overlapped => row[a].status = "pending")
  BY <1>3 DEF IInv, Bookkeeping, Exclusive
<1>13. Counted'
  <2> SUFFICES ASSUME NEW b \in ApprovalIds PROVE
        /\ row[b].status = "absent" \/ ~row[b].tool => replays'[b] = 0
        /\ replays'[b] = 0 => authority'[b] = {}
        /\ \A t \in Sessions : b \in tx'[t].ran /\ row[b].tool => replays'[b] > 0
        /\ b \notin overlapped \cup lost =>
             /\ replays'[b] <= 1
             /\ row[b].status \in {"rejected", "changes_requested", "expired"}
                => replays'[b] = 0
             /\ row[b].status = "pending" /\ (\A t \in Sessions : b \notin tx'[t].ran)
                => replays'[b] = 0
    BY <1>2 DEF Counted
  <2>1. CASE b # a
    BY <1>1, <1>8, <2>1 DEF IInv, Counted
  <2>2. CASE b = a /\ row[a].tool
    BY <1>1, <1>9, <1>10, <1>11, <1>12, <2>2
  <2>3. CASE b = a /\ ~row[a].tool
    <3>1. replays'[a] = 0 /\ authority'[a] = {}
      BY <1>8, <2>3 DEF IInv, Counted
    <3> QED
      BY <2>3, <3>1
  <2> QED
    BY <2>1, <2>2, <2>3
<1>14. RecordedMeansReplayed'
  BY <1>2, <1>8, <1>9, <1>10 DEF IInv, RecordedMeansReplayed
<1>15. ReplayWasAuthorised'
  BY <1>2, <1>3, <1>8, <1>9 DEF IInv, ReplayWasAuthorised, Entitled
<1> QED
  BY <1>5, <1>6, <1>7, <1>13, <1>14, <1>15 DEF IInv

\* A commit makes of the table what the transaction had in hand.
LEMMA CommitIInv ==
  ASSUME IInv, TypeOK', NEW s \in Sessions, Commit(s)
  PROVE  IInv'
<1>1. /\ tx'[s] = Idle
      /\ \A t \in Sessions : t # s => tx'[t] = tx[t]
      /\ UNCHANGED <<now, aborts, replays, authority, overlapped, lost>>
  BY DEF Commit, IInv, TypeOK
<1>2. \A a \in ApprovalIds :
        /\ ~Locked(s, a) => row'[a] = row[a]
        /\ Locked(s, a) => /\ row'[a].status = tx[s].wrote[a]
                           /\ row'[a].executed <=> row[a].executed \/ a \in tx[s].ran
        /\ row'[a].tool = row[a].tool /\ row'[a].risk = row[a].risk
        /\ row'[a].autoAt = row[a].autoAt
  BY DEF Commit, ExecutedAt, IInv, TypeOK, Rows
<1>3. \A a \in ApprovalIds : ~Holds(s, a)' /\ a \notin tx'[s].ran /\ a \notin tx'[s].todo
  BY <1>1, IdleHoldsNothing DEF Holds, Locked
<1>4. \A t \in Sessions, a \in ApprovalIds : t # s => (Holds(t, a)' <=> Holds(t, a))
  BY <1>1 DEF Holds, Locked
<1>5. \A a \in ApprovalIds : Locked(s, a) =>
        /\ tx[s].wrote[a] \notin {"absent", "pending"} \cup Granted
        /\ Holds(s, a) /\ row[a].status # "absent"
  BY DEF Commit, Unexecuted, IInv, Bookkeeping, Holds, Locked
<1>6. Bookkeeping'
  BY <1>1, <1>2, <1>3, <1>4, <1>5, IdleHoldsNothing DEF IInv, Bookkeeping, Holds, Locked
<1>7. Exclusive'
  <2> SUFFICES ASSUME NEW a \in ApprovalIds \ overlapped
               PROVE  /\ \A t, u \in Sessions : Holds(t, a)' /\ Holds(u, a)' => t = u
                      /\ \A t \in Sessions : Holds(t, a)' => row'[a].status = "pending"
    BY <1>1 DEF Exclusive
  <2> QED
    BY <1>2, <1>3, <1>4, <1>5 DEF IInv, Exclusive
<1>8. Counted'
  <2> SUFFICES ASSUME NEW a \in ApprovalIds PROVE
        /\ row'[a].status = "absent" \/ ~row'[a].tool => replays[a] = 0
        /\ replays[a] = 0 => authority[a] = {}
        /\ \A t \in Sessions : a \in tx'[t].ran /\ row'[a].tool => replays[a] > 0
        /\ a \notin overlapped \cup lost =>
             /\ replays[a] <= 1
             /\ row'[a].status \in {"rejected", "changes_requested", "expired"}
                => replays[a] = 0
             /\ row'[a].status = "pending" /\ (\A t \in Sessions : a \notin tx'[t].ran)
                => replays[a] = 0
    BY <1>1 DEF Counted
  <2>1. CASE ~Locked(s, a)
    <3>1. a \notin tx[s].ran
      BY <2>1 DEF IInv, Bookkeeping, Locked
    <3> QED
      BY <1>1, <1>2, <1>3, <2>1, <3>1 DEF IInv, Counted
  <2>2. CASE Locked(s, a)
    <3>1. ASSUME a \notin overlapped \cup lost,
                 tx[s].wrote[a] \in {"rejected", "changes_requested", "expired"}
          PROVE  replays[a] = 0
      <4>1. row[a].status = "pending" /\ \A t \in Sessions : Holds(t, a) => t = s
        BY <1>5, <2>2, <3>1 DEF IInv, Exclusive
      <4>2. \A t \in Sessions : a \in tx[t].ran => Holds(t, a)
        BY DEF IInv, Bookkeeping, Holds, Locked
      <4>3. a \notin tx[s].ran
        BY <3>1 DEF IInv, Bookkeeping
      <4> QED
        BY <3>1, <4>1, <4>2, <4>3 DEF IInv, Counted
    <3> QED
      BY <1>1, <1>2, <1>3, <1>5, <2>2, <3>1 DEF IInv, Counted
  <2> QED
    BY <2>1, <2>2
<1>9. Entitled'
  BY <1>1, <1>2, <1>3, <1>4 DEF IInv, Entitled
<1>10. RecordedMeansReplayed'
  BY <1>1, <1>2 DEF IInv, RecordedMeansReplayed, Counted
<1>11. ReplayWasAuthorised'
  BY <1>1, <1>2 DEF IInv, ReplayWasAuthorised
<1> QED
  BY <1>6, <1>7, <1>8, <1>9, <1>10, <1>11 DEF IInv

\* A rollback keeps the table; the replays it forgets are among the lost.
LEMMA RollbackIInv ==
  ASSUME IInv, TypeOK', NEW s \in Sessions, Rollback(s)
  PROVE  IInv'
<1>1. /\ tx'[s] = Idle
      /\ \A t \in Sessions : t # s => tx'[t] = tx[t]
      /\ UNCHANGED <<now, row, replays, authority, overlapped>>
      /\ lost' = lost \cup {a \in tx[s].ran : row[a].tool}
  BY DEF Rollback, IInv, TypeOK
<1>2. \A a \in ApprovalIds : ~Holds(s, a)' /\ a \notin tx'[s].ran /\ a \notin tx'[s].todo
  BY <1>1, IdleHoldsNothing DEF Holds, Locked
<1>3. \A t \in Sessions, a \in ApprovalIds : t # s => (Holds(t, a)' <=> Holds(t, a))
  BY <1>1 DEF Holds, Locked
<1>4. Bookkeeping'
  BY <1>1, <1>2, <1>3, IdleHoldsNothing DEF IInv, Bookkeeping, Holds, Locked
<1>5. Exclusive'
  BY <1>1, <1>2, <1>3 DEF IInv, Exclusive
<1>6. Counted'
  BY <1>1, <1>2 DEF IInv, Counted
<1>7. Entitled'
  BY <1>1, <1>2, <1>3 DEF IInv, Entitled
<1> QED
  BY <1>1, <1>4, <1>5, <1>6, <1>7 DEF IInv, RecordedMeansReplayed, ReplayWasAuthorised

-----------------------------------------------------------------------------
\* The invariant is inductive.
THEOREM Invariant == Spec => []IInv
<1>1. TypeOK /\ TypeOK' /\ IInv /\ [Next]_vars => IInv'
  <2> SUFFICES ASSUME TypeOK', IInv, [Next]_vars PROVE IInv'
    OBVIOUS
  <2>1. ASSUME NEW s \in Sessions, NEW a \in ApprovalIds, NEW d \in Decisions,
               BeginDecide(s, a, d)
        PROVE  IInv'
    BY <2>1, BeginIInv DEF BeginDecide
  <2>2. ASSUME NEW s \in Sessions, NEW A \in SUBSET ApprovalIds, NEW d \in Decisions,
               BeginBulk(s, A, d)
        PROVE  IInv'
    BY <2>2, BeginIInv DEF BeginBulk
  <2>3. ASSUME NEW s \in Sessions, Abort(s) \/ DeadlockAbort(s) PROVE IInv'
    BY <2>3, RollbackIInv DEF Abort, DeadlockAbort
  <2>4. CASE UNCHANGED vars
    BY <2>4
    DEF vars, IInv, TypeOK, Bookkeeping, Exclusive, Counted, Entitled,
        RecordedMeansReplayed, ReplayWasAuthorised, Holds, Locked
  <2> QED
    BY ONLY ConstantsAssumption, TypeOK', IInv, [Next]_vars, TickIInv, CreateIInv, <2>1, <2>2,
       <2>3, <2>4, LookUpIInv, BeginSweepIInv, SelectExpiredIInv, QueueForLockIInv, FlushIInv,
       ExecuteIInv, CommitIInv
    DEF Next, Api
<1> QED
  BY <1>1, InitIInv, TypeCorrect, PTL DEF Spec

\* A stored action is replayed twice only after two transactions had the row in
\* hand together or one that had replayed it rolled back (execute, decide and
\* sweep_auto_approvals of services/approvals.py).
THEOREM AtMostOnceUnlessRaced == Spec => []ReplayedOnceUnlessRaced
<1>1. IInv => ReplayedOnceUnlessRaced
  BY DEF IInv, TypeOK, Counted, ReplayedOnceUnlessRaced
<1> QED
  BY <1>1, Invariant, PTL

\* Outside those cases an approval that was rejected, sent back or expired was
\* never acted on.
THEOREM RefusalsHold == Spec => []RefusedMeansUntouched
<1>1. IInv => RefusedMeansUntouched
  BY DEF IInv, Counted, RefusedMeansUntouched
<1> QED
  BY <1>1, Invariant, PTL

\* In every case, races and rollbacks included, a committed executed_at stands
\* for a replay, the sweep acted only on matured standing instructions, and the
\* bulk endpoint shipped nothing of high or critical risk.
THEOREM RecordsAndAuthority == Spec => [](RecordedMeansReplayed /\ ReplayWasAuthorised)
<1>1. IInv => RecordedMeansReplayed /\ ReplayWasAuthorised
  BY DEF IInv
<1> QED
  BY <1>1, Invariant, PTL

\* Commits only move an approval forward: never back into the queue, never
\* forgetting that its action ran, never changing what policy decided about it.
THEOREM DecisionsAreFinal == Spec => DecisionsStick
<1> DEFINE A == \A a \in ApprovalIds : row[a].status # "absent" =>
       /\ row[a].status # "pending" => row'[a].status \notin {"pending", "absent"}
       /\ row[a].executed => row'[a].executed
       /\ row'[a].autoAt = row[a].autoAt
<1>1. IInv /\ [Next]_vars => [A]_vars
  <2> SUFFICES ASSUME IInv, Next PROVE A
    OBVIOUS
  <2>1. CASE row' = row
    BY <2>1
  <2>2. ASSUME NEW b \in ApprovalIds, NEW k \in Kinds, Create(b, k) PROVE A
    BY <2>2 DEF Create, IInv, TypeOK
  <2>3. ASSUME NEW s \in Sessions, Commit(s) PROVE A
    <3>1. \A a \in ApprovalIds :
            /\ ~Locked(s, a) => row'[a] = row[a]
            /\ Locked(s, a) => /\ row'[a].status = tx[s].wrote[a]
                               /\ row[a].executed => row'[a].executed
                               /\ row'[a].autoAt = row[a].autoAt
      BY <2>3 DEF Commit, IInv, TypeOK, Rows
    <3>2. \A a \in ApprovalIds : Locked(s, a) => tx[s].wrote[a] \notin {"absent", "pending"}
      BY DEF IInv, Bookkeeping, Locked
    <3> QED
      BY <3>1, <3>2
  <2> HIDE DEF A
  <2> QED
    BY <2>1, <2>2, <2>3
    DEF Next, Tick, BeginDecide, BeginBulk, BeginSweep, SelectExpired, LookUp, QueueForLock,
        Flush, Execute, Abort, DeadlockAbort, Rollback, Api
<1> QED
  BY <1>1, Invariant, PTL DEF Spec, DecisionsStick

-----------------------------------------------------------------------------
\* A fix that may be kept or shown: structured data is not among them, and a
\* placeholder only where image dimensions are to be filled in.
Shippable(fix) ==
  /\ fix # NoFix
  /\ fix.kind # "jsonld"
  /\ fix.marks # {} => fix.label = "set_image_dimensions" /\ fix.marks = {"REPLACE"}
  /\ fix.reversible
  /\ fix.risk # "critical"
  /\ fix.label = "robots.txt" => fix.risk = "high"

\* Markup is wrapped in a script element, and none of it passes the gate.
LEMMA MarkupIsRefused ==
  ASSUME NEW label, NEW marks
  PROVE  ~fixIsComplete(Text("jsonld", label, "low", marks))
BY DEF fixIsComplete, Text

\* The markup drafted for a page is refused.
LEMMA SchemaIsRefused ==
  ASSUME NEW finding, NEW pages, NEW options
  PROVE  ~fixIsComplete(schemaFix(finding, pages, options))
<1>1. ~fixIsComplete(NoFix)
  BY DEF fixIsComplete
<1>2. \/ schemaFix(finding, pages, options) = NoFix
      \/ \E label, marks : schemaFix(finding, pages, options) = Text("jsonld", label, "low", marks)
  BY DEF schemaFix
<1> QED
  BY <1>1, <1>2, MarkupIsRefused

\* The same of the patch to the markup a page already has.
LEMMA PatchIsRefused ==
  ASSUME NEW finding, NEW pages
  PROVE  ~fixIsComplete(schemaPatchFix(finding, pages))
<1>1. ~fixIsComplete(NoFix)
  BY DEF fixIsComplete
<1>2. \/ schemaPatchFix(finding, pages) = NoFix
      \/ \E marks : schemaPatchFix(finding, pages) = Text("jsonld", "patch", "low", marks)
  BY DEF schemaPatchFix, Written
<1> QED
  BY <1>1, <1>2, MarkupIsRefused

\* What the generators write and the gate keeps can ship.
LEMMA KeptCanShip ==
  ASSUME NEW finding, NEW pages, NEW options,
         fixIsComplete(generateFix(finding, pages, options))
  PROVE  Shippable(generateFix(finding, pages, options))
<1> DEFINE fix == generateFix(finding, pages, options)
           s == CATALOG[finding.code].strategy
<1>1. ~fixIsComplete(NoFix)
  BY DEF fixIsComplete
<1>2. ASSUME NEW t, Written(finding, pages, t) # NoFix
      PROVE  Written(finding, pages, t) = t
  BY <1>2 DEF Written
<1>3. \/ fix = Text("meta", s, "low", {}) /\ s \in {"rewrite_title", "rewrite_meta"}
      \/ fix = Text("html", s, "low", {}) /\ s # "robots.txt"
      \/ fix = Text("html", "set_image_dimensions", "low", {"REPLACE"})
      \/ fix = Text("file", s, "low", {}) /\ s # "robots.txt"
      \/ fix = Text("file", "robots.txt", "high", {})
      \/ fix = Text("copy", s, "low", {}) /\ s # "robots.txt"
      \/ fix = Text("copy", s, "medium", {}) /\ s # "robots.txt"
      \/ fix = Text("copy", s, "medium", {"REPLACE:"})
      \/ fix = Text("html", s, "low", {"REPLACE:"})
      \/ fix = linkPlanFix(finding, pages)
      \/ fix = Text("redirect", s, "low", {}) /\ s # "robots.txt"
      \/ fix = Text("redirect", s, "medium", {}) /\ s # "robots.txt"
  BY <1>1, <1>2, SchemaIsRefused, PatchIsRefused DEF generateFix
<1> HIDE DEF fix, s
<1>4. Shippable(linkPlanFix(finding, pages))
  BY DEF linkPlanFix, Text, Shippable, NoFix
<1> QED
  BY <1>3, <1>4 DEF fixIsComplete, Shippable, Text, NoFix, fix

-----------------------------------------------------------------------------
\* What is known of a finding: its id is its code and its page, and a fix it
\* kept can ship.
Known(f) == /\ f.id = <<f.code, f.url>>
            /\ f.fix = NoFix \/ Shippable(f.fix)

\* What is known of an approval.
Asked(a) == /\ DOMAIN a = {"id", "status", "risk", "fix", "timed"}
            /\ Shippable(a.fix)
            /\ a.timed => a.risk # "critical"

QueueInv ==
  /\ \A f \in result.findings : Known(f)
  /\ \A i \in DOMAIN approvals : Asked(approvals[i])

\* The findings of an audit are known.
LEMMA FindingsAreKnown ==
  ASSUME NEW pages, NEW capped, NEW f \in runAudit(pages, capped).findings
  PROVE  Known(f)
<1> DEFINE drafts == runChecks(pages, Files, Options, Base) \cup ConnectionDrafts({}, Options, Base)
<1>1. PICK g \in materialise(drafts) :
        f = [id |-> g.id, code |-> g.code, url |-> g.url, affected |-> g.affected,
             severity |-> g.severity, category |-> g.category, priority |-> g.priority,
             fix |-> IF fixIsComplete(generateFix(g, pages, Options))
                     THEN generateFix(g, pages, Options) ELSE NoFix]
  <2> HIDE DEF drafts
  <2> QED BY DEF runAudit, WithFixes, drafts
<1>2. g.id = <<g.code, g.url>>
  <2> HIDE DEF drafts
  <2>1. PICK i \in {fingerprint(d) : d \in drafts} : g.id = i /\ g.code = i[1] /\ g.url = i[2]
    BY DEF materialise
  <2>2. PICK d \in drafts : i = <<d.code, d.url>>
    BY <2>1 DEF fingerprint
  <2> QED BY <2>1, <2>2
<1>3. f.fix = NoFix \/ Shippable(f.fix)
  BY <1>1, KeptCanShip
<1> QED
  BY <1>1, <1>2, <1>3 DEF Known

\* What is asked about known findings.
LEMMA AskedOfFindings ==
  ASSUME NEW findings, \A f \in findings : Known(f),
         NEW a \in approvalsFromResult(findings, Autonomy)
  PROVE  /\ Asked(a) /\ a.status = "pending"
         /\ a.id \in {f.id : f \in findings}
<1>1. PICK f \in findings :
        /\ f.fix # NoFix
        /\ a = [id |-> f.id, status |-> "pending", risk |-> riskOf(f), fix |-> f.fix,
                timed |-> autoApproves(riskOf(f), Autonomy, "fix")]
  BY DEF approvalsFromResult
<1>2. Shippable(f.fix)
  BY <1>1 DEF Known
<1>3. ~autoApproves("critical", Autonomy, "fix")
  BY DEF autoApproves, AUTONOMY_FLOOR
<1>4. a.timed => a.risk # "critical"
  BY <1>1, <1>3
<1> QED
  BY <1>1, <1>2, <1>4 DEF Asked

\* The queue q after a run that found this and asked that: what it held, but
\* for a status, and what was asked.
After(q, findings, asked) ==
  /\ DOMAIN q = DOMAIN approvals \cup {a.id : a \in asked}
  /\ \A i \in DOMAIN q \ DOMAIN approvals : q[i] \in asked /\ q[i].id = i
  /\ \A i \in DOMAIN approvals :
       \/ /\ q[i] = approvals[i]
          /\ approvals[i].status = "pending" => i \in {f.id : f \in findings}
       \/ q[i] = [approvals[i] EXCEPT !.status = "withdrawn"]

\* What lib/runner.ts makes of the queue after a run is such a queue.
LEMMA MergedQueue ==
  ASSUME NEW audit, NEW changed
  PROVE  After(Merged(audit, changed), audit.findings,
               approvalsFromResult(audit.findings, Autonomy))
<1> DEFINE asked == approvalsFromResult(audit.findings, Autonomy)
           built == {a \in asked : a.id \notin DOMAIN approvals}
           open == {f.id : f \in audit.findings}
           q == Merged(audit, changed)
<1>1. q = [i \in DOMAIN approvals \cup {a.id : a \in built} |->
             IF i \notin DOMAIN approvals THEN CHOOSE a \in built : a.id = i
             ELSE IF approvals[i].status = "pending" /\ i \notin open
                  THEN [approvals[i] EXCEPT !.status = "withdrawn"] ELSE approvals[i]]
  BY Zenon DEF Merged
<1> HIDE DEF q, asked, open
<1>2. DOMAIN q = DOMAIN approvals \cup {a.id : a \in asked}
  BY <1>1
<1>3. ASSUME NEW i \in DOMAIN q \ DOMAIN approvals
      PROVE  q[i] \in asked /\ q[i].id = i
  <2>1. \E a \in built : a.id = i
    BY <1>1, <1>3
  <2>2. q[i] = CHOOSE a \in built : a.id = i
    BY <1>1, <1>3
  <2> QED BY <2>1, <2>2
<1>4. ASSUME NEW i \in DOMAIN approvals
      PROVE  \/ q[i] = approvals[i] /\ (approvals[i].status = "pending" => i \in open)
             \/ q[i] = [approvals[i] EXCEPT !.status = "withdrawn"]
  BY <1>1
<1> QED
  BY <1>2, <1>3, <1>4 DEF q, asked, open, After

-----------------------------------------------------------------------------
\* What a run shows is what it found, the difference and the stages from it.
LEMMA RunShows ==
  ASSUME NEW reading, Run(reading)
  PROVE  LET audit == runAudit(Crawled(reading), \E u \in Pages : reading[u] = "unread")
         IN /\ result' = audit
            /\ \E changed :
                 /\ runs = 0 => changed.fixed = {}
                 /\ runs # 0 => changed = diffRuns(audit, result)
                 /\ diff' = [k \in DOMAIN NoDiff |-> changed[k]]
                 /\ approvals' = Merged(audit, changed)
                 /\ programme' = assessProgramme(audit.findings, ShownWith(audit, changed))
<1> DEFINE audit == runAudit(Crawled(reading), \E u \in Pages : reading[u] = "unread")
           first == [NoDiff EXCEPT !.appeared = {f.id : f \in audit.findings}]
<1> HIDE DEF audit
<1>1. PICK changed \in {IF runs = 0 THEN first ELSE diffRuns(audit, result)} :
        /\ result' = audit
        /\ diff' = [k \in DOMAIN NoDiff |-> changed[k]]
        /\ approvals' = Merged(audit, changed)
        /\ programme' = assessProgramme(audit.findings, ShownWith(audit, changed))
  BY DEF Run, audit
<1>2. first.fixed = {}
  BY DEF NoDiff
<1> QED
  BY <1>1, <1>2 DEF audit

\* The queue invariant is kept, and with it that the queue follows the run.
LEMMA QueueBegins == AuditInit => QueueInv /\ QueueFollowsRun
<1> SUFFICES ASSUME AuditInit
             PROVE  QueueInv /\ QueueFollowsRun
  OBVIOUS
<1>1. result.findings = {} /\ DOMAIN approvals = {}
  BY DEF AuditInit, NoResult
<1> QED
  BY <1>1 DEF QueueInv, QueueFollowsRun

\* A run keeps the queue invariant, whatever it read, and its queue follows it.
LEMMA RunKeepsQueue ==
  ASSUME QueueInv, QueueFollowsRun, NEW reading, Run(reading)
  PROVE  QueueInv' /\ QueueFollowsRun'
<1> DEFINE audit == runAudit(Crawled(reading), \E u \in Pages : reading[u] = "unread")
           asked == approvalsFromResult(audit.findings, Autonomy)
<1>1. PICK changed : result' = audit /\ approvals' = Merged(audit, changed)
  BY RunShows
<1>2. \A f \in audit.findings : Known(f)
  BY FindingsAreKnown
<1> HIDE DEF audit
<1>3. \A a \in asked : Asked(a) /\ a.status = "pending" /\ a.id \in {f.id : f \in audit.findings}
  BY <1>2, AskedOfFindings
<1>4. After(approvals', audit.findings, asked)
  BY <1>1, MergedQueue
<1> HIDE DEF asked
<1>5. \A i \in DOMAIN approvals' : Asked(approvals'[i])
  <2> SUFFICES ASSUME NEW i \in DOMAIN approvals'
               PROVE  Asked(approvals'[i])
    OBVIOUS
  <2>1. CASE i \in DOMAIN approvals
    BY <2>1, <1>4 DEF QueueInv, Asked, After
  <2>2. CASE i \notin DOMAIN approvals
    BY <2>2, <1>3, <1>4 DEF After
  <2> QED BY <2>1, <2>2
<1>6. \A f \in audit.findings : f.fix # NoFix => f.id \in DOMAIN approvals'
  <2> SUFFICES ASSUME NEW f \in audit.findings, f.fix # NoFix
               PROVE  f.id \in {a.id : a \in asked}
    BY <1>4 DEF After
  <2>1. [id |-> f.id, status |-> "pending", risk |-> riskOf(f), fix |-> f.fix,
         timed |-> autoApproves(riskOf(f), Autonomy, "fix")] \in asked
    BY DEF asked, approvalsFromResult
  <2> QED BY <2>1
<1>7. ASSUME NEW i \in DOMAIN approvals', approvals'[i].status = "pending"
      PROVE  i \in {f.id : f \in audit.findings}
  <2>1. CASE i \in DOMAIN approvals
    <3>1. "status" \in DOMAIN approvals[i]
      BY <2>1 DEF QueueInv, Asked
    <3>2. approvals'[i] # [approvals[i] EXCEPT !.status = "withdrawn"]
      BY <1>7, <3>1
    <3>3. /\ approvals'[i] = approvals[i]
          /\ approvals[i].status = "pending" => i \in {f.id : f \in audit.findings}
      BY <1>4, <2>1, <3>2 DEF After
    <3> QED BY <1>7, <3>3
  <2>2. CASE i \notin DOMAIN approvals
    BY <2>2, <1>3, <1>4, <1>7 DEF After
  <2> QED BY <2>1, <2>2
<1> QED
  BY <1>1, <1>2, <1>5, <1>6, <1>7 DEF QueueInv, QueueFollowsRun

\* So does every step.
LEMMA StepKeepsQueue == QueueInv /\ QueueFollowsRun /\ [AuditNext]_auditVars
                          => QueueInv' /\ QueueFollowsRun'
<1> SUFFICES ASSUME QueueInv, QueueFollowsRun, [AuditNext]_auditVars
             PROVE  QueueInv' /\ QueueFollowsRun'
  OBVIOUS
<1>1. ASSUME NEW u \in Pages, NEW v \in DOMAIN Variants, Edit(u, v)
      PROVE  QueueInv' /\ QueueFollowsRun'
  BY <1>1 DEF Edit, QueueInv, QueueFollowsRun
<1>2. ASSUME NEW reading \in Readings, Run(reading)
      PROVE  QueueInv' /\ QueueFollowsRun'
  BY <1>2, RunKeepsQueue
<1>3. ASSUME NEW i \in DOMAIN approvals, Decide(i)
      PROVE  QueueInv' /\ QueueFollowsRun'
  <2>1. /\ result' = result
        /\ approvals' = [approvals EXCEPT ![i] = [@ EXCEPT !.status = "decided"]]
    BY <1>3 DEF Decide
  <2>2. ASSUME NEW j \in DOMAIN approvals'
        PROVE  /\ Asked(approvals'[j]) /\ j \in DOMAIN approvals
               /\ approvals'[j].status = "pending" => approvals[j].status = "pending"
    <3>1. j \in DOMAIN approvals /\ Asked(approvals[j])
      BY <2>1, <2>2 DEF QueueInv
    <3>2. CASE i = j
      BY <2>1, <3>1, <3>2 DEF Asked
    <3>3. CASE i # j
      BY <2>1, <3>1, <3>3
    <3> QED BY <3>2, <3>3
  <2>3. DOMAIN approvals' = DOMAIN approvals
    BY <2>1
  <2> QED BY <2>1, <2>2, <2>3 DEF QueueInv, QueueFollowsRun
<1>4. CASE UNCHANGED auditVars
  BY <1>4 DEF auditVars, QueueInv, QueueFollowsRun
<1> QED
  BY <1>1, <1>2, <1>3, <1>4 DEF AuditNext

\* However the owner edits, the crawls end and a person decides, every fix that
\* was ever asked about can ship as it is (fixes.ts, fixIsComplete): the queue
\* of lib/runner.ts only takes what the gate kept, and keeps it as it was.
THEOREM QueueShips == AuditSpec => []QueueCanShip
<1>1. QueueInv => QueueCanShip
  BY DEF QueueInv, Asked, Shippable, QueueCanShip
<1> QED
  BY <1>1, QueueBegins, StepKeepsQueue, PTL DEF AuditSpec

\* After every run all it found that has a fix was asked about, and what is
\* pending was found by it (lib/runner.ts).
THEOREM QueueFollows == AuditSpec => []QueueFollowsRun
BY QueueBegins, StepKeepsQueue, PTL DEF AuditSpec

-----------------------------------------------------------------------------
\* A batch that one click may answer holds no structural fix.
LEMMA BulkIsNotStructural ==
  ASSUME NEW f, BatchOf(f)[1] \in {"root", "mechanical"}
  PROVE  f.fix # NoFix /\ ~isStructural(f.fix)
BY DEF BatchOf

\* A fix that is neither a robots file nor graded high itself is high only as a
\* file, a redirect or a change to many pages.
LEMMA RiskOfOrdinary ==
  ASSUME NEW f, f.fix.label # "robots.txt", f.fix.risk \notin {"high", "critical"}
  PROVE  /\ riskOf(f) # "critical"
         /\ riskOf(f) = "high" => \/ f.fix.kind \in {"file", "redirect"}
                                  \/ Cardinality(f.affected) > 20
BY DEF riskOf

\* The two rules that grade a fix agree on what may be answered in bulk: no
\* approval that time alone may answer is critical (store.ts), and no batch
\* that one click may answer (batches.ts) holds a critical change, or a high
\* one that is not a file, a redirect or a change to more than twenty pages.
THEOREM BulkIsSafe == AuditSpec => []NothingCriticalInBulk
<1>1. QueueInv => NothingCriticalInBulk
  <2> SUFFICES ASSUME QueueInv
               PROVE  NothingCriticalInBulk
    OBVIOUS
  <2>1. \A i \in DOMAIN approvals : approvals[i].timed => approvals[i].risk # "critical"
    BY DEF QueueInv, Asked
  <2>2. ASSUME NEW b \in buildBatches(result.findings), b.batchable, NEW f \in b.findings
        PROVE  /\ riskOf(f) # "critical"
               /\ riskOf(f) = "high" => \/ f.fix.kind \in {"file", "redirect"}
                                        \/ Cardinality(f.affected) > 20
    <3>1. f \in result.findings /\ BatchOf(f)[1] \in {"root", "mechanical"}
      <4>1. PICK k \in {BatchOf(g) : g \in result.findings} :
              b = [id |-> k, batchable |-> k[1] \in {"root", "mechanical"},
                   findings |-> {g \in result.findings : BatchOf(g) = k}]
        BY Zenon DEF buildBatches
      <4>2. b.findings = {g \in result.findings : BatchOf(g) = k}
        BY <4>1
      <4>3. b.batchable = (k[1] \in {"root", "mechanical"})
        BY <4>1, Zenon
      <4> QED BY <2>2, <4>2, <4>3
    <3>2. f.fix # NoFix /\ ~isStructural(f.fix)
      BY <3>1, BulkIsNotStructural
    <3>3. Shippable(f.fix)
      BY <3>1, <3>2 DEF QueueInv, Known
    <3>4. f.fix.label # "robots.txt" /\ f.fix.risk \notin {"high", "critical"}
      BY <3>2, <3>3 DEF Shippable, isStructural
    <3> QED BY <3>4, RiskOfOrdinary
  <2> QED BY <2>1, <2>2 DEF NothingCriticalInBulk
<1> QED
  BY <1>1, QueueBegins, StepKeepsQueue, PTL DEF AuditSpec

-----------------------------------------------------------------------------
\* The catalogue: each code has a row, and its entry is one of its rows.
LEMMA RowOf ==
  ASSUME NEW c \in Codes
  PROVE  \E d \in AllDefs : d[2] = c /\ CATALOG[c] = [category |-> d[1], severity |-> d[3],
                              impact |-> d[4], effort |-> d[5], confidence |-> d[6],
                              strategy |-> d[7]]
<1> DEFINE d == CHOOSE x \in AllDefs : x[2] = c
<1>1. \E x \in AllDefs : x[2] = c
  BY DEF Codes
<1>2. d \in AllDefs /\ d[2] = c
  BY <1>1
<1>3. CATALOG[c] = [category |-> d[1], severity |-> d[3], impact |-> d[4], effort |-> d[5],
                    confidence |-> d[6], strategy |-> d[7]]
  BY DEF CATALOG
<1> HIDE DEF d
<1> QED
  BY <1>2, <1>3

\* Only the technical rows are technical.
LEMMA TechnicalRows ==
  ASSUME NEW d \in AllDefs, d[1] = "technical"
  PROVE  d \in TechnicalDefs
<1>1. d \notin ContentDefs
  BY DEF ContentDefs
<1>2. d \notin PerformanceDefs
  BY DEF PerformanceDefs
<1>3. d \notin SchemaDefs
  BY DEF SchemaDefs
<1>4. d \notin AEODefs
  BY DEF AEODefs
<1>5. d \notin LocalDefs
  BY DEF LocalDefs
<1>6. d \notin OffpageDefs
  BY DEF OffpageDefs
<1>7. d \notin InternationalDefs
  BY DEF InternationalDefs
<1>8. d \notin EcommerceDefs
  BY DEF EcommerceDefs
<1>9. d \notin UXDefs
  BY DEF UXDefs
<1>10. d \notin ComplianceDefs
  BY DEF ComplianceDefs
<1>11. d \notin AnalyticsDefs
  BY DEF AnalyticsDefs
<1> QED
  BY <1>1, <1>2, <1>3, <1>4, <1>5, <1>6, <1>7, <1>8, <1>9, <1>10, <1>11 DEF AllDefs

\* The severe technical codes.
SevereTechnical == {"page_noindex", "page_5xx", "page_404_linked", "redirect_loop",
                    "robots_blocks_important", "no_sitemap", "no_https", "mixed_content",
                    "canonical_mismatch"}
Duplicates == {"duplicate_content", "duplicate_title", "duplicate_meta_description",
               "keyword_cannibalisation"}

\* No technical code is about duplicates or scripted content, and those whose row
\* is graded critical or high are the severe ones.
LEMMA TechnicalCodes ==
  ASSUME NEW c \in Codes, CATALOG[c].category = "technical"
  PROVE  /\ c \notin Duplicates \cup {"content_needs_javascript"}
         /\ CATALOG[c].severity \in {"critical", "high"} => c \in SevereTechnical
<1>1. PICK d \in AllDefs : /\ d[2] = c
                           /\ CATALOG[c].category = d[1] /\ CATALOG[c].severity = d[3]
  <2>1. PICK d \in AllDefs : d[2] = c /\ CATALOG[c] = [category |-> d[1], severity |-> d[3],
          impact |-> d[4], effort |-> d[5], confidence |-> d[6], strategy |-> d[7]]
    BY RowOf
  <2>2. CATALOG[c].category = d[1] /\ CATALOG[c].severity = d[3]
    BY <2>1
  <2> QED BY <2>1, <2>2
<1>2. d \in TechnicalDefs
  BY <1>1, TechnicalRows
<1>3. /\ d[2] \notin Duplicates \cup {"content_needs_javascript"}
      /\ d[3] \in {"critical", "high"} => d[2] \in SevereTechnical
  BY <1>2 DEF TechnicalDefs, Duplicates, SevereTechnical
<1> QED
  BY <1>1, <1>3

-----------------------------------------------------------------------------
\* The codes of a group of rows.
CodesOf(defs) == {d[2] : d \in defs}

\* What the checks report for is in the catalogue, group by group.
LEMMA Catalogued ==
  /\ {"page_noindex", "page_5xx", "page_404_linked", "redirect_chain", "redirect_loop",
      "robots_blocks_important", "robots_missing", "orphan_page", "deep_page", "no_sitemap",
      "sitemap_contains_non_indexable", "sitemap_missing_pages", "no_https", "mixed_content",
      "no_lang_attribute", "canonical_missing", "canonical_mismatch"} \subseteq Codes
  /\ {"duplicate_content", "duplicate_title", "duplicate_meta_description", "title_missing",
      "title_too_long", "title_too_short", "meta_description_missing",
      "meta_description_length", "h1_missing", "h1_multiple", "heading_hierarchy_broken",
      "thin_content", "no_internal_links_out", "content_stale", "keyword_cannibalisation",
      "no_meaningful_headings", "image_alt_missing"} \subseteq Codes
  /\ {"image_legacy_format", "image_no_dimensions", "image_no_lazy_loading", "slow_response",
      "heavy_page", "excessive_javascript", "render_blocking_resources"} \subseteq Codes
  /\ {"schema_missing", "schema_invalid", "schema_missing_required",
      "schema_contradicts_page", "no_organization_schema", "no_breadcrumb_schema"} \subseteq Codes
  /\ {"ai_crawler_blocked", "no_direct_answer", "no_citable_facts", "missing_llms_txt",
      "content_needs_javascript", "meta_needs_javascript", "seo_injection_script",
      "no_author_attribution", "entity_unclear", "no_faq_structure",
      "content_not_extractable"} \subseteq Codes
  /\ {"nap_missing", "gbp_incomplete", "missing_location_page", "no_local_schema"} \subseteq Codes
  /\ {"no_linkable_asset", "backlinks_not_connected"} \subseteq Codes
  /\ {"hreflang_missing_return", "hreflang_invalid_code", "no_x_default"} \subseteq Codes
  /\ {"product_schema_incomplete", "faceted_nav_crawl_waste", "no_product_reviews"} \subseteq Codes
  /\ {"no_clear_cta", "mobile_unfriendly", "no_social_preview"} \subseteq Codes
  /\ {"ymyl_no_credentials", "unsubstantiated_claim", "missing_disclosure",
      "no_privacy_policy"} \subseteq Codes
  /\ {"analytics_missing", "gsc_not_connected", "ga4_not_connected"} \subseteq Codes
<1>1. {"page_noindex", "page_5xx", "page_404_linked", "redirect_chain", "redirect_loop",
      "robots_blocks_important", "robots_missing", "orphan_page", "deep_page", "no_sitemap",
      "sitemap_contains_non_indexable", "sitemap_missing_pages", "no_https", "mixed_content",
      "no_lang_attribute", "canonical_missing", "canonical_mismatch"}
        \subseteq CodesOf(TechnicalDefs)
  BY DEF CodesOf, TechnicalDefs
<1>2. {"duplicate_content", "duplicate_title", "duplicate_meta_description", "title_missing",
      "title_too_long", "title_too_short", "meta_description_missing",
      "meta_description_length", "h1_missing", "h1_multiple", "heading_hierarchy_broken",
      "thin_content", "no_internal_links_out", "content_stale", "keyword_cannibalisation",
      "no_meaningful_headings", "image_alt_missing"} \subseteq CodesOf(ContentDefs)
  BY DEF CodesOf, ContentDefs
<1>3. {"image_legacy_format", "image_no_dimensions", "image_no_lazy_loading", "slow_response",
      "heavy_page", "excessive_javascript", "render_blocking_resources"}
        \subseteq CodesOf(PerformanceDefs)
  BY DEF CodesOf, PerformanceDefs
<1>4. {"schema_missing", "schema_invalid", "schema_missing_required",
      "schema_contradicts_page", "no_organization_schema", "no_breadcrumb_schema"}
        \subseteq CodesOf(SchemaDefs)
  BY DEF CodesOf, SchemaDefs
<1>5. {"ai_crawler_blocked", "no_direct_answer", "no_citable_facts", "missing_llms_txt",
      "content_needs_javascript", "meta_needs_javascript", "seo_injection_script",
      "no_author_attribution", "entity_unclear", "no_faq_structure",
      "content_not_extractable"} \subseteq CodesOf(AEODefs)
  BY DEF CodesOf, AEODefs
<1>6. {"nap_missing", "gbp_incomplete", "missing_location_page", "no_local_schema"}
  \subseteq CodesOf(LocalDefs)
  BY DEF CodesOf, LocalDefs
<1>7. {"no_linkable_asset", "backlinks_not_connected"} \subseteq CodesOf(OffpageDefs)
  BY DEF CodesOf, OffpageDefs
<1>8. {"hreflang_missing_return", "hreflang_invalid_code", "no_x_default"}
  \subseteq CodesOf(InternationalDefs)
  BY DEF CodesOf, InternationalDefs
<1>9. {"product_schema_incomplete", "faceted_nav_crawl_waste", "no_product_reviews"}
  \subseteq CodesOf(EcommerceDefs)
  BY DEF CodesOf, EcommerceDefs
<1>10. {"no_clear_cta", "mobile_unfriendly", "no_social_preview"} \subseteq CodesOf(UXDefs)
  BY DEF CodesOf, UXDefs
<1>11. {"ymyl_no_credentials", "unsubstantiated_claim", "missing_disclosure",
      "no_privacy_policy"} \subseteq CodesOf(ComplianceDefs)
  BY DEF CodesOf, ComplianceDefs
<1>12. {"analytics_missing", "gsc_not_connected", "ga4_not_connected"}
  \subseteq CodesOf(AnalyticsDefs)
  BY DEF CodesOf, AnalyticsDefs
<1>13. ASSUME NEW g \in {TechnicalDefs, ContentDefs, PerformanceDefs, SchemaDefs, AEODefs,
                        LocalDefs, OffpageDefs, InternationalDefs, EcommerceDefs, UXDefs,
                        ComplianceDefs, AnalyticsDefs}
       PROVE  CodesOf(g) \subseteq Codes
  BY DEF CodesOf, Codes, AllDefs
<1> QED
  BY <1>1, <1>2, <1>3, <1>4, <1>5, <1>6, <1>7, <1>8, <1>9, <1>10, <1>11, <1>12, <1>13

\* What a page is reported for is in the catalogue.
LEMMA PageCodes ==
  ASSUME NEW p, NEW graph
  PROVE  pageChecks(p, graph) \subseteq Codes
<1>1. schemaRequirements(p, graph) \subseteq Codes
  BY Catalogued DEF schemaRequirements, When
<1>2. hreflangChecks(p) \subseteq Codes
  BY Catalogued DEF hreflangChecks, When
<1>3. javascriptChecks(p) \subseteq Codes
  BY Catalogued DEF javascriptChecks, When
<1>4. ContentCodes(p) \subseteq Codes
  BY Catalogued DEF ContentCodes, When
<1>5. WeightCodes(p) \subseteq Codes
  BY Catalogued DEF WeightCodes, When
<1>6. MeaningCodes(p, graph) \subseteq Codes
  BY <1>1, <1>2, <1>3, Catalogued DEF MeaningCodes, When
<1> QED
  BY <1>4, <1>5, <1>6, Catalogued DEF pageChecks, When

\* What is known of a draft: its code is in the catalogue, only drafts about
\* duplicates are ranked, and its severity is the catalogue's or, for two codes,
\* one step milder.
Drafted(d) ==
  /\ d.code \in Codes
  /\ d.code \notin Duplicates => d.at = 0
  /\ \/ d.severity = CATALOG[d.code].severity
     \/ d.severity = "high" /\ d.code \in {"page_5xx", "content_needs_javascript"}

\* A draft about the site is so, and is the one SiteDraft makes.
LEMMA SiteDrafted ==
  ASSUME NEW condition, NEW code \in Codes, NEW affected,
         NEW d \in SiteWhen(condition, code, affected)
  PROVE  Drafted(d) /\ d = SiteDraft(code, affected)
BY DEF SiteWhen, SiteDraft, Drafted

\* Every draft of the discovery checks is so.
LEMMA DiscoveryDrafted ==
  ASSUME NEW pages, NEW files, NEW base, NEW d \in DiscoveryDrafts(pages, files, base)
  PROVE  Drafted(d)
<1> DEFINE indexable == {p \in pages : isIndexable(p)}
           bad == files.entries \cap Urls(pages \ indexable)
           unlisted == {p \in indexable : p.url \notin files.entries}
           nodes == UNION {ToSet(p.nodes) : p \in {p \in pages : p.depth = 0 /\ HasSignals(p)}}
           OfHome(drafts) == {[e EXCEPT !.url = base] : e \in drafts}
           S1 == SiteWhen(~files.robots, "robots_missing", {base})
           S2 == SiteWhen(~files.sitemap, "no_sitemap", {base})
           S3 == SiteWhen(files.sitemap /\ bad # {}, "sitemap_contains_non_indexable", bad)
           S4 == SiteWhen(files.sitemap /\ files.entries # {} /\ Cardinality(unlisted) >= 3,
                          "sitemap_missing_pages", Urls(unlisted))
           S5 == SiteWhen(files.blocksAi, "ai_crawler_blocked", {base})
           S6 == SiteWhen(~files.llms, "missing_llms_txt", {base})
           S7 == OfHome(SiteWhen({n.type : n \in nodes} \cap OrgTypes = {},
                                 "no_organization_schema", {base}))
           S8 == OfHome(SiteWhen(\A n \in nodes : ~n.sameAs, "entity_unclear", {base}))
<1>1. ASSUME NEW condition, NEW code \in Codes, NEW affected,
             NEW e \in OfHome(SiteWhen(condition, code, affected))
      PROVE  Drafted(e)
  <2>1. PICK f \in SiteWhen(condition, code, affected) : e = [f EXCEPT !.url = base]
    OBVIOUS
  <2>2. f = SiteDraft(code, affected)
    BY SiteDrafted
  <2> QED BY <2>1, <2>2 DEF SiteDraft, Drafted
<1>2. DiscoveryDrafts(pages, files, base) = UNION {S1, S2, S3, S4, S5, S6, S7, S8}
  BY Zenon DEF DiscoveryDrafts
<1>3. {"robots_missing", "no_sitemap", "sitemap_contains_non_indexable", "sitemap_missing_pages",
       "ai_crawler_blocked", "missing_llms_txt", "no_organization_schema", "entity_unclear"}
        \subseteq Codes
  BY Catalogued
<1> HIDE DEF indexable, bad, unlisted, nodes, OfHome
<1>4. \A e \in S1 \cup S2 \cup S3 \cup S4 \cup S5 \cup S6 : Drafted(e)
  BY <1>3, SiteDrafted
<1>5. \A e \in S7 \cup S8 : Drafted(e)
  BY <1>1, <1>3
<1> HIDE DEF S1, S2, S3, S4, S5, S6, S7, S8
<1> QED
  BY <1>2, <1>4, <1>5

\* Every draft about duplicates is so, and belongs to no one page.
LEMMA DuplicatesDrafted ==
  ASSUME NEW pages, NEW d \in duplicateChecks(pages)
  PROVE  Drafted(d) /\ d.code \in Duplicates /\ d.url = "none"
<1> DEFINE Draft(code, g) == [SiteDraft(code, Urls(g)) EXCEPT !.at = Min({p.order : p \in g})]
<1>1. \E code \in Duplicates : \E g : d = Draft(code, g)
  BY DEF duplicateChecks, Duplicates
<1>2. Duplicates \subseteq Codes
  BY Catalogued DEF Duplicates
<1> QED
  BY <1>1, <1>2 DEF SiteDraft, Drafted

\* Every draft about the business is so, and belongs to no one page.
LEMMA BusinessDrafted ==
  ASSUME NEW pages, NEW options, NEW base, NEW d \in BusinessDrafts(pages, options, base)
  PROVE  Drafted(d) /\ d.url = "none"
<1> DEFINE fetched == {p \in pages : Fetched(p)}
           read == {p \in pages : HasSignals(p)}
           local == options.local \/ options.locations # {}
           products == {p \in read : "Product" \in jsonLdTypes(p)}
           unreviewed == {p \in products : \A n \in ToSet(p.nodes) : ~n.rated}
           C1 == \A p \in fetched : ~p.privacy
           C2 == local /\ \A p \in read : jsonLdTypes(p) \cap OrgTypes = {}
           C3 == local /\ ~(/\ \E p \in read : p.phone
                           /\ \E p \in read : p.address)
           C4 == \E l \in options.locations : \A p \in fetched : p.targets # l
           C6 == /\ \A p \in read : ~p.citable /\ p.words <= 1200
                 /\ Cardinality(fetched) > 4
           S1 == SiteWhen(C1, "no_privacy_policy", {base})
           S2 == SiteWhen(C2, "no_local_schema", {base})
           S3 == SiteWhen(C3, "nap_missing", {base})
           S4 == SiteWhen(C4, "missing_location_page", {base})
           S5 == SiteWhen(TRUE, "backlinks_not_connected", {base})
           S6 == SiteWhen(C6, "no_linkable_asset", {base})
           S7 == SiteWhen(/\ options.ecommerce \/ Cardinality(products) >= 2
                          /\ unreviewed # {}, "no_product_reviews", Urls(unreviewed))
<1>1. ASSUME NEW condition, NEW code \in Codes, NEW affected,
             NEW e \in SiteWhen(condition, code, affected)
      PROVE  Drafted(e) /\ e.url = "none"
  BY SiteDrafted DEF SiteDraft
<1>2. {"no_privacy_policy", "no_local_schema", "nap_missing", "missing_location_page",
       "backlinks_not_connected", "no_linkable_asset", "no_product_reviews"} \subseteq Codes
  BY Catalogued
<1>3. BusinessDrafts(pages, options, base) = UNION {S1, S2, S3, S4, S5, S6, S7}
  BY Zenon DEF BusinessDrafts
<1> HIDE DEF fetched, read, local, products, unreviewed, C1, C2, C3, C4, C6
<1>4. \A e \in S1 \cup S2 \cup S3 \cup S4 \cup S5 \cup S6 \cup S7 : Drafted(e) /\ e.url = "none"
  BY <1>1, <1>2
<1> HIDE DEF S1, S2, S3, S4, S5, S6, S7
<1> QED
  BY <1>3, <1>4

\* Every draft about what is not connected is so, and belongs to no one page.
LEMMA ConnectionDrafted ==
  ASSUME NEW connected, NEW options, NEW base, NEW d \in ConnectionDrafts(connected, options, base)
  PROVE  Drafted(d) /\ d.url = "none"
<1>1. \E code \in Codes : \E condition, affected : d \in SiteWhen(condition, code, affected)
  BY Catalogued DEF ConnectionDrafts
<1> QED
  BY <1>1, SiteDrafted DEF SiteDraft

\* So is every draft of an audit.
LEMMA AuditDrafted ==
  ASSUME NEW pages, NEW connected,
         NEW d \in runChecks(pages, Files, Options, Base)
                      \cup ConnectionDrafts(connected, Options, Base)
  PROVE  Drafted(d)
<1>1. CASE d \in DiscoveryDrafts(pages, Files, Base)
  BY <1>1, DiscoveryDrafted
<1>2. CASE d \in duplicateChecks({p \in pages : isIndexable(p)})
  BY <1>2, DuplicatesDrafted
<1>3. CASE d \in BusinessDrafts(pages, Options, Base)
  BY <1>3, BusinessDrafted
<1>4. CASE d \in ConnectionDrafts(connected, Options, Base)
  BY <1>4, ConnectionDrafted
<1>5. CASE d \in SiteWhen(Orphans(pages, Files, Base) # {}, "orphan_page",
                         Orphans(pages, Files, Base))
  BY <1>5, Catalogued, SiteDrafted
<1>6. CASE \E p \in pages : \E c \in pageChecks(p, buildSchemaGraph(pages)) :
             d = [code |-> c, url |-> p.url, severity |-> severityOverride(p, c),
                  affected |-> {p.url}, at |-> 0]
  <2>1. PICK p \in pages : \E c \in pageChecks(p, buildSchemaGraph(pages)) :
             d = [code |-> c, url |-> p.url, severity |-> severityOverride(p, c),
                  affected |-> {p.url}, at |-> 0]
    BY <1>6
  <2>2. PICK c \in pageChecks(p, buildSchemaGraph(pages)) :
             d = [code |-> c, url |-> p.url, severity |-> severityOverride(p, c),
                  affected |-> {p.url}, at |-> 0]
    BY <2>1
  <2>3. d.code = c /\ d.at = 0 /\ d.severity = severityOverride(p, c)
    BY <2>2
  <2>4. c \in Codes
    BY PageCodes
  <2> QED BY <2>3, <2>4 DEF Drafted, severityOverride
<1> QED
  BY <1>1, <1>2, <1>3, <1>4, <1>5, <1>6 DEF runChecks, siteChecks

-----------------------------------------------------------------------------
\* A technical finding that is critical or high has one of the severe codes.
LEMMA SevereFindings ==
  ASSUME NEW pages, NEW capped, NEW f \in runAudit(pages, capped).findings,
         f.category = "technical", f.severity \in {"critical", "high"}
  PROVE  f.code \in SevereTechnical
<1> DEFINE drafts == runChecks(pages, Files, Options, Base) \cup ConnectionDrafts({}, Options, Base)
           same(i) == {d \in drafts : fingerprint(d) = i}
           first(i) == CHOOSE d \in same(i) : \A e \in same(i) : d.at <= e.at
<1>1. \A d \in drafts : Drafted(d)
  BY AuditDrafted
<1> HIDE DEF drafts
<1>2. PICK g \in materialise(drafts) :
        f.code = g.code /\ f.category = g.category /\ f.severity = g.severity
  BY DEF runAudit, WithFixes, drafts
<1>3. PICK i \in {fingerprint(d) : d \in drafts} :
        /\ g.code = i[1] /\ g.category = CATALOG[i[1]].category
        /\ g.severity = first(i).severity
  BY DEF materialise
<1>4. PICK d \in drafts : i = <<d.code, d.url>>
  BY <1>3 DEF fingerprint
<1>5. \A e \in same(i) : Drafted(e) /\ e.code = f.code
  BY <1>1, <1>2, <1>3, <1>4 DEF fingerprint
<1>6. d \in same(i)
  BY <1>4 DEF fingerprint
<1>7. f.code \in Codes /\ CATALOG[f.code].category = "technical"
  BY <1>2, <1>3, <1>5, <1>6 DEF Drafted
<1>8. \A e \in same(i) : e.at = 0
  BY <1>5, <1>7, TechnicalCodes DEF Drafted
<1>9. first(i) \in same(i)
  <2> HIDE DEF same
  <2> QED BY <1>6, <1>8
<1> HIDE DEF first, same
<1>10. \/ f.severity = CATALOG[f.code].severity
       \/ f.code \in {"page_5xx", "content_needs_javascript"}
  BY <1>2, <1>3, <1>5, <1>9 DEF Drafted
<1> QED
  BY <1>7, <1>10, TechnicalCodes DEF SevereTechnical

\* What the first stage says of findings.
LEMMA FirstStage ==
  ASSUME NEW findings, NEW input,
         assessProgramme(findings, input).status["crawlable"] = "done",
         NEW f \in findings, f.code \in SevereTechnical
  PROVE  f.code \in {"no_https", "mixed_content", "no_sitemap"}
<1>1. "crawlable" \in ToSet(Stages)
  BY DEF ToSet, Stages
<1>2. assessProgramme(findings, input).status
        = [s \in ToSet(Stages) |-> StageStatus(s, findings, input)]
  BY DEF assessProgramme
<1>3. StageStatus("crawlable", findings, input) = "done"
  BY <1>1, <1>2
<1>4. {g \in findings : STAGE_CODES("crawlable", g)} = {}
  BY <1>3 DEF StageStatus
<1>5. ~STAGE_CODES("crawlable", f)
  BY <1>4
<1> QED
  BY <1>5 DEF STAGE_CODES, SevereTechnical

\* When the progress screen calls the first stage done (engine/progress.ts), no
\* finding of the run behind it is technical and severe but for the three codes
\* the stage's table leaves out.
THEOREM FoundIsFindable == AuditSpec => []FoundMeansFindable
<1>1. AuditInit => FoundMeansFindable
  BY DEF AuditInit, FoundMeansFindable
<1>2. FoundMeansFindable /\ [AuditNext]_auditVars => FoundMeansFindable'
  <2> SUFFICES ASSUME FoundMeansFindable, [AuditNext]_auditVars
               PROVE  FoundMeansFindable'
    OBVIOUS
  <2>1. ASSUME NEW u \in Pages, NEW v \in DOMAIN Variants, Edit(u, v)
        PROVE  FoundMeansFindable'
    BY <2>1 DEF Edit, FoundMeansFindable
  <2>2. ASSUME NEW reading \in Readings, Run(reading)
        PROVE  FoundMeansFindable'
    <3> DEFINE audit == runAudit(Crawled(reading), \E u \in Pages : reading[u] = "unread")
    <3>1. PICK changed : result' = audit
                         /\ programme' = assessProgramme(audit.findings, ShownWith(audit, changed))
      BY <2>2, RunShows
    <3>2. \A f \in audit.findings : f.category = "technical" /\ f.severity \in {"critical", "high"}
                                    => f.code \in SevereTechnical
      BY SevereFindings
    <3> HIDE DEF audit
    <3> QED BY <3>1, <3>2, FirstStage DEF FoundMeansFindable
  <2>3. ASSUME NEW i \in DOMAIN approvals, Decide(i)
        PROVE  FoundMeansFindable'
    BY <2>3 DEF Decide, FoundMeansFindable
  <2>4. CASE UNCHANGED auditVars
    BY <2>4 DEF auditVars, FoundMeansFindable
  <2> QED BY <2>1, <2>2, <2>3, <2>4 DEF AuditNext
<1> QED
  BY <1>1, <1>2, PTL DEF AuditSpec

-----------------------------------------------------------------------------
\* What is known of a page, and two pages that differ at most in what links to
\* them.
Signals == {"url", "order", "depth", "fetch", "inlinks", "hops", "https", "noindex",
            "canonical", "lang", "title", "titleLength", "head", "description",
            "descriptionLength", "h1", "skipsLevel", "headings", "generic", "words",
            "scripts", "sheets", "bytes", "inlineBytes", "paragraphs", "path", "links",
            "monthsOld", "noAlt", "noDimensions", "legacyImages", "eager", "elapsedMs",
            "insecureImages", "viewport", "preview", "nodes", "schemaErrors", "microdata",
            "asksInHeading", "asksInText", "answersFirst", "figures", "citations",
            "questions", "author", "ctas", "ymyl", "advises", "superlative", "affiliate",
            "disclosed", "hreflang", "injector", "analytics", "hash", "privacy", "phone",
            "address", "targets", "citable", "faqPairs", "images"}
Alike(p, q) == \A k \in Signals \ {"inlinks"} : p[k] = q[k]

\* A page has these signals and no others.
LEMMA PagesHaveSignals ==
  ASSUME NEW p \in Page
  PROVE  DOMAIN p = Signals
BY DEF Page, Signals

\* Pages read alike are indexable alike and have the same content codes ...
LEMMA AlikeContent ==
  ASSUME NEW p, NEW q, Alike(p, q)
  PROVE  /\ (isIndexable(p) <=> isIndexable(q)) /\ (HasSignals(p) <=> HasSignals(q))
         /\ ContentCodes(p) = ContentCodes(q)
<1>1. /\ p.fetch = q.fetch /\ p.noindex = q.noindex /\ p.title = q.title
      /\ p.titleLength = q.titleLength /\ p.description = q.description
      /\ p.descriptionLength = q.descriptionLength /\ p.h1 = q.h1
      /\ p.skipsLevel = q.skipsLevel /\ p.headings = q.headings /\ p.generic = q.generic
      /\ p.words = q.words /\ p.path = q.path /\ p.scripts = q.scripts /\ p.links = q.links
      /\ p.monthsOld = q.monthsOld
  BY DEF Alike, Signals
<1>2. (isIndexable(p) <=> isIndexable(q)) /\ (HasSignals(p) <=> HasSignals(q))
  BY <1>1 DEF isIndexable, HasSignals
<1>3. ContentCodes(p) = ContentCodes(q)
  BY <1>1, <1>2 DEF ContentCodes, When
<1> QED
  BY <1>2, <1>3

\* ... the same codes about weight ...
LEMMA AlikeWeight ==
  ASSUME NEW p, NEW q, Alike(p, q)
  PROVE  WeightCodes(p) = WeightCodes(q)
<1>1. /\ p.noAlt = q.noAlt /\ p.noDimensions = q.noDimensions
      /\ p.legacyImages = q.legacyImages /\ p.eager = q.eager /\ p.elapsedMs = q.elapsedMs
      /\ p.bytes = q.bytes /\ p.inlineBytes = q.inlineBytes /\ p.sheets = q.sheets
      /\ p.scripts = q.scripts /\ p.https = q.https /\ p.insecureImages = q.insecureImages
      /\ p.viewport = q.viewport /\ p.preview = q.preview
  BY DEF Alike, Signals
<1> QED
  BY <1>1 DEF WeightCodes

\* ... and the same about scripts and languages.
LEMMA AlikeJavascript ==
  ASSUME NEW p, NEW q, Alike(p, q)
  PROVE  javascriptChecks(p) = javascriptChecks(q) /\ hreflangChecks(p) = hreflangChecks(q)
<1>1. /\ p.words = q.words /\ p.scripts = q.scripts /\ p.bytes = q.bytes
      /\ p.paragraphs = q.paragraphs /\ p.inlineBytes = q.inlineBytes
      /\ p.title = q.title /\ p.injector = q.injector /\ p.hreflang = q.hreflang
  BY DEF Alike, Signals
<1> QED
  BY <1>1 DEF javascriptChecks, Shell, ScriptHeavy, hreflangChecks

\* Of the markup's codes, the two that need the site's other definitions are
\* among those about several pages; the third depends on the page alone.
LEMMA AlikeSchema ==
  ASSUME NEW p, NEW q, Alike(p, q), NEW g, NEW h,
         NEW c \in schemaRequirements(p, g), c \notin CrossPage
  PROVE  c \in schemaRequirements(q, h)
<1> DEFINE Claims(n) == n.type \in ContentBearing /\ n.claim # "none"
           Of(nodes) == SelectSeq(nodes, Claims)
           Differs(nodes, types, questions, asks, words) ==
             \/ "FAQPage" \in types /\ questions = 0 /\ ~asks
             \/ words > 0 /\ Of(nodes) # <<>> /\ Of(nodes)[1].claim = "not on the page"
           Contradicts(r) == Differs(r.nodes, jsonLdTypes(r), r.questions, r.asksInText, r.words)
           Lacks(r, graph) == \E n \in ToSet(r.nodes) : Incomplete(n, graph)
           Product(r, graph) == \E n \in ToSet(r.nodes) :
             /\ n.type = "Product"
             /\ Incomplete(n, graph) \/ Missing(n, graph) = {}
             /\ ~n.merchant \/ ~n.identified
<1>1. /\ p.nodes = q.nodes /\ p.questions = q.questions /\ p.asksInText = q.asksInText
      /\ p.words = q.words
  BY DEF Alike, Signals
<1>2. jsonLdTypes(p) = jsonLdTypes(q)
  BY <1>1 DEF jsonLdTypes
<1>3. \A r, graph : schemaRequirements(r, graph)
                      = UNION {When(Lacks(r, graph), "schema_missing_required"),
                               When(Product(r, graph), "product_schema_incomplete"),
                               When(Contradicts(r), "schema_contradicts_page")}
  BY Zenon DEF schemaRequirements
<1>4. Contradicts(p) <=> Contradicts(q)
  <2> HIDE DEF Differs
  <2> QED BY <1>1, <1>2
<1> HIDE DEF Contradicts, Lacks, Product
<1>5. c = "schema_contradicts_page" /\ Contradicts(p)
  BY <1>3 DEF When, CrossPage
<1>6. "schema_contradicts_page" \in schemaRequirements(q, h)
  BY <1>3, <1>4, <1>5 DEF When
<1> QED
  BY <1>5, <1>6

\* Of the codes about meaning, those outside CrossPage depend on the page alone.
LEMMA AlikeMeaning ==
  ASSUME NEW p, NEW q, Alike(p, q), NEW g, NEW h,
         NEW c \in MeaningCodes(p, g), c \notin CrossPage
  PROVE  c \in MeaningCodes(q, h)
<1>1. /\ p.schemaErrors = q.schemaErrors /\ p.nodes = q.nodes /\ p.microdata = q.microdata
      /\ p.words = q.words /\ p.depth = q.depth /\ p.asksInHeading = q.asksInHeading
      /\ p.answersFirst = q.answersFirst /\ p.figures = q.figures /\ p.citations = q.citations
      /\ p.questions = q.questions /\ p.path = q.path /\ p.author = q.author
      /\ p.ctas = q.ctas /\ p.ymyl = q.ymyl /\ p.advises = q.advises
      /\ p.superlative = q.superlative /\ p.affiliate = q.affiliate /\ p.disclosed = q.disclosed
      /\ p.canonical = q.canonical /\ p.analytics = q.analytics
  BY DEF Alike, Signals
<1>2. jsonLdTypes(p) = jsonLdTypes(q)
  BY <1>1 DEF jsonLdTypes
<1>3. /\ isIndexable(p) <=> isIndexable(q)
      /\ hreflangChecks(p) = hreflangChecks(q) /\ javascriptChecks(p) = javascriptChecks(q)
  BY AlikeContent, AlikeJavascript
<1>4. CASE c \in schemaRequirements(p, g)
  <2>1. c \in schemaRequirements(q, h)
    BY <1>4, AlikeSchema
  <2> QED BY <2>1 DEF MeaningCodes
<1>5. CASE c \notin schemaRequirements(p, g)
  BY <1>1, <1>2, <1>3, <1>5 DEF MeaningCodes, When
<1> QED
  BY <1>4, <1>5

\* A page that is read alike is reported alike, for what is about it alone.
LEMMA AlikePages ==
  ASSUME NEW p, NEW q, Alike(p, q), NEW g, NEW h,
         NEW c \in pageChecks(p, g), c \notin CrossPage
  PROVE  c \in pageChecks(q, h)
<1>1. /\ p.fetch = q.fetch /\ p.hops = q.hops /\ p.https = q.https /\ p.noindex = q.noindex
      /\ p.canonical = q.canonical /\ p.depth = q.depth /\ p.lang = q.lang
  BY DEF Alike, Signals
<1>2. CASE p.fetch \in {"robots", "loop", "5xx", "failed", "gone", "asset", "denied"}
  BY <1>1, <1>2 DEF pageChecks, When, CrossPage
<1>3. CASE p.fetch \notin {"robots", "loop", "5xx", "failed", "gone", "asset", "denied"}
  <2>1. ContentCodes(p) = ContentCodes(q) /\ WeightCodes(p) = WeightCodes(q)
    BY AlikeContent, AlikeWeight
  <2>2. c \in MeaningCodes(p, g) => c \in MeaningCodes(q, h)
    BY AlikeMeaning
  <2> QED BY <1>1, <1>3, <2>1, <2>2 DEF pageChecks, When
<1> QED
  BY <1>2, <1>3

-----------------------------------------------------------------------------
\* The page at u as a crawl that ended so has it.
Is(p, u, reading) ==
  /\ p.url = u /\ p.order = Order[u]
  /\ p.depth = IF u = Base THEN 0 ELSE 1
  /\ p.fetch = IF reading[u] = "read" THEN Variants[site[u]].fetch ELSE "failed"
  /\ \A k \in Signals \ {"url", "order", "depth", "fetch", "inlinks"} :
       p[k] = Variants[site[u]][k]

SiteOK == site \in [Pages -> DOMAIN Variants]

\* A crawl has one page for each address it got to, and it is as the site had it.
LEMMA CrawledPages ==
  ASSUME SiteOK, NEW reading
  PROVE  /\ \A p \in Crawled(reading) : \E u \in Pages : reading[u] # "unread" /\ Is(p, u, reading)
         /\ \A u \in Pages : reading[u] # "unread" => \E p \in Crawled(reading) : Is(p, u, reading)
<1> DEFINE content(u) == Variants[site[u]]
           linking(u) == {v \in Pages \ {u} : reading[v] = "read" /\ HasSignals(content(v))
                                               /\ u \in content(v).links}
           Had(u) == [content(u) EXCEPT !.url = u, !.order = Order[u],
                                        !.depth = IF u = Base THEN 0 ELSE 1,
                                        !.fetch = IF reading[u] = "read" THEN @ ELSE "failed",
                                        !.inlinks = linking(u)]
<1>1. Crawled(reading) = {Had(u) : u \in {v \in Pages : reading[v] # "unread"}}
  BY Zenon DEF Crawled
<1>2. ASSUME NEW u \in Pages
      PROVE  Is(Had(u), u, reading)
  <2> HIDE DEF linking
  <2>1. DOMAIN content(u) = Signals
    BY PagesHaveSignals, AuditAssumption DEF SiteOK
  <2>2. {"url", "order", "depth", "fetch", "inlinks"} \subseteq Signals
    BY DEF Signals
  <2> HIDE DEF content
  <2> QED BY <2>1, <2>2 DEF Is, content
<1> HIDE DEF Had
<1> QED
  BY <1>1, <1>2

\* Two crawls that read the same address of the same site read it alike.
LEMMA SameAreAlike ==
  ASSUME NEW u, NEW r, NEW s, NEW p, NEW q, Is(p, u, r), Is(q, u, s), r[u] = "read", s[u] = "read"
  PROVE  Alike(p, q)
BY DEF Is, Alike

\* The findings' ids are the drafts'.
LEMMA IdsOfDrafts ==
  ASSUME NEW pages, NEW capped
  PROVE  {f.id : f \in runAudit(pages, capped).findings}
           = {<<d.code, d.url>> : d \in runChecks(pages, Files, Options, Base)
                                        \cup ConnectionDrafts({}, Options, Base)}
<1> DEFINE drafts == runChecks(pages, Files, Options, Base) \cup ConnectionDrafts({}, Options, Base)
<1> HIDE DEF drafts
<1>1. {g.id : g \in materialise(drafts)} = {<<d.code, d.url>> : d \in drafts}
  <2> DEFINE same(i) == {d \in drafts : fingerprint(d) = i}
             first(i) == CHOOSE d \in same(i) : \A e \in same(i) : d.at <= e.at
             found(i) == [id |-> i, code |-> i[1], url |-> i[2],
                          affected |-> UNION {d.affected : d \in same(i)},
                          severity |-> first(i).severity, category |-> CATALOG[i[1]].category,
                          priority |-> priorityOf(CATALOG[i[1]], Cardinality(first(i).affected))]
             ids == {fingerprint(d) : d \in drafts}
  <2>1. materialise(drafts) = {found(i) : i \in ids}
    BY Zenon DEF materialise
  <2>2. \A i : found(i).id = i
    OBVIOUS
  <2>3. ids = {<<d.code, d.url>> : d \in drafts}
    BY DEF fingerprint
  <2> HIDE DEF found, ids
  <2> QED BY <2>1, <2>2, <2>3
<1>2. {f.id : f \in WithFixes(materialise(drafts), pages, Options)}
        = {g.id : g \in materialise(drafts)}
  <2> DEFINE kept(f) == [id |-> f.id, code |-> f.code, url |-> f.url, affected |-> f.affected,
                         severity |-> f.severity, category |-> f.category, priority |-> f.priority,
                         fix |-> LET fix == generateFix(f, pages, Options)
                                 IN IF fixIsComplete(fix) THEN fix ELSE NoFix]
  <2>1. WithFixes(materialise(drafts), pages, Options) = {kept(f) : f \in materialise(drafts)}
    BY Zenon DEF WithFixes
  <2>2. \A f : kept(f).id = f.id
    OBVIOUS
  <2> HIDE DEF kept
  <2> QED BY <2>1, <2>2
<1>3. runAudit(pages, capped).findings = WithFixes(materialise(drafts), pages, Options)
  BY DEF runAudit, drafts
<1> QED
  BY <1>1, <1>2, <1>3 DEF drafts

\* What the discovery checks report of the homepage depends on its nodes alone.
HomeNodes(pages) == UNION {ToSet(p.nodes) : p \in {p \in pages : p.depth = 0 /\ HasSignals(p)}}

\* Two crawls that agree on those nodes draft the same at the homepage.
LEMMA DiscoveryOfHome ==
  ASSUME NEW pages, NEW others, HomeNodes(pages) = HomeNodes(others),
         NEW d \in DiscoveryDrafts(pages, Files, Base), d.url # "none"
  PROVE  d \in DiscoveryDrafts(others, Files, Base) /\ d.url = Base
<1> DEFINE OfHome(drafts) == {[e EXCEPT !.url = Base] : e \in drafts}
           H(nodes) == OfHome(SiteWhen({n.type : n \in nodes} \cap OrgTypes = {},
                                       "no_organization_schema", {Base}))
                       \cup OfHome(SiteWhen(\A n \in nodes : ~n.sameAs, "entity_unclear", {Base}))
<1>1. ASSUME NEW qs
      PROVE  /\ H(HomeNodes(qs)) \subseteq DiscoveryDrafts(qs, Files, Base)
             /\ \A e \in DiscoveryDrafts(qs, Files, Base) : e.url = "none" \/ e \in H(HomeNodes(qs))
  <2> DEFINE indexable == {p \in qs : isIndexable(p)}
             bad == Files.entries \cap Urls(qs \ indexable)
             unlisted == {p \in indexable : p.url \notin Files.entries}
             nodes == HomeNodes(qs)
             S1 == SiteWhen(~Files.robots, "robots_missing", {Base})
             S2 == SiteWhen(~Files.sitemap, "no_sitemap", {Base})
             S3 == SiteWhen(Files.sitemap /\ bad # {}, "sitemap_contains_non_indexable", bad)
             S4 == SiteWhen(Files.sitemap /\ Files.entries # {} /\ Cardinality(unlisted) >= 3,
                            "sitemap_missing_pages", Urls(unlisted))
             S5 == SiteWhen(Files.blocksAi, "ai_crawler_blocked", {Base})
             S6 == SiteWhen(~Files.llms, "missing_llms_txt", {Base})
             S7 == OfHome(SiteWhen({n.type : n \in nodes} \cap OrgTypes = {},
                                   "no_organization_schema", {Base}))
             S8 == OfHome(SiteWhen(\A n \in nodes : ~n.sameAs, "entity_unclear", {Base}))
  <2>1. DiscoveryDrafts(qs, Files, Base) = UNION {S1, S2, S3, S4, S5, S6, S7, S8}
    BY Zenon DEF DiscoveryDrafts, HomeNodes
  <2>2. H(nodes) = S7 \cup S8
    OBVIOUS
  <2> HIDE DEF indexable, bad, unlisted, nodes, H, OfHome
  <2>3. \A e \in S1 \cup S2 \cup S3 \cup S4 \cup S5 \cup S6 : e.url = "none"
    BY DEF SiteWhen, SiteDraft
  <2> HIDE DEF S1, S2, S3, S4, S5, S6, S7, S8
  <2> QED BY <2>1, <2>2, <2>3 DEF nodes
<1>2. ASSUME NEW nodes, NEW e \in H(nodes)
      PROVE  e.url = Base
  BY DEF SiteWhen, SiteDraft
<1> HIDE DEF H
<1> QED
  BY <1>1, <1>2

\* The homepage is read by every crawl that ends.
LEMMA HomeIsRead ==
  ASSUME SiteOK, NEW reading, reading[Base] = "read"
  PROVE  HomeNodes(Crawled(reading))
           = IF Variants[site[Base]].fetch = "html" THEN ToSet(Variants[site[Base]].nodes) ELSE {}
<1> DEFINE home == {p \in Crawled(reading) : p.depth = 0 /\ HasSignals(p)}
<1>1. {"nodes", "fetch"} \subseteq Signals /\ Base \in Pages
  BY AuditAssumption DEF Signals
<1>2. ASSUME NEW p, NEW u \in Pages, Is(p, u, reading)
      PROVE  /\ p.depth = 0 <=> u = Base
             /\ p.nodes = Variants[site[u]].nodes
  BY <1>1, <1>2 DEF Is
<1>3. ASSUME NEW p \in home
      PROVE  Variants[site[Base]].fetch = "html" /\ p.nodes = Variants[site[Base]].nodes
  <2>1. PICK u \in Pages : Is(p, u, reading)
    BY CrawledPages
  <2>2. u = Base
    BY <1>2, <2>1
  <2> QED BY <1>2, <1>3, <2>1, <2>2 DEF Is, HasSignals
<1>4. ASSUME Variants[site[Base]].fetch = "html"
      PROVE  \E p \in home : p.nodes = Variants[site[Base]].nodes
  <2>1. PICK p \in Crawled(reading) : Is(p, Base, reading)
    BY <1>1, CrawledPages
  <2> QED BY <1>1, <1>2, <1>4, <2>1 DEF Is, HasSignals
<1>5. HomeNodes(Crawled(reading)) = UNION {ToSet(p.nodes) : p \in home}
  BY DEF HomeNodes
<1> HIDE DEF home
<1> QED
  BY <1>3, <1>4, <1>5

\* What is true of a page that a crawl read, and is about it alone, it reports.
LEMMA StillFound ==
  ASSUME SiteOK, NEW reading, reading[Base] = "read", NEW capped,
         NEW c, NEW u, <<c, u>> \in Truth, u # "none", c \notin CrossPage,
         u \in Pages => reading[u] = "read"
  PROVE  <<c, u>> \in {f.id : f \in runAudit(Crawled(reading), capped).findings}
<1> DEFINE all == Crawled(Everything)
           part == Crawled(reading)
           Drafts(pages) == runChecks(pages, Files, Options, Base)
                            \cup ConnectionDrafts({}, Options, Base)
<1>1. PICK d \in Drafts(all) : c = d.code /\ u = d.url
  <2>1. <<c, u>> \in {<<d.code, d.url>> : d \in Drafts(all)}
    BY IdsOfDrafts DEF Truth
  <2> HIDE DEF Drafts, all
  <2> QED BY <2>1
<1>2. SUFFICES ASSUME TRUE
               PROVE  \E e \in Drafts(part) : e.code = c /\ e.url = u
  <2>1. {f.id : f \in runAudit(part, capped).findings} = {<<e.code, e.url>> : e \in Drafts(part)}
    BY IdsOfDrafts
  <2> HIDE DEF Drafts, part
  <2> QED BY <2>1 DEF part
<1>3. CASE d \in DiscoveryDrafts(all, Files, Base)
  <2>1. Everything[Base] = "read"
    BY AuditAssumption DEF Everything
  <2>2. HomeNodes(all) = HomeNodes(part)
    BY <2>1, HomeIsRead
  <2>3. d \in DiscoveryDrafts(part, Files, Base)
    BY <1>1, <1>3, <2>2, DiscoveryOfHome
  <2>4. d \in siteChecks(part, Files, Options, Base)
    <3> HIDE DEF part
    <3> QED BY <2>3 DEF siteChecks
  <2>5. d \in runChecks(part, Files, Options, Base)
    <3> HIDE DEF part
    <3> QED BY <2>4, Zenon DEF runChecks
  <2> QED BY <1>1, <2>5
<1>4. CASE d \in duplicateChecks({p \in all : isIndexable(p)})
  BY <1>1, <1>4, DuplicatesDrafted
<1>5. CASE d \in BusinessDrafts(all, Options, Base)
  BY <1>1, <1>5, BusinessDrafted
<1>6. CASE d \in ConnectionDrafts({}, Options, Base)
  BY <1>1, <1>6, ConnectionDrafted
<1>7. CASE d \in SiteWhen(Orphans(all, Files, Base) # {}, "orphan_page", Orphans(all, Files, Base))
  BY <1>1, <1>7 DEF SiteWhen, SiteDraft
<1>8. CASE \E p \in all : \E k \in pageChecks(p, buildSchemaGraph(all)) :
             d = [code |-> k, url |-> p.url, severity |-> severityOverride(p, k),
                  affected |-> {p.url}, at |-> 0]
  <2>1. PICK p \in all : /\ c \in pageChecks(p, buildSchemaGraph(all))
                         /\ u = p.url
    BY <1>1, <1>8
  <2>2. PICK v \in Pages : Is(p, v, Everything)
    BY CrawledPages
  <2>3. v = u /\ u \in Pages /\ Everything[u] = "read"
    BY <2>1, <2>2 DEF Is, Everything
  <2>4. reading[u] = "read"
    BY <2>3
  <2>5. PICK q \in part : Is(q, u, reading)
    BY <2>3, <2>4, CrawledPages
  <2>6. c \in pageChecks(q, buildSchemaGraph(part))
    BY <2>1, <2>2, <2>3, <2>4, <2>5, SameAreAlike, AlikePages
  <2>7. q.url = u
    BY <2>5 DEF Is
  <2> DEFINE Of(r, k) == [code |-> k, url |-> r.url, severity |-> severityOverride(r, k),
                          affected |-> {r.url}, at |-> 0]
             graph == buildSchemaGraph(part)
  <2>8. Of(q, c).code = c /\ Of(q, c).url = u
    BY <2>7
  <2>9. runChecks(part, Files, Options, Base)
          = siteChecks(part, Files, Options, Base)
            \cup UNION {{Of(r, k) : k \in pageChecks(r, graph)} : r \in part}
    BY Zenon DEF runChecks
  <2> HIDE DEF Of, graph
  <2>10. Of(q, c) \in UNION {{Of(r, k) : k \in pageChecks(r, graph)} : r \in part}
    BY <2>6 DEF graph
  <2> QED BY <2>8, <2>9, <2>10
<1> QED
  BY <1>1, <1>3, <1>4, <1>5, <1>6, <1>7, <1>8 DEF runChecks, siteChecks

\* What a run reports as fixed.
LEMMA RunExplains ==
  ASSUME SiteOK, QueueInv, NEW reading \in Readings, Run(reading)
  PROVE  LET unread == Pages \ {p.url : p \in {q \in result'.pages : q.fetch # "failed"}}
         IN \A i \in diff'.fixed :
              \/ i[1] \notin {j[1] : j \in {k \in Truth : k[2] = i[2]}}
              \/ i[2] \in unread
              \/ unread # {} /\ (i[2] = "none" \/ i[1] \in CrossPage)
<1> DEFINE capped == \E u \in Pages : reading[u] = "unread"
           audit == runAudit(Crawled(reading), capped)
           unread == Pages \ {p.url : p \in {q \in result'.pages : q.fetch # "failed"}}
           Ids(run) == {f.id : f \in run.findings}
<1>1. PICK changed : /\ result' = audit
                     /\ runs = 0 => changed.fixed = {}
                     /\ runs # 0 => changed = diffRuns(audit, result)
                     /\ diff' = [k \in DOMAIN NoDiff |-> changed[k]]
  BY RunShows
<1>2. diff'.fixed = changed.fixed
  BY <1>1 DEF NoDiff
<1>3. ASSUME NEW i \in diff'.fixed
      PROVE  i \in Ids(result) /\ i \notin Ids(audit)
  <2>1. diffRuns(audit, result).fixed = Ids(result) \ Ids(audit)
    <3> HIDE DEF audit
    <3> QED BY DEF diffRuns
  <2> HIDE DEF Ids, audit
  <2> QED BY <1>1, <1>2, <1>3, <2>1
<1>4. reading \in [Pages -> {"read", "failed", "unread"}] /\ reading[Base] = "read"
  BY DEF Readings
<1>5. ASSUME NEW u \in Pages, u \notin unread
      PROVE  reading[u] = "read"
  <2>1. result'.pages = {[url |-> p.url, fetch |-> p.fetch] : p \in Crawled(reading)}
    <3>1. audit.pages = {[url |-> p.url, fetch |-> p.fetch] : p \in Crawled(reading)}
      BY DEF runAudit
    <3> HIDE DEF audit
    <3> QED BY <1>1, <3>1
  <2>2. PICK p \in Crawled(reading) : p.url = u /\ p.fetch # "failed"
    BY <1>5, <2>1
  <2>3. PICK v \in Pages : Is(p, v, reading)
    BY CrawledPages
  <2> QED BY <2>2, <2>3 DEF Is
<1> HIDE DEF unread, audit, Ids
<1>6. ASSUME NEW i \in diff'.fixed,
             i[1] \in {j[1] : j \in {k \in Truth : k[2] = i[2]}}, i[2] \notin unread,
             ~(unread # {} /\ (i[2] = "none" \/ i[1] \in CrossPage))
      PROVE  FALSE
  <2>1. PICK k \in Truth : k[1] = i[1] /\ k[2] = i[2]
    BY <1>6
  <2>2. i = <<i[1], i[2]>>
    <3>1. PICK f \in result.findings : i = <<f.code, f.url>>
      BY <1>3, <1>6 DEF QueueInv, Known, Ids
    <3> QED BY <3>1
  <2>3. i \in Truth
    <3>1. PICK f \in runAudit(Crawled(Everything), FALSE).findings : k = f.id
      BY <2>1 DEF Truth
    <3>2. k = <<f.code, f.url>>
      BY <3>1, FindingsAreKnown DEF Known
    <3>3. k = i
      BY <2>1, <2>2, <3>2
    <3> QED BY <3>3
  <2>4. CASE unread = {}
    <3>1. \A u \in Pages : reading[u] = "read"
      BY <1>5, <2>4
    <3>2. reading = Everything
      BY <1>4, <3>1 DEF Everything
    <3>3. Ids(audit) = Truth
      BY <3>2, IdsOfDrafts DEF Ids, audit, Truth
    <3> QED BY <1>3, <1>6, <2>3, <3>3
  <2>5. CASE unread # {}
    <3>1. i[2] # "none" /\ i[1] \notin CrossPage /\ (i[2] \in Pages => reading[i[2]] = "read")
      BY <1>5, <1>6, <2>5
    <3>2. <<i[1], i[2]>> \in Truth
      BY <2>2, <2>3
    <3>3. <<i[1], i[2]>> \in Ids(audit)
      BY <1>4, <3>1, <3>2, StillFound DEF Ids, audit
    <3> QED BY <1>3, <1>6, <2>2, <3>3
  <2> QED BY <2>4, <2>5
<1> QED
  BY <1>6 DEF unread

\* The site stays a page at every address.
LEMMA SiteKept == AuditSpec => []SiteOK
<1>1. AuditInit => SiteOK
  BY AuditAssumption DEF AuditInit, SiteOK
<1>2. SiteOK /\ [AuditNext]_auditVars => SiteOK'
  BY DEF SiteOK, AuditNext, auditVars, Edit, Run, Decide
<1> QED
  BY <1>1, <1>2, PTL DEF AuditSpec

\* Whatever a run reports as fixed (engine/diff.ts calls so every finding that is
\* absent now) is really gone from the site, or the run says that it could not
\* see it: its page was not read, or it is about several pages and one was not.
THEOREM FixesAreExplained == AuditSpec => FixedIsExplained
<1> DEFINE Explained == runs' # runs =>
             LET unread == Pages \ {p.url : p \in {q \in result'.pages : q.fetch # "failed"}}
             IN \A i \in diff'.fixed :
                  \/ i[1] \notin {j[1] : j \in {k \in Truth : k[2] = i[2]}}
                  \/ i[2] \in unread
                  \/ unread # {} /\ (i[2] = "none" \/ i[1] \in CrossPage)
<1>1. SiteOK /\ QueueInv /\ [AuditNext]_auditVars => Explained
  <2> SUFFICES ASSUME SiteOK, QueueInv, [AuditNext]_auditVars, runs' # runs
               PROVE  Explained
    OBVIOUS
  <2>1. PICK reading \in Readings : Run(reading)
    BY DEF AuditNext, auditVars, Edit, Decide
  <2> QED BY <2>1, RunExplains
<1>2. AuditSpec => []QueueInv
  BY QueueBegins, StepKeepsQueue, PTL DEF AuditSpec
<1>3. SiteOK /\ QueueInv /\ [AuditNext]_auditVars => [Explained]_auditVars
  BY <1>1
<1> HIDE DEF Explained
<1>4. AuditSpec => [][Explained]_auditVars
  BY <1>2, <1>3, SiteKept, PTL DEF AuditSpec
<1> QED
  BY <1>4, PTL DEF FixedIsExplained, Explained
=============================================================================
