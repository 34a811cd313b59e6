------------------------------ MODULE Approvals ------------------------------
(***************************************************************************)
(* The approval queue (services/approvals.py), driven by the two parties   *)
(* that write to it: API requests (api/routes/approvals.py, decide and     *)
(* bulk_decide) and the worker's housekeeping pass (missions/scheduler.py).*)
(*                                                                         *)
(* Every request or pass is one database transaction (session_scope in     *)
(* core/db.py) at READ COMMITTED: a SELECT sees what is committed, an      *)
(* UPDATE takes the row's lock and keeps it until commit or rollback, and  *)
(* nothing rereads a row before writing it.  The replay of the stored      *)
(* action happens outside the database and is not undone by a rollback.    *)
(***************************************************************************)
EXTENDS Integers, FiniteSets

CONSTANTS
  Sessions,     \* transactions that can be open at the same time
  Workers,      \* those of them that belong to worker processes
  ApprovalIds,  \* rows of the approvals table
  Kinds,        \* what a requested action looks like: [risk, delay, tool]
  Expiry,       \* DEFAULT_EXPIRY_DAYS
  SweepLimit,   \* limit of sweep_auto_approvals
  NoDelay,      \* a kind's delay when policy gives no auto_approve_after
  MaxTime,      \* bound: the clock stops here, when every row has expired
  MaxAborts     \* bound: transactions that fail for outside reasons

Risks == {"none", "low", "medium", "high", "critical"}
Decisions == {"approved", "rejected", "changes_requested"}
Statuses == Decisions \cup {"absent", "pending", "auto_approved", "expired",
                            "executed", "failed"}

ASSUME ConstantsAssumption ==
  /\ Workers \subseteq Sessions
  /\ Kinds \subseteq [risk : Risks, delay : Nat \cup {NoDelay}, tool : BOOLEAN]
  /\ NoDelay \notin Nat
  /\ Expiry \in Nat
  /\ SweepLimit \in Nat \ {0}
  /\ MaxTime \in Nat
  /\ MaxAborts \in Nat

VARIABLES
  now,          \* the clock, in days
  row,          \* the committed approvals table
  tx,           \* what each open transaction knows and has written
  aborts,       \* outside failures so far
  replays,      \* how often each stored action ran: 0, 1 or 2 ("several")
  authority,    \* history: who let each replay happen
  overlapped,   \* history: rows two open transactions both read as pending
  lost          \* history: rows whose replay was followed by a rollback

vars == <<now, row, tx, aborts, replays, authority, overlapped, lost>>

Rows == [status : Statuses, executed : BOOLEAN, risk : Risks, tool : BOOLEAN,
         autoAt : Nat \cup {NoDelay}, expiresAt : Nat]
Phases == {"idle", "decide", "bulk", "sweep", "expire"}
Txs == [phase : Phases,
        decision : Decisions,
        todo : SUBSET ApprovalIds,     \* ids of the request not looked up yet
        read : SUBSET ApprovalIds,     \* rows read as pending, not yet written
        waits : SUBSET ApprovalIds,    \* the row whose lock it is queued for
        wrote : [ApprovalIds -> Statuses],  \* "absent": the row is not written
        ran : SUBSET ApprovalIds]      \* rows whose executed_at is set here

Idle == [phase |-> "idle", decision |-> "rejected", todo |-> {}, read |-> {},
         waits |-> {}, wrote |-> [a \in ApprovalIds |-> "absent"], ran |-> {}]
NoRow == [status |-> "absent", executed |-> FALSE, risk |-> "none", tool |-> FALSE,
          autoAt |-> NoDelay, expiresAt |-> 0]

TypeOK ==
  /\ now \in Nat
  /\ row \in [ApprovalIds -> Rows]
  /\ tx \in [Sessions -> Txs]
  /\ aborts \in Nat
  /\ replays \in [ApprovalIds -> 0..2]
  /\ authority \in [ApprovalIds -> SUBSET Phases]
  /\ overlapped \subseteq ApprovalIds
  /\ lost \subseteq ApprovalIds

-----------------------------------------------------------------------------
Locked(s, a) == tx[s].wrote[a] # "absent"
Holds(s, a) == a \in tx[s].read \/ Locked(s, a)
LockFree(s, a) == \A t \in Sessions \ {s} : ~Locked(t, a)

\* The rows of A that some other open transaction is already working on.
Contended(s, A) == {a \in A : \E t \in Sessions \ {s} : Holds(t, a)}

Granted == {"approved", "auto_approved"}

\* A granted row whose stored action has not been replayed by s yet.
Unexecuted(s) == {a \in ApprovalIds : tx[s].wrote[a] \in Granted}

-----------------------------------------------------------------------------
Init ==
  /\ now = 0
  /\ row = [a \in ApprovalIds |-> NoRow]
  /\ tx = [s \in Sessions |-> Idle]
  /\ aborts = 0
  /\ replays = [a \in ApprovalIds |-> 0]
  /\ authority = [a \in ApprovalIds |-> {}]
  /\ overlapped = {}
  /\ lost = {}

\* create: the agent's session commits a pending row.
Create(a, k) ==
  /\ row[a].status = "absent"
  /\ now + Expiry <= MaxTime
  /\ row' = [row EXCEPT ![a] =
       [status |-> "pending", executed |-> FALSE, risk |-> k.risk, tool |-> k.tool,
        autoAt |-> IF k.delay = NoDelay THEN NoDelay ELSE now + k.delay,
        expiresAt |-> now + Expiry]]
  /\ UNCHANGED <<now, tx, aborts, replays, authority, overlapped, lost>>

\* A POST to /approvals/{id}/decide opens its transaction.
BeginDecide(s, a, d) ==
  /\ tx[s].phase = "idle"
  /\ tx' = [tx EXCEPT ![s] = [Idle EXCEPT !.phase = "decide", !.decision = d, !.todo = {a}]]
  /\ UNCHANGED <<now, row, aborts, replays, authority, overlapped, lost>>

\* A POST to /approvals/bulk: every id of the payload in one transaction.
BeginBulk(s, A, d) ==
  /\ tx[s].phase = "idle"
  /\ tx' = [tx EXCEPT ![s] = [Idle EXCEPT !.phase = "bulk", !.decision = d, !.todo = A]]
  /\ UNCHANGED <<now, row, aborts, replays, authority, overlapped, lost>>

\* Mutants of the guards below.
DecidableIfFailed(a) == row[a].status \in {"pending", "failed"}

\* decide raises Conflict unless the row it read is pending.
Decidable(a) == row[a].status = "pending"

\* bulk_decide leaves high and critical rows to be approved one by one.
SkippedInBulk(s, a) ==
  /\ tx[s].phase = "bulk"
  /\ tx[s].decision = "approved"
  /\ row[a].risk \in {"high", "critical"}

\* The SELECT of decide and of each turn of bulk_decide's loop, with the
\* 404, the 409 and the skip, which all leave the row alone.
LookUp(s, a) ==
  /\ tx[s].phase \in {"decide", "bulk"}
  /\ a \in tx[s].todo
  /\ tx[s].read = {} /\ Unexecuted(s) = {}
  /\ LET taken == IF Decidable(a) /\ ~SkippedInBulk(s, a) THEN {a} ELSE {}
     IN /\ tx' = [tx EXCEPT ![s].todo = @ \ {a}, ![s].read = taken]
        /\ overlapped' = overlapped \cup Contended(s, taken)
  /\ UNCHANGED <<now, row, aborts, replays, authority, lost>>

\* Mutant of FirstWrite.
FirstWriteReopens(s) ==
  IF tx[s].decision = "changes_requested" THEN "pending" ELSE tx[s].decision

\* The status a row gets at the first flush.
FirstWrite(s) ==
  CASE tx[s].phase = "sweep"  -> "auto_approved"
    [] tx[s].phase = "expire" -> "expired"
    [] OTHER                  -> tx[s].decision

\* The UPDATE of the next row finds it locked and queues for the lock.
QueueForLock(s, a) ==
  /\ a \in tx[s].read
  /\ Unexecuted(s) = {}
  /\ tx[s].waits = {} /\ ~LockFree(s, a)
  /\ tx' = [tx EXCEPT ![s].waits = {a}]
  /\ UNCHANGED <<now, row, aborts, replays, authority, overlapped, lost>>

\* The UPDATE of a row read as pending, once its lock is granted: it writes
\* whatever the row has become in the meantime.
Flush(s, a) ==
  /\ a \in tx[s].read
  /\ Unexecuted(s) = {}
  /\ LockFree(s, a)
  /\ tx[s].waits = {a} \/ /\ tx[s].waits = {}
                          /\ \A t \in Sessions : a \notin tx[t].waits
  /\ tx' = [tx EXCEPT ![s].read = @ \ {a}, ![s].waits = {},
                      ![s].wrote[a] = FirstWrite(s)]
  /\ UNCHANGED <<now, row, aborts, replays, authority, overlapped, lost>>

\* execute: replay the stored action with the tool executor.  The session
\* read executed_at with the pending row, so it sees NULL.
Execute(s, a, ok) ==
  /\ a \in Unexecuted(s)
  /\ row[a].tool \/ ok
  /\ tx' = [tx EXCEPT ![s].wrote[a] = IF ok THEN "executed" ELSE "failed",
                      ![s].ran = @ \cup {a}]
  /\ IF row[a].tool
     THEN /\ replays' = [replays EXCEPT ![a] = IF @ < 2 THEN @ + 1 ELSE 2]
          /\ authority' = [authority EXCEPT ![a] = @ \cup {tx[s].phase}]
     ELSE UNCHANGED <<replays, authority>>
  /\ UNCHANGED <<now, row, aborts, overlapped, lost>>

\* Mutant of Stale.
StaleNever(s, a) == FALSE

\* sweep_auto_approvals: pending rows whose standing instruction has matured.
Due(a) ==
  /\ row[a].status = "pending"
  /\ row[a].autoAt # NoDelay
  /\ row[a].autoAt <= now

\* expire_stale: pending rows past expires_at, as the transaction sees them.
Stale(s, a) ==
  /\ row[a].status = "pending"
  /\ ~Locked(s, a)
  /\ row[a].expiresAt <= now

\* housekeeping opens its transaction with the SELECT of sweep_auto_approvals.
BeginSweep(s) ==
  /\ tx[s].phase = "idle"
  /\ LET due == {a \in ApprovalIds : Due(a)}
     IN \E A \in SUBSET due :
          /\ Cardinality(A) = IF Cardinality(due) < SweepLimit
                              THEN Cardinality(due) ELSE SweepLimit
          /\ tx' = [tx EXCEPT ![s] = [Idle EXCEPT !.phase = "sweep", !.read = A]]
          /\ overlapped' = overlapped \cup Contended(s, A)
  /\ UNCHANGED <<now, row, aborts, replays, authority, lost>>

\* expire_stale, in the same transaction, once the sweep is through.
SelectExpired(s) ==
  /\ tx[s].phase = "sweep"
  /\ tx[s].read = {} /\ Unexecuted(s) = {}
  /\ LET stale == {a \in ApprovalIds : Stale(s, a)}
     IN /\ tx' = [tx EXCEPT ![s].phase = "expire", ![s].read = stale]
        /\ overlapped' = overlapped \cup Contended(s, stale)
  /\ UNCHANGED <<now, row, aborts, replays, authority, lost>>

\* execute has stamped executed_at in this transaction.
ExecutedAt(s, a) == a \in tx[s].ran

\* session_scope commits: the written columns replace the committed ones.
Commit(s) ==
  /\ tx[s].phase \in {"decide", "bulk", "expire"}
  /\ tx[s].todo = {} /\ tx[s].read = {} /\ Unexecuted(s) = {}
  /\ row' = [a \in ApprovalIds |->
       IF Locked(s, a)
       THEN [row[a] EXCEPT !.status = tx[s].wrote[a],
                           !.executed = @ \/ ExecutedAt(s, a)]
       ELSE row[a]]
  /\ tx' = [tx EXCEPT ![s] = Idle]
  /\ UNCHANGED <<now, aborts, replays, authority, overlapped, lost>>

\* What a rollback does, whatever caused it.
Rollback(s) ==
  /\ tx' = [tx EXCEPT ![s] = Idle]
  /\ lost' = lost \cup {a \in tx[s].ran : row[a].tool}
  /\ UNCHANGED <<now, row, replays, authority, overlapped>>

\* The process dies, the connection drops or a statement raises.
Abort(s) ==
  /\ tx[s].phase # "idle"
  /\ aborts < MaxAborts
  /\ aborts' = aborts + 1
  /\ Rollback(s)

AllWait(C) == \A s \in C : \E t \in C, a \in tx[s].waits : Locked(t, a)

\* The database's deadlock detector picks a victim from a cycle of waits.
DeadlockAbort(s) ==
  /\ \E C \in SUBSET Sessions : s \in C /\ AllWait(C)
  /\ Rollback(s)
  /\ UNCHANGED aborts

Tick ==
  /\ now < MaxTime
  /\ now' = now + 1
  /\ UNCHANGED <<row, tx, aborts, replays, authority, overlapped, lost>>

-----------------------------------------------------------------------------
Api == Sessions \ Workers

Next ==
  \/ Tick
  \/ \E a \in ApprovalIds, k \in Kinds : Create(a, k)
  \/ \E s \in Api, a \in ApprovalIds, d \in Decisions : BeginDecide(s, a, d)
  \/ \E s \in Api, A \in SUBSET ApprovalIds, d \in Decisions : BeginBulk(s, A, d)
  \/ \E s \in Workers : BeginSweep(s)
  \/ \E s \in Workers : SelectExpired(s)
  \/ \E s \in Sessions, a \in ApprovalIds : LookUp(s, a)
  \/ \E s \in Sessions, a \in ApprovalIds : QueueForLock(s, a)
  \/ \E s \in Sessions, a \in ApprovalIds : Flush(s, a)
  \/ \E s \in Sessions, a \in ApprovalIds, ok \in BOOLEAN : Execute(s, a, ok)
  \/ \E s \in Sessions : Commit(s)
  \/ \E s \in Sessions : Abort(s)
  \/ \E s \in Sessions : DeadlockAbort(s)

Spec == Init /\ [][Next]_vars

\* An open transaction keeps going, the worker comes back every 15 cycles, time
\* passes, a released row lock goes to a transaction that waits for it, and the
\* database resolves deadlocks.  Nobody is obliged to file or decide anything.
Fairness ==
  /\ WF_vars(Tick)
  /\ \A s \in Workers : WF_vars(BeginSweep(s)) /\ WF_vars(SelectExpired(s))
  /\ \A s \in Sessions :
       /\ WF_vars(\E a \in ApprovalIds : LookUp(s, a))
       /\ WF_vars(\E a \in ApprovalIds : QueueForLock(s, a))
       /\ SF_vars(\E a \in ApprovalIds : Flush(s, a))
       /\ WF_vars(\E a \in ApprovalIds, ok \in BOOLEAN : Execute(s, a, ok))
       /\ WF_vars(Commit(s))
       /\ WF_vars(DeadlockAbort(s))

FairSpec == Spec /\ Fairness

-----------------------------------------------------------------------------
\* What the code does guarantee: the stored action runs a second time only if
\* two transactions had read the row as pending at the same time, or if a
\* transaction that had run it was rolled back.
ReplayedOnceUnlessRaced ==
  \A a \in ApprovalIds : replays[a] > 1 => a \in overlapped \cup lost

\* Barring the same two accidents the queue tells the truth: the action of a row
\* that was turned down, sent back or has expired was never run.
RefusedMeansUntouched ==
  \A a \in ApprovalIds :
    /\ row[a].status \in {"rejected", "changes_requested", "expired"}
    /\ a \notin overlapped \cup lost
    => replays[a] = 0

\* A committed executed_at stands for a replay that happened, races, crashes
\* and rollbacks notwithstanding.
RecordedMeansReplayed ==
  \A a \in ApprovalIds : row[a].executed /\ row[a].tool => replays[a] > 0

\* The sweep only acts on a standing instruction whose waiting period is over,
\* and the bulk endpoint never ships a high or critical change.
ReplayWasAuthorised ==
  \A a \in ApprovalIds :
    /\ "sweep" \in authority[a] => row[a].autoAt # NoDelay /\ row[a].autoAt <= now
    /\ "bulk" \in authority[a] => row[a].risk \notin {"high", "critical"}

\* No commit, however late, puts a decided approval back into the queue or
\* erases that its action ran; the columns policy set never change.
DecisionsStick ==
  [][\A a \in ApprovalIds : row[a].status # "absent" =>
       /\ row[a].status # "pending" => row'[a].status \notin {"pending", "absent"}
       /\ row[a].executed => row'[a].executed
       /\ row'[a].autoAt = row[a].autoAt]_vars

\* An approval nobody decides does not wait for ever: housekeeping auto-approves
\* or expires it, even with API transactions competing for its row.
EveryApprovalSettles ==
  \A a \in ApprovalIds : row[a].status = "pending" ~> row[a].status # "pending"
=============================================================================
