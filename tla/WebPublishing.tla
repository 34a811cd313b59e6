--------------------------- MODULE WebPublishing ---------------------------
(***************************************************************************)
(* Deciding and publishing one change of the web application: the approval *)
(* row, the decision route, and the publish route that reads the live      *)
(* page's value, writes the new one through WordPress, stores both as a    *)
(* publishes row and marks the approval (app/api/approvals,                *)
(* app/api/publish, server/wordpress.ts).                                  *)
(*                                                                         *)
(* Each handler is a request of WebAccounts and runs in the workspace its  *)
(* session is open in.  The site is connected and the change is not        *)
(* critical: the route's other refusals change nothing.                    *)
(***************************************************************************)
EXTENDS WebAccounts

VARIABLES
  approval,    \* the row: its status and its workspace
  live,        \* the value on the live page
  publishes,   \* the publishes rows: status and the value read before the write
  unrecorded   \* history: a publish ended after its write without its row

publishingVars == <<approval, live, publishes, unrecorded>>

\* The value before, the value of the change, and one written by hand.
Values == {"old", "new", "hand"}

PublishingInit ==
  /\ approval = [status |-> "none", org |-> 0]
  /\ live = "old"
  /\ publishes = {}
  /\ unrecorded = FALSE

\* Row(status, before): the row a publish stores.
Row(status, before) == [status |-> status, before |-> before]

\* POST approvals: a site of the session's workspace, queued as pending.
QueueApproval(w) ==
  /\ approval.status = "none" /\ w \in sessions /\ w \in sites
  /\ approval' = [status |-> "pending", org |-> w]
  /\ UNCHANGED <<req, live, publishes, unrecorded, begun>>

\* What a decision may say.
DECISIONS == {"approved", "skipped", "pending"}

\* The decision reads the row of its workspace and refuses a published one.
BeginDecide(q, w, decision) ==
  /\ req[q] = Free /\ w \in sessions
  /\ approval.status \notin {"none", "published"} /\ approval.org = w
  /\ begun < MaxRequests
  /\ begun' = begun + 1
  /\ req' = [req EXCEPT ![q] = [Free EXCEPT !.job = "decide", !.org = w, !.value = decision]]
  /\ UNCHANGED <<approval, live, publishes, unrecorded>>

\* It is written over whatever the row says by now.
WriteDecision(q) ==
  /\ req[q].job = "decide"
  /\ approval' = [approval EXCEPT !.status = req[q].value]
  /\ req' = [req EXCEPT ![q] = Free]
  /\ UNCHANGED <<live, publishes, unrecorded, begun>>

\* The publish reads an approved row of its workspace.
BeginPublish(q, w) ==
  /\ req[q] = Free /\ w \in sessions
  /\ approval.status = "approved" /\ approval.org = w
  /\ begun < MaxRequests
  /\ begun' = begun + 1
  /\ req' = [req EXCEPT ![q] = [Free EXCEPT !.job = "publish", !.pc = "read", !.org = w]]
  /\ UNCHANGED <<approval, live, publishes, unrecorded>>

\* A version that writes first and reads what it wrote.
ReadLiveAfter(q) ==
  /\ req[q].job = "publish" /\ req[q].pc = "read"
  /\ req' = [req EXCEPT ![q].pc = "write", ![q].value = "new"]
  /\ UNCHANGED <<approval, live, publishes, unrecorded, begun>>

\* The value the page has now.
ReadLive(q) ==
  /\ req[q].job = "publish" /\ req[q].pc = "read"
  /\ req' = [req EXCEPT ![q].pc = "write", ![q].value = live]
  /\ UNCHANGED <<approval, live, publishes, unrecorded, begun>>

\* WordPress takes the value and says so.
WriteLive(q) ==
  /\ req[q].job = "publish" /\ req[q].pc = "write"
  /\ live' = "new"
  /\ req' = [req EXCEPT ![q].pc = "row"]
  /\ UNCHANGED <<approval, publishes, unrecorded, begun>>

\* It refuses, or the site has no field for it, and then no value was read: a
\* row says so.
RefuseWrite(q, before) ==
  /\ req[q].job = "publish" /\ req[q].pc = "write"
  /\ before \in {req[q].value, "none"}
  /\ publishes' = publishes \cup {Row("refused", before)}
  /\ req' = [req EXCEPT ![q] = Free]
  /\ UNCHANGED <<approval, live, unrecorded, begun>>

\* The call throws, before or after the page was written: a failed row, with no value.
ThrowWrite(q, taken) ==
  /\ req[q].job = "publish" /\ req[q].pc = "write"
  /\ live' = IF taken THEN "new" ELSE live
  /\ unrecorded' = (unrecorded \/ taken)
  /\ publishes' = publishes \cup {Row("failed", "none")}
  /\ req' = [req EXCEPT ![q] = Free]
  /\ UNCHANGED <<approval, begun>>

\* The row with both values.
InsertPublish(q) ==
  /\ req[q].job = "publish" /\ req[q].pc = "row"
  /\ publishes' = publishes \cup {Row("published", req[q].value)}
  /\ req' = [req EXCEPT ![q].pc = "mark"]
  /\ UNCHANGED <<approval, live, unrecorded, begun>>

\* The approval is marked, whatever was decided meanwhile.
MarkPublished(q) ==
  /\ req[q].job = "publish" /\ req[q].pc = "mark"
  /\ approval' = [approval EXCEPT !.status = "published"]
  /\ req' = [req EXCEPT ![q] = Free]
  /\ UNCHANGED <<live, publishes, unrecorded, begun>>

\* Marking throws: the handler stores a second, failed row for the same change.
ThrowMark(q) ==
  /\ req[q].job = "publish" /\ req[q].pc = "mark"
  /\ publishes' = publishes \cup {Row("failed", "none")}
  /\ req' = [req EXCEPT ![q] = Free]
  /\ UNCHANGED <<approval, live, unrecorded, begun>>

\* The owner edits the page by hand.
EditLive ==
  /\ live = "new"
  /\ live' = "hand"
  /\ UNCHANGED <<req, approval, publishes, unrecorded, begun>>

PublishingStep ==
  \/ \E w \in Workspaces : QueueApproval(w)
  \/ \E q \in Requests, w \in Workspaces :
       \/ \E decision \in DECISIONS : BeginDecide(q, w, decision)
       \/ BeginPublish(q, w)
  \/ \E q \in Requests :
       \/ WriteDecision(q)
       \/ ReadLive(q)
       \/ WriteLive(q)
       \/ \E before \in Values \cup {"none"} : RefuseWrite(q, before)
       \/ \E taken \in BOOLEAN : ThrowWrite(q, taken)
       \/ InsertPublish(q)
       \/ MarkPublished(q)
       \/ ThrowMark(q)
  \/ EditLive
=============================================================================
