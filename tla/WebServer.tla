----------------------------- MODULE WebServer -----------------------------
(***************************************************************************)
(* The Worker of the web application: a few requests at a time, each a     *)
(* sign-in, a decision or a publish, over one database.  A publish needs   *)
(* an approval of the workspace of its session, which needs a site there,  *)
(* which the claim of a visitor's audit puts there at sign-in.             *)
(***************************************************************************)
EXTENDS WebPublishing

serverVars == <<req, accountVars, begun, deaths, publishingVars>>

ServerInit == AccountsInit /\ PublishingInit

\* A request dies where it stands: its Worker is ended or its database call throws.
Die(q) ==
  /\ req[q] # Free /\ deaths < MaxDeaths
  /\ deaths' = deaths + 1
  /\ unrecorded' = (unrecorded \/ (req[q].job = "publish" /\ req[q].pc = "row"))
  /\ req' = [req EXCEPT ![q] = Free]
  /\ UNCHANGED <<accountVars, approval, live, publishes, begun>>

ServerNext ==
  \/ AccountsStep /\ UNCHANGED publishingVars
  \/ PublishingStep /\ UNCHANGED <<accountVars, deaths>>
  \/ \E q \in Requests : Die(q)

ServerSpec == ServerInit /\ [][ServerNext]_serverVars

(***************************************************************************)
(* Properties.                                                             *)
(***************************************************************************)
(***************************************************************************)
(* The browser keeps the claim on a visitor's audit until the audit is in  *)
(* a workspace or swept, whichever request dies at whichever statement,    *)
(* except for three ways in which the code throws the claim away: a later  *)
(* audit replaces the cookie, a sign-in carrying an older claim clears the *)
(* cookie of a newer one, and a claim given up because its site was        *)
(* inserted by a concurrent sign-in clears it too (claimRuns, the two      *)
(* sign-in callbacks, POST runs).                                          *)
(***************************************************************************)
RunsStayClaimable == \A r \in Runs : run[r] = Anonymous => r = cookie \/ r \in stranded

(***************************************************************************)
(* Sign-ins that do not overlap share one workspace, even when one of them *)
(* dies between the person's row and the membership: there is never a      *)
(* second workspace, and every session and every stored audit is in the    *)
(* first (upsertUser, createOrg).                                          *)
(***************************************************************************)
WorkspaceIsOne ==
  ~overlapped => /\ workspaces <= 1
                 /\ sessions \subseteq {1}
                 /\ \A r \in Runs : run[r] > 0 => run[r] = 1

(***************************************************************************)
(* Every published change can be undone: while the page shows the new      *)
(* value and no publish is under way, a publishes row holds the value to   *)
(* put back, however often and however concurrently the change was         *)
(* published and re-decided, unless a publish ended between its write and  *)
(* its row.  After that a retry records the new value as the one before    *)
(* (publish in server/wordpress.ts, POST in app/api/publish/route.ts).     *)
(***************************************************************************)
UndoIsRecorded ==
  live = "new" /\ (\A q \in Requests : req[q].job # "publish") /\ ~unrecorded =>
    \E row \in publishes : row.status = "published" /\ row.before # "new"
=============================================================================
