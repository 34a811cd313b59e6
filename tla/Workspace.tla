------------------------------ MODULE Workspace ------------------------------
(***************************************************************************)
(* The workspace a browser keeps (lib/store.ts), the runs and approvals in *)
(* it (lib/runner.ts, the approvals screen), and its copy in the account   *)
(* (lib/sync.ts, app/api/workspace/route.ts).  Every tab works on a copy   *)
(* it loaded once and writes the whole of it to the browser's storage at   *)
(* each update; a push sends the tab's whole copy with the revision the    *)
(* browser remembers, and the route compares, then writes, in two          *)
(* statements.                                                             *)
(***************************************************************************)
EXTENDS Integers, FiniteSets

CONSTANTS Tabs, Browsers,
          Findings,                    \* findings with a fix, by id
          Requests,                    \* pushes that may be in flight at once
          None,
          MaxUpdates, MaxPushes, MaxFaults

\* What the properties tell apart of a workspace with one site: whether the
\* site is there, the run each tab last started, and the approvals by finding.
RunStatus == {"none", "running", "ended"}
ApprovalStatus == {"none", "pending", "decided", "withdrawn"}
Content == [site : BOOLEAN, runs : [Tabs -> RunStatus],
            approvals : [Findings -> ApprovalStatus]]

ASSUME WorkspaceAssumption ==
  {MaxUpdates, MaxPushes, MaxFaults} \subseteq Nat /\ None \notin Content

EMPTY == [site |-> FALSE, runs |-> [t \in Tabs |-> "none"],
          approvals |-> [f \in Findings |-> "none"]]

\* A site whose first audit is done and whose findings wait for a decision.
Audited == [site |-> TRUE, runs |-> [t \in Tabs |-> "none"],
            approvals |-> [f \in Findings |-> "pending"]]

\* A person's decision, either way; a withdrawal, which the code writes as an
\* applied approval with a note, is the run's own doing.
Decided(w, f) == w.approvals[f] = "decided"

VARIABLES browserOf,  \* per tab: its browser, which never changes
          cache,      \* per tab: the copy it works on, None when it is closed
          storage,    \* per browser: localStorage's workspace
          revision,   \* per browser: localStorage's sync revision
          timer,      \* per tab: the debounced push is armed
          pulled,     \* per tab: its one pull and what GET /api/workspace answered
          running,    \* per tab: an audit is under way
          request,    \* per push in flight: its tab, body and progress
          account,    \* the row of workspaces: revision and payload
          behind,     \* history, per tab: another tab has written storage since it loaded
          mishaps,    \* history, per browser: it wrote over what it had not seen
                      \* ("overwrote"), or an update of it may not have arrived ("unsent")
          updates, pushes, faults

workspaceVars == <<browserOf, cache, storage, revision, timer, pulled, running, request,
                   account, behind, mishaps, updates, pushes, faults>>

Free == [at |-> "free"]
NotPulled == [at |-> "no"]

WorkspaceTypeOK ==
  /\ browserOf \in [Tabs -> Browsers]
  /\ cache \in [Tabs -> Content \cup {None}]
  /\ storage \in [Browsers -> Content]
  /\ revision \in [Browsers -> Nat]
  /\ timer \in [Tabs -> BOOLEAN] /\ running \in [Tabs -> BOOLEAN]
  /\ account.revision \in Nat /\ account.payload \in Content
  /\ updates \in 0..MaxUpdates /\ pushes \in 0..MaxPushes /\ faults \in 0..MaxFaults

\* Each browser is new or holds the copy of the account's first revision.
WorkspaceInit ==
  /\ browserOf \in [Tabs -> Browsers]
  /\ \E synced \in SUBSET Browsers :
       /\ storage = [b \in Browsers |-> IF b \in synced THEN Audited ELSE EMPTY]
       /\ revision = [b \in Browsers |-> IF b \in synced THEN 1 ELSE 0]
       /\ account = IF synced = {} THEN [revision |-> 0, payload |-> EMPTY]
                    ELSE [revision |-> 1, payload |-> Audited]
  /\ cache = [t \in Tabs |-> storage[browserOf[t]]]
  /\ timer = [t \in Tabs |-> FALSE]
  /\ pulled = [t \in Tabs |-> NotPulled]
  /\ running = [t \in Tabs |-> FALSE]
  /\ request = [q \in Requests |-> Free]
  /\ behind = [t \in Tabs |-> FALSE]
  /\ mishaps = [b \in Browsers |-> {}]
  /\ updates = 0 /\ pushes = 0 /\ faults = 0

Open(t) == cache[t] # None
Siblings(t) == {u \in Tabs : u # t /\ browserOf[u] = browserOf[t]}
Blame(t, what) == [mishaps EXCEPT ![browserOf[t]] = @ \cup what]

\* A tab opens and loads the browser's copy; signed in, it will pull once.
OpenTab(t) ==
  /\ ~Open(t)
  /\ cache' = [cache EXCEPT ![t] = storage[browserOf[t]]]
  /\ pulled' = [pulled EXCEPT ![t] = NotPulled]
  /\ behind' = [behind EXCEPT ![t] = FALSE]
  /\ UNCHANGED <<storage, revision, timer, running, request, account, mishaps, updates, faults, pushes>>

\* A tab closes: its timer and its audit die with it; a push already sent goes on.
CloseTab(t) ==
  /\ Open(t) /\ faults < MaxFaults
  /\ faults' = faults + 1
  /\ cache' = [cache EXCEPT ![t] = None]
  /\ timer' = [timer EXCEPT ![t] = FALSE]
  /\ running' = [running EXCEPT ![t] = FALSE]
  /\ pulled' = [pulled EXCEPT ![t] = NotPulled]
  /\ mishaps' = Blame(t, IF timer[t] \/ running[t] THEN {"unsent"} ELSE {})
  /\ request' = [q \in Requests |-> IF request[q] # Free /\ request[q].tab = t
                                   THEN [request[q] EXCEPT !.heard = FALSE] ELSE request[q]]
  /\ UNCHANGED <<storage, revision, account, behind, updates, pushes>>

\* pushWorkspace: the copy, with the revision the browser remembers.
Sent(t, w) == [at |-> "sent", tab |-> t, body |-> w, revision |-> revision[browserOf[t]],
               held |-> 0, heard |-> TRUE]
InFlight(b) == {q \in Requests : request[q] # Free /\ browserOf[request[q].tab] = b}
Overlap(t) == IF InFlight(browserOf[t]) # {} THEN {"unsent"} ELSE {}

\* save: the tab's copy is replaced and written whole, and the listeners arm
\* the push.
save(t, w) ==
  /\ cache' = [cache EXCEPT ![t] = w]
  /\ storage' = [storage EXCEPT ![browserOf[t]] = w]
  /\ timer' = [timer EXCEPT ![t] = TRUE]
  /\ behind' = [u \in Tabs |-> IF u = t THEN FALSE
                               ELSE behind[u] \/ (u \in Siblings(t) /\ Open(u))]

\* update: the copy is mutated and saved.
Update(t, w) ==
  /\ updates < MaxUpdates
  /\ updates' = updates + 1
  /\ save(t, w)

Stale(t) == IF behind[t] THEN {"overwrote"} ELSE {}

\* The form of the first run (and the workbench): the site is added and its
\* run is recorded and started.
AddSite(t) ==
  /\ Open(t) /\ ~cache[t].site /\ ~running[t]
  /\ Update(t, [cache[t] EXCEPT !.site = TRUE, !.runs[t] = "running"])
  /\ running' = [running EXCEPT ![t] = TRUE]
  /\ mishaps' = Blame(t, Stale(t))
  /\ UNCHANGED <<revision, pulled, request, account, faults, pushes>>

\* startRun from the dashboard, whose button is off while the copy shows any
\* run as running.
StartRun(t) ==
  /\ Open(t) /\ cache[t].site /\ ~running[t]
  /\ \A u \in Tabs : cache[t].runs[u] # "running"
  /\ Update(t, [cache[t] EXCEPT !.runs[t] = "running"])
  /\ running' = [running EXCEPT ![t] = TRUE]
  /\ mishaps' = Blame(t, Stale(t))
  /\ UNCHANGED <<revision, pulled, request, account, faults, pushes>>

\* Mutant: what was decided before is queued again.
AfterRunRequeueing(w, found) ==
  [f \in Findings |-> IF f \in found /\ w.approvals[f] # "pending" THEN "pending"
                      ELSE IF f \notin found /\ w.approvals[f] = "pending" THEN "withdrawn"
                      ELSE w.approvals[f]]

\* The queue a completed run leaves: a finding with no approval of any status
\* is queued, and one pending for a finding that is gone is withdrawn.
AfterRun(w, found) ==
  [f \in Findings |-> IF f \in found /\ w.approvals[f] = "none" THEN "pending"
                      ELSE IF f \notin found /\ w.approvals[f] = "pending" THEN "withdrawn"
                      ELSE w.approvals[f]]

\* The audit resolves: the run is recorded complete on the copy the tab holds
\* now, the queue is brought up to date, and the runner pushes the workspace
\* at once, besides the push the update arms.
CompleteRun(t, found, q) ==
  /\ Open(t) /\ running[t] /\ request[q] = Free /\ pushes < MaxPushes
  /\ pushes' = pushes + 1
  /\ \E w \in {[cache[t] EXCEPT !.runs[t] = IF @ = "none" THEN @ ELSE "ended",
                                 !.approvals = AfterRun(cache[t], found)]} :
       Update(t, w) /\ request' = [request EXCEPT ![q] = Sent(t, w)]
  /\ running' = [running EXCEPT ![t] = FALSE]
  /\ mishaps' = Blame(t, Stale(t) \cup Overlap(t))
  /\ UNCHANGED <<revision, pulled, account, faults>>

\* Mutant: a failed run is reported to the screen and not recorded.
FailRunUnrecorded(t) ==
  /\ Open(t) /\ running[t]
  /\ running' = [running EXCEPT ![t] = FALSE]
  /\ UNCHANGED <<cache, storage, revision, timer, pulled, request, account, behind, mishaps,
                 updates, faults, pushes>>

\* The audit throws, or was stopped.
FailRun(t) ==
  /\ Open(t) /\ running[t]
  /\ Update(t, [cache[t] EXCEPT !.runs[t] = IF @ = "none" THEN @ ELSE "ended"])
  /\ running' = [running EXCEPT ![t] = FALSE]
  /\ mishaps' = Blame(t, Stale(t))
  /\ UNCHANGED <<revision, pulled, request, account, faults, pushes>>

\* decide on the approvals screen; approving applies at once (applyApproval).
Decide(t, f) ==
  /\ Open(t) /\ cache[t].approvals[f] = "pending"
  /\ Update(t, [cache[t] EXCEPT !.approvals[f] = "decided"])
  /\ mishaps' = Blame(t, Stale(t))
  /\ UNCHANGED <<revision, pulled, running, request, account, faults, pushes>>

\* reset in settings: the browser's copy goes, and the listeners arm a push.
Reset(t) ==
  /\ Open(t) /\ ~running[t] /\ faults < MaxFaults
  /\ faults' = faults + 1
  /\ save(t, EMPTY)
  /\ mishaps' = Blame(t, {"overwrote"})
  /\ UNCHANGED <<revision, pulled, running, request, account, updates, pushes>>

-----------------------------------------------------------------------------
\* pullWorkspace, once per mount: the answer is read, and applied later.
ReadAccount(t) ==
  /\ Open(t) /\ pulled[t].at = "no"
  /\ pulled' = [pulled EXCEPT ![t] = [at |-> "read", revision |-> account.revision,
                                     payload |-> account.payload]]
  /\ UNCHANGED <<cache, storage, revision, timer, running, request, account, behind,
                 mishaps, updates, faults, pushes>>

\* A browser with sites of its own keeps them and remembers the account's
\* revision; an empty one takes the account's copy.
ApplyPull(t) ==
  /\ Open(t) /\ pulled[t].at = "read"
  /\ pulled' = [pulled EXCEPT ![t] = [at |-> "done"]]
  /\ LET got == pulled[t]
         b == browserOf[t]
     IN \/ /\ got.revision = 0
           /\ UNCHANGED <<cache, storage, revision, timer, behind, mishaps>>
        \/ /\ got.revision > 0 /\ cache[t].site
           /\ revision' = [revision EXCEPT ![b] = got.revision]
           /\ mishaps' = Blame(t, IF got.payload = cache[t] /\ storage[b] = cache[t] THEN {}
                                  ELSE {"overwrote"})
           /\ UNCHANGED <<cache, storage, timer, behind>>
        \/ /\ got.revision > 0 /\ ~cache[t].site
           /\ save(t, got.payload)
           /\ revision' = [revision EXCEPT ![b] = got.revision]
           /\ mishaps' = Blame(t, Stale(t))
  /\ UNCHANGED <<running, request, account, updates, faults, pushes>>

\* The debounced push: the tab's copy as it is now.
Push(t, q) ==
  /\ Open(t) /\ timer[t] /\ request[q] = Free /\ pushes < MaxPushes
  /\ pushes' = pushes + 1
  /\ timer' = [timer EXCEPT ![t] = FALSE]
  /\ request' = [request EXCEPT ![q] = Sent(t, cache[t])]
  /\ mishaps' = Blame(t, Stale(t) \cup Overlap(t))
  /\ UNCHANGED <<cache, storage, revision, pulled, running, account, behind, updates, faults>>

\* Mutant: a stale writer is let through.
SelectRevisionUnchecked(q) ==
  /\ request[q].at = "sent"
  /\ request' = [request EXCEPT ![q].at = "selected", ![q].held = account.revision]
  /\ UNCHANGED <<cache, storage, revision, timer, pulled, running, account, behind, mishaps,
                 updates, faults, pushes>>

\* PUT, first statement: the revision held is read and a stale writer refused.
SelectRevision(q) ==
  /\ request[q].at = "sent"
  /\ request' = [request EXCEPT
       ![q].at = IF request[q].revision < account.revision THEN "refused" ELSE "selected",
       ![q].held = account.revision]
  /\ UNCHANGED <<cache, storage, revision, timer, pulled, running, account, behind, mishaps,
                 updates, faults, pushes>>

\* PUT, second statement: the upsert, which looks at nothing.
WriteAccount(q) ==
  /\ request[q].at = "selected"
  /\ account' = [revision |-> request[q].held + 1, payload |-> request[q].body]
  /\ request' = [request EXCEPT ![q].at = "written"]
  /\ mishaps' = IF account.revision = request[q].held THEN mishaps
                ELSE [b \in Browsers |-> mishaps[b] \cup {"overwrote"}]
  /\ UNCHANGED <<cache, storage, revision, timer, pulled, running, behind, updates, faults, pushes>>

\* Mutant: the revision a refusal names is remembered.
AnswerPushAlways(q) ==
  /\ request[q].at \in {"written", "refused"}
  /\ revision' = [revision EXCEPT ![browserOf[request[q].tab]] =
                    IF request[q].at = "written" THEN request[q].held + 1 ELSE request[q].held]
  /\ request' = [request EXCEPT ![q] = Free]
  /\ UNCHANGED <<cache, storage, timer, pulled, running, account, behind, mishaps, updates,
                 faults, pushes>>

\* The answer: a revision to remember, or a refusal nobody acts on.
AnswerPush(q) ==
  /\ request[q].at \in {"written", "refused"}
  /\ revision' = IF request[q].at = "written" /\ request[q].heard
                 THEN [revision EXCEPT ![browserOf[request[q].tab]] = request[q].held + 1]
                 ELSE revision
  /\ request' = [request EXCEPT ![q] = Free]
  /\ UNCHANGED <<cache, storage, timer, pulled, running, account, behind, mishaps, updates,
                 faults, pushes>>

\* A push that is lost on the way, is too large, or whose answer is lost.
LosePush(q) ==
  /\ request[q].at \in {"sent", "written"} /\ faults < MaxFaults
  /\ faults' = faults + 1
  /\ request' = [request EXCEPT ![q] = Free]
  /\ mishaps' = Blame(request[q].tab, {"unsent"})
  /\ UNCHANGED <<cache, storage, revision, timer, pulled, running, account, behind, updates, pushes>>

WorkspaceNext ==
  \/ \E t \in Tabs : \/ OpenTab(t) \/ CloseTab(t) \/ AddSite(t) \/ StartRun(t) \/ FailRun(t)
                     \/ Reset(t) \/ ReadAccount(t) \/ ApplyPull(t)
                     \/ \E found \in SUBSET Findings, q \in Requests : CompleteRun(t, found, q)
                     \/ \E f \in Findings : Decide(t, f)
                     \/ \E q \in Requests : Push(t, q)
  \/ \E q \in Requests : SelectRevision(q) \/ WriteAccount(q) \/ AnswerPush(q) \/ LosePush(q)

WorkspaceSpec == WorkspaceInit /\ [][WorkspaceNext /\ UNCHANGED browserOf]_workspaceVars

-----------------------------------------------------------------------------
\* A person's decision leaves a browser's storage only in a reset there, or in
\* the write of a tab that loaded before a sibling wrote: a run that
\* completes, a pull and the other decisions all keep it.
DecisionsSurvive ==
  [][\A b \in Browsers, f \in Findings :
       (Decided(storage[b], f) /\ storage'[b].approvals[f] # storage[b].approvals[f])
         => \E t \in Tabs : /\ browserOf[t] = b /\ Open(t)
                            /\ behind[t] \/ cache'[t] = EMPTY]_workspaceVars

\* A decision leaves the account only by the push of a browser that chose its
\* own copy over the account's, that wrote from a tab that was behind, that
\* was reset, or that raced another between the route's two statements: the
\* revision check refuses every other writer that has not seen it.
AccountLossExplained ==
  [][\A f \in Findings :
       (Decided(account.payload, f) /\ ~Decided(account'.payload, f))
         => \E q \in Requests : /\ request[q].at = "selected" /\ request'[q].at = "written"
                                /\ "overwrote" \in mishaps'[browserOf[request[q].tab]]]_workspaceVars

\* A browser with nothing left to send, to which nothing untoward happened,
\* and that remembers the account's revision, holds the account's copy.
RevisionMeansContent ==
  \A b \in Browsers :
    (/\ mishaps[b] = {} /\ revision[b] = account.revision /\ InFlight(b) = {}
     /\ \A t \in Tabs : browserOf[t] = b => ~timer[t])
      => storage[b] = account.payload

\* A run the browser's storage shows as running has a tab that is running it,
\* unless that tab was closed under it or a stale tab brought the word back:
\* then nothing ever takes it away, and the dashboard offers no new run.
RunningHasATab ==
  \A b \in Browsers : \A t \in Tabs :
    (storage[b].runs[t] = "running" /\ mishaps[b] = {} /\ browserOf[t] = b)
      => Open(t) /\ running[t]
=============================================================================
