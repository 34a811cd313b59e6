---------------------------- MODULE WebAccounts ----------------------------
(***************************************************************************)
(* Signing in to the web application: the audits a visitor ran before      *)
(* having an account, the sign-in links and Google trips that carry the    *)
(* claim on them, the person's row and workspace (server/session.ts), and  *)
(* the move of the audits into that workspace (server/runs.ts).            *)
(*                                                                         *)
(* One person and one browser.  Every statement commits on its own; a      *)
(* request is a process that takes one statement at a time and may die     *)
(* between any two.                                                        *)
(***************************************************************************)
EXTENDS Integers, FiniteSets

CONSTANTS
  Requests,       \* requests the Worker serves at the same time
  Runs,           \* stored audits; each anonymous one has a claim token of its own
  Trips,          \* sign-in links mailed and trips to Google begun
  None,           \* no audit, no trip
  MaxWorkspaces,  \* workspaces created
  MaxRequests,    \* requests begun
  MaxDeaths       \* requests that die under way

ASSUME AccountsAssumption ==
  /\ None \notin Runs \cup Trips
  /\ MaxWorkspaces \in Nat \ {0} /\ MaxRequests \in Nat /\ MaxDeaths \in Nat

VARIABLES
  req,         \* the requests being served
  user,        \* whether the person's row exists
  workspaces,  \* the person's memberships, numbered in the order of their creation
  sessions,    \* the workspaces sessions are open in
  run,         \* where each audit is: a workspace or one of the places below
  sites,       \* the workspaces that have the audited site
  trip,        \* each link or trip: its status, its kind and the claim it carries
  cookie,      \* the claim cookie of the browser
  stranded,    \* history: audits whose claim was thrown away
  overlapped,  \* history: two sign-ins were under way together
  begun,       \* requests begun
  deaths       \* requests that have died

accountVars == <<user, workspaces, sessions, run, sites, trip, cookie, stranded, overlapped>>

Unsaved == -1
Anonymous == 0
Swept == -2
Workspaces == 1..MaxWorkspaces

\* A request's registers; the publishing handlers use the last two.
Free == [job |-> "none", pc |-> "none", claim |-> None, trip |-> None, org |-> 0, value |-> "none"]

\* A trip not begun, and one whose row is gone.
NoTrip(status) == [status |-> status, kind |-> "email", claim |-> None]

SigningIn == {q \in Requests : req[q].job = "signin"}

AccountsInit ==
  /\ req = [q \in Requests |-> Free]
  /\ user = FALSE
  /\ workspaces = 0
  /\ sessions = {}
  /\ run = [r \in Runs |-> Unsaved]
  /\ sites = {}
  /\ trip = [t \in Trips |-> NoTrip("unsent")]
  /\ cookie = None
  /\ stranded = {}
  /\ overlapped = FALSE
  /\ begun = 0
  /\ deaths = 0

Goto(q, pc) == req' = [req EXCEPT ![q].pc = pc]

(***************************************************************************)
(* Before the sign-in.                                                     *)
(***************************************************************************)
\* A visitor's audit is saved; its claim replaces the one the cookie held.
SaveAnonymous(r) ==
  /\ run[r] = Unsaved /\ sessions = {}
  /\ run' = [run EXCEPT ![r] = Anonymous]
  /\ cookie' = r
  /\ stranded' = stranded \cup {s \in Runs : s = cookie /\ run[s] = Anonymous}
  /\ UNCHANGED <<req, user, workspaces, sessions, sites, trip, overlapped, begun, deaths>>

\* An audit of somebody signed in goes to the workspace of the session.
SaveOwned(r, w) ==
  /\ run[r] = Unsaved /\ w \in sessions
  /\ sites' = sites \cup {w}
  /\ run' = [run EXCEPT ![r] = w]
  /\ UNCHANGED <<req, user, workspaces, sessions, trip, cookie, stranded, overlapped, begun, deaths>>

\* A link is mailed, or the browser leaves for Google: the cookie goes with it.
SetOut(t, kind) ==
  /\ trip[t].status = "unsent"
  /\ trip' = [trip EXCEPT ![t] = [status |-> "open", kind |-> kind, claim |-> cookie]]
  /\ UNCHANGED <<req, user, workspaces, sessions, run, sites, cookie, stranded, overlapped,
                 begun, deaths>>

(***************************************************************************)
(* The sign-in.                                                            *)
(***************************************************************************)
\* The token is looked up.
Arrive(q, t) ==
  /\ req[q] = Free /\ trip[t].status = "open"
  /\ req' = [req EXCEPT ![q] = [Free EXCEPT !.job = "signin", !.pc = "spend", !.trip = t,
               !.claim = IF trip[t].kind = "google" /\ trip[t].claim = None
                         THEN cookie ELSE trip[t].claim]]
  /\ begun < MaxRequests
  /\ begun' = begun + 1
  /\ overlapped' = (overlapped \/ SigningIn # {})
  /\ UNCHANGED <<user, workspaces, sessions, run, sites, trip, cookie, stranded, deaths>>

\* It is deleted, whoever else has read it; one that is too old ends here.
Spend(q, late) ==
  /\ req[q].job = "signin" /\ req[q].pc = "spend"
  /\ trip' = [trip EXCEPT ![req[q].trip] = NoTrip("spent")]
  /\ req' = [req EXCEPT ![q] = IF late THEN Free ELSE [@ EXCEPT !.pc = "find", !.trip = None]]
  /\ UNCHANGED <<user, workspaces, sessions, run, sites, cookie, stranded, overlapped, begun, deaths>>

FindUser(q) ==
  /\ req[q].job = "signin" /\ req[q].pc = "find"
  /\ Goto(q, IF user THEN "membership" ELSE "user")
  /\ UNCHANGED <<accountVars, begun, deaths>>

\* The address is unique: of two inserts the second throws and the sign-in fails.
InsertUser(q) ==
  /\ req[q].job = "signin" /\ req[q].pc = "user"
  /\ user' = TRUE
  /\ req' = [req EXCEPT ![q] = IF user THEN Free ELSE [@ EXCEPT !.pc = "workspace"]]
  /\ UNCHANGED <<workspaces, sessions, run, sites, trip, cookie, stranded, overlapped, begun, deaths>>

\* A version that makes a workspace for a person found without looking for one.
FindMembershipNever(q) ==
  /\ req[q].job = "signin" /\ req[q].pc = "membership"
  /\ Goto(q, "workspace")
  /\ UNCHANGED <<accountVars, begun, deaths>>

\* The oldest membership, or none when an earlier sign-in died before making it.
FindMembership(q) ==
  /\ req[q].job = "signin" /\ req[q].pc = "membership"
  /\ req' = [req EXCEPT ![q].pc = IF workspaces > 0 THEN "session" ELSE "workspace",
                        ![q].org = IF workspaces > 0 THEN 1 ELSE 0]
  /\ UNCHANGED <<accountVars, begun, deaths>>

\* The workspace and then its membership; alone, the workspace is nobody's.
CreateOrg(q) ==
  /\ req[q].job = "signin" /\ req[q].pc = "workspace"
  /\ workspaces < MaxWorkspaces
  /\ workspaces' = workspaces + 1
  /\ req' = [req EXCEPT ![q].pc = "session", ![q].org = workspaces + 1]
  /\ UNCHANGED <<user, sessions, run, sites, trip, cookie, stranded, overlapped, begun, deaths>>

\* A version that clears the claim cookie as soon as there is a session.
CreateSessionClearing(q) ==
  /\ req[q].job = "signin" /\ req[q].pc = "session"
  /\ sessions' = sessions \cup {req[q].org}
  /\ cookie' = None
  /\ Goto(q, IF req[q].claim = None THEN "respond" ELSE "claim")
  /\ UNCHANGED <<user, workspaces, run, sites, trip, stranded, overlapped, begun, deaths>>

\* A session of the workspace found or made.
CreateSession(q) ==
  /\ req[q].job = "signin" /\ req[q].pc = "session"
  /\ sessions' = sessions \cup {req[q].org}
  /\ Goto(q, IF req[q].claim = None THEN "respond" ELSE "claim")
  /\ UNCHANGED <<user, workspaces, run, sites, trip, cookie, stranded, overlapped, begun, deaths>>

\* claimRuns: the audit of the claim, if nobody has it yet.
SelectRun(q) ==
  /\ req[q].job = "signin" /\ req[q].pc = "claim"
  /\ Goto(q, IF run[req[q].claim] = Anonymous THEN "site" ELSE "respond")
  /\ UNCHANGED <<accountVars, begun, deaths>>

\* ensureSite: found, or to be inserted.
FindSite(q) ==
  /\ req[q].job = "signin" /\ req[q].pc = "site"
  /\ Goto(q, IF req[q].org \in sites THEN "move" ELSE "newsite")
  /\ UNCHANGED <<accountVars, begun, deaths>>

\* A site is unique in its workspace: a second insert throws and the claim is given up.
InsertSite(q) ==
  /\ req[q].job = "signin" /\ req[q].pc = "newsite"
  /\ sites' = sites \cup {req[q].org}
  /\ Goto(q, IF req[q].org \in sites THEN "respond" ELSE "move")
  /\ stranded' = IF req[q].org \in sites THEN stranded \cup {req[q].claim} ELSE stranded
  /\ UNCHANGED <<user, workspaces, sessions, run, trip, cookie, overlapped, begun, deaths>>

\* The audit moves, wherever it is by now, unless it has been swept.
MoveRun(q) ==
  /\ req[q].job = "signin" /\ req[q].pc = "move"
  /\ run' = [run EXCEPT ![req[q].claim] = IF @ = Swept THEN Swept ELSE req[q].org]
  /\ Goto(q, "respond")
  /\ UNCHANGED <<user, workspaces, sessions, sites, trip, cookie, stranded, overlapped, begun, deaths>>

\* What has aged is swept, and the answer clears the cookie, whatever it now
\* holds, when there was a claim.
Respond(q, aged) ==
  /\ req[q].job = "signin" /\ req[q].pc = "respond"
  /\ run' = [r \in Runs |-> IF r \in aged /\ run[r] = Anonymous THEN Swept ELSE run[r]]
  /\ cookie' = IF req[q].claim # None \/ cookie \in aged THEN None ELSE cookie
  /\ stranded' = IF req[q].claim # None
                 THEN stranded \cup {r \in Runs : r = cookie /\ r # req[q].claim /\ run[r] = Anonymous}
                 ELSE stranded
  /\ req' = [req EXCEPT ![q] = Free]
  /\ UNCHANGED <<user, workspaces, sessions, sites, trip, overlapped, begun, deaths>>

SignOut(w) ==
  /\ w \in sessions
  /\ sessions' = sessions \ {w}
  /\ UNCHANGED <<req, user, workspaces, run, sites, trip, cookie, stranded, overlapped, begun, deaths>>

AccountsStep ==
  \/ \E r \in Runs : SaveAnonymous(r) \/ \E w \in Workspaces : SaveOwned(r, w)
  \/ \E t \in Trips, kind \in {"email", "google"} : SetOut(t, kind)
  \/ \E q \in Requests, t \in Trips : Arrive(q, t)
  \/ \E q \in Requests :
       \/ \E late \in BOOLEAN : Spend(q, late)
       \/ FindUser(q)
       \/ InsertUser(q)
       \/ FindMembership(q)
       \/ CreateOrg(q)
       \/ CreateSession(q)
       \/ SelectRun(q)
       \/ FindSite(q)
       \/ InsertSite(q)
       \/ MoveRun(q)
       \/ \E aged \in SUBSET Runs : Respond(q, aged)
  \/ \E w \in Workspaces : SignOut(w)
=============================================================================
