--------------------------- MODULE WebServerProofs ---------------------------
(***************************************************************************)
(* Proofs about WebServer, for any number of requests, audits, sign-ins,   *)
(* workspaces and deaths: the claim on an audit is kept, sign-ins that do  *)
(* not overlap share one workspace, and a published change can be undone.  *)
(*                                                                         *)
(* Three invariants, each inductive given the first: Typed follows what a  *)
(* sign-in knows at each of its statements, Alone what it knows while no   *)
(* other is under way, Undoable where the value to put back is while the   *)
(* new one is on the page or about to be written.                          *)
(*                                                                         *)
(* The second part is about Billing, whose webhook the same server         *)
(* answers: deliveries that neither overlapped nor overtook one another    *)
(* leave the workspace on the plan of the provider's latest word.  The     *)
(* third is about CronSchedules, the schedules it serves.                  *)
(***************************************************************************)
EXTENDS WebServer, Billing, CronSchedules, TLAPS

-----------------------------------------------------------------------------
(***************************************************************************)
(* What a sign-in knows.                                                   *)
(***************************************************************************)
Late == {"session", "claim", "site", "newsite", "move", "respond"}
Claiming == {"claim", "site", "newsite", "move"}

Request ==
  [job : {"none", "signin", "decide", "publish"},
   pc : {"none", "spend", "find", "user", "membership", "workspace", "read", "write", "row", "mark"}
        \cup Late,
   claim : Runs \cup {None}, trip : Trips \cup {None}, org : 0..MaxWorkspaces,
   value : Values \cup DECISIONS \cup {"none"}]

Journey == [status : {"unsent", "open", "spent"}, kind : {"email", "google"},
            claim : Runs \cup {None}]

\* ClaimSaved(c, places): a claim is on an audit that was saved.
ClaimSaved(c, places) == c # None => places[c] # Unsaved

\* Knows(c, known, places, lost): a request c, when the person's row exists or
\* not, the audits are where places says and the claims lost are thrown away.
Knows(c, known, places, lost) ==
  /\ c.job # "signin" => c.claim = None
  /\ ClaimSaved(c.claim, places)
  /\ c.job = "signin" =>
       /\ c.pc = "spend" => c.trip # None
       /\ c.pc \in Late \cup {"membership", "workspace"} => known
       /\ c.pc \in Late => c.org > 0
       /\ c.pc \in Claiming => c.claim # None
       /\ c.pc = "respond" /\ c.claim # None =>
            places[c.claim] # Anonymous \/ c.claim \in lost

Typed ==
  /\ req \in [Requests -> Request]
  /\ user \in BOOLEAN
  /\ workspaces \in 0..MaxWorkspaces /\ (workspaces > 0 => user)
  /\ sessions \subseteq Workspaces
  /\ run \in [Runs -> {Unsaved, Anonymous, Swept} \cup Workspaces]
  /\ trip \in [Trips -> Journey]
  /\ cookie \in Runs \cup {None}
  /\ stranded \subseteq Runs
  /\ ClaimSaved(cookie, run)
  /\ \A t \in Trips : ClaimSaved(trip[t].claim, run)
  /\ \A q \in Requests : Knows(req[q], user, run, stranded)
  /\ RunsStayClaimable

\* A request not begun.
LEMMA FreeIs == Free \in Request /\ Free.job = "none" /\ Free.claim = None /\ Free.org = 0
<1>1. 0 \in 0..MaxWorkspaces
  BY AccountsAssumption
<1> QED BY <1>1 DEF Free, Request

\* The initial states satisfy Typed.
LEMMA InitTyped == ServerInit => Typed
<1> SUFFICES ASSUME ServerInit PROVE Typed
  OBVIOUS
<1> USE AccountsAssumption DEF ServerInit, AccountsInit
<1>1. Free \in Request /\ Free.job = "none" /\ Free.claim = None
  BY FreeIs
<1>2. req \in [Requests -> Request]
  BY <1>1
<1>3. NoTrip("unsent") \in Journey /\ NoTrip("unsent").claim = None
  BY DEF NoTrip, Journey
<1>4. trip \in [Trips -> Journey] /\ \A t \in Trips : ClaimSaved(trip[t].claim, run)
  BY <1>3 DEF ClaimSaved
<1>5. \A q \in Requests : Knows(req[q], user, run, stranded)
  BY <1>1 DEF Knows, ClaimSaved
<1>6. run \in [Runs -> {Unsaved, Anonymous, Swept} \cup Workspaces] /\ RunsStayClaimable
  BY DEF Unsaved, Anonymous, RunsStayClaimable
<1>7. user \in BOOLEAN
  OBVIOUS
<1>8. workspaces \in 0..MaxWorkspaces /\ ~(workspaces > 0)
  OBVIOUS
<1>9. sessions \subseteq Workspaces /\ stranded \subseteq Runs
  OBVIOUS
<1>10. cookie \in Runs \cup {None} /\ ClaimSaved(cookie, run)
  BY DEF ClaimSaved
<1> QED BY <1>2, <1>4, <1>5, <1>6, <1>7, <1>8, <1>9, <1>10 DEF Typed

\* What a request knows it goes on knowing: the person's row stays, no audit
\* becomes unsaved or anonymous again, no thrown-away claim comes back.
Onward ==
  /\ user => user'
  /\ \A r \in Runs : /\ run[r] # Unsaved => run'[r] # Unsaved
                     /\ run[r] \notin {Unsaved, Anonymous} => run'[r] # Anonymous
  /\ stranded \subseteq stranded'

\* What a request knows stays true as long as things only move onward.
LEMMA KnowsOnward ==
  ASSUME Onward, NEW c \in Request, Knows(c, user, run, stranded)
  PROVE  Knows(c, user', run', stranded')
BY AccountsAssumption DEF Onward, Knows, ClaimSaved, Request

\* A step of one request, or of none.
OneStep(q, c) ==
  /\ req' = [req EXCEPT ![q] = c] /\ c \in Request
  /\ Knows(c, user', run', stranded')

\* What is left to show of a step.
Rest ==
  /\ user' \in BOOLEAN
  /\ workspaces' \in 0..MaxWorkspaces /\ (workspaces' > 0 => user')
  /\ sessions' \subseteq Workspaces
  /\ run' \in [Runs -> {Unsaved, Anonymous, Swept} \cup Workspaces]
  /\ trip' \in [Trips -> Journey]
  /\ cookie' \in Runs \cup {None}
  /\ stranded' \subseteq Runs
  /\ ClaimSaved(cookie', run')
  /\ \A t \in Trips : ClaimSaved(trip'[t].claim, run')
  /\ \A r \in Runs : run'[r] = Anonymous => r = cookie' \/ r \in stranded'

\* A step of one request that moves things onward keeps what the others know.
LEMMA StepIsTyped ==
  ASSUME Typed, Onward, Rest,
         UNCHANGED req \/ \E q \in Requests, c \in Request : OneStep(q, c)
  PROVE  Typed'
<1>1. CASE UNCHANGED req
  <2>1. \A q \in Requests : Knows(req'[q], user', run', stranded')
    BY <1>1, KnowsOnward DEF Typed
  <2> QED BY <1>1, <2>1 DEF Typed, Rest, RunsStayClaimable
<1>2. ASSUME NEW q \in Requests, NEW c \in Request, OneStep(q, c)
      PROVE  Typed'
  <2>1. req' \in [Requests -> Request]
    BY <1>2 DEF OneStep, Typed
  <2>2. \A s \in Requests : Knows(req'[s], user', run', stranded')
    BY <1>2, KnowsOnward DEF OneStep, Typed
  <2> QED BY <2>1, <2>2 DEF Typed, Rest, RunsStayClaimable
<1> QED BY <1>1, <1>2

-----------------------------------------------------------------------------
(***************************************************************************)
(* The statements of a sign-in.                                            *)
(***************************************************************************)
\* What every step may assume of the places of audits.
LEMMA Places ==
  /\ Unsaved \notin Workspaces /\ Anonymous \notin Workspaces /\ Swept \notin Workspaces
  /\ Unsaved # Anonymous /\ Unsaved # Swept /\ Swept # Anonymous
  /\ Workspaces = {n \in 0..MaxWorkspaces : n > 0}
  /\ None \notin Runs /\ None \notin Trips
BY AccountsAssumption DEF Unsaved, Anonymous, Swept, Workspaces

\* An audit saved anonymously belongs to nobody.
LEMMA SaveAnonymousTyped ==
  ASSUME Typed, NEW r \in Runs, SaveAnonymous(r)
  PROVE  Typed'
<1>1. Onward
  BY Places DEF Onward, SaveAnonymous, Typed
<1>2. Rest
  BY Places DEF Rest, SaveAnonymous, Typed, ClaimSaved, RunsStayClaimable, Journey
<1> QED BY <1>1, <1>2, StepIsTyped DEF SaveAnonymous

\* An audit saved by an owner belongs to a workspace that is there.
LEMMA SaveOwnedTyped ==
  ASSUME Typed, NEW r \in Runs, NEW w \in Workspaces, SaveOwned(r, w)
  PROVE  Typed'
<1>1. Onward
  BY Places DEF Onward, SaveOwned, Typed
<1>2. Rest
  BY Places DEF Rest, SaveOwned, Typed, ClaimSaved, RunsStayClaimable, Journey
<1> QED BY <1>1, <1>2, StepIsTyped DEF SaveOwned

\* A link or a trip carries the claim of an audit, or none.
LEMMA SetOutTyped ==
  ASSUME Typed, NEW t \in Trips, NEW kind \in {"email", "google"}, SetOut(t, kind)
  PROVE  Typed'
<1>1. Onward
  BY Places DEF Onward, SetOut, Typed
<1>2. Rest
  BY Places DEF Rest, SetOut, Typed, ClaimSaved, RunsStayClaimable, Journey
<1> QED BY <1>1, <1>2, StepIsTyped DEF SetOut

\* A sign-in begins with the claim of its trip.
LEMMA ArriveTyped ==
  ASSUME Typed, NEW q \in Requests, NEW t \in Trips, Arrive(q, t)
  PROVE  Typed'
<1> DEFINE claim == IF trip[t].kind = "google" /\ trip[t].claim = None
                    THEN cookie ELSE trip[t].claim
           c == [Free EXCEPT !.job = "signin", !.pc = "spend", !.trip = t, !.claim = claim]
<1>1. Onward
  BY DEF Onward, Arrive
<1>2. Rest
  BY DEF Rest, Arrive, Typed, RunsStayClaimable
<1>3. claim \in Runs \cup {None} /\ ClaimSaved(claim, run)
  <2>1. trip[t] \in Journey
    BY DEF Typed
  <2>2. trip[t].claim \in Runs \cup {None} /\ ClaimSaved(trip[t].claim, run)
    BY <2>1 DEF Typed, Journey
  <2>3. cookie \in Runs \cup {None} /\ ClaimSaved(cookie, run)
    BY DEF Typed
  <2> QED BY <2>2, <2>3
<1>4. /\ req' = [req EXCEPT ![q] = c] /\ UNCHANGED <<user, run, stranded>>
  BY DEF Arrive
<1> HIDE DEF claim
<1>5. c \in Request
  BY <1>3, FreeIs DEF Request
<1>6. c.job = "signin" /\ c.pc = "spend" /\ c.claim = claim /\ c.trip = t
  BY FreeIs DEF Request
<1> HIDE DEF c
<1>7. Knows(c, user, run, stranded)
  BY <1>3, <1>6, Places DEF Knows, Late, Claiming
<1>8. OneStep(q, c)
  BY <1>4, <1>5, <1>7 DEF OneStep
<1> QED BY <1>1, <1>2, <1>5, <1>8, StepIsTyped

\* The facts about one request's registers.
LEMMA Registers ==
  ASSUME Typed, NEW q \in Requests
  PROVE  /\ req[q] \in Request
         /\ Knows(req[q], user, run, stranded)
BY DEF Typed, Request

\* A request that is over knows nothing.
LEMMA FreeKnows ==
  ASSUME NEW known, NEW places, NEW lost
  PROVE  Knows(Free, known, places, lost)
BY FreeIs DEF Knows, ClaimSaved

\* A sign-in that moves on to the registers c.
LEMMA SignInTyped ==
  ASSUME Typed, Onward, Rest, NEW q \in Requests, NEW c \in Request,
         req' = [req EXCEPT ![q] = c], req[q].job = "signin", c.job = "signin",
         c.claim = req[q].claim, c.pc # "spend",
         c.pc \in Late \cup {"membership", "workspace"} => user',
         c.pc \in Late => c.org > 0,
         c.pc \in Claiming => c.claim # None,
         c.pc = "respond" /\ c.claim # None =>
           run'[c.claim] # Anonymous \/ c.claim \in stranded'
  PROVE  Typed'
<1>1. ClaimSaved(c.claim, run')
  BY Registers DEF Knows, ClaimSaved, Onward, Request
<1>2. Knows(c, user', run', stranded')
  BY <1>1 DEF Knows
<1>3. OneStep(q, c)
  BY <1>2 DEF OneStep
<1> QED BY <1>3, StepIsTyped

\* One that moves on to pc, leaving the database as it was.
LEMMA GotoTyped ==
  ASSUME Typed, NEW q \in Requests, NEW pc \in {"user"} \cup Late \cup {"membership", "workspace"},
         req[q].job = "signin", Goto(q, pc), UNCHANGED accountVars,
         pc # "user" => user,
         pc \in Late => req[q].org > 0,
         pc \in Claiming => req[q].claim # None,
         pc = "respond" /\ req[q].claim # None => run[req[q].claim] # Anonymous
  PROVE  Typed'
<1> DEFINE c == [req[q] EXCEPT !.pc = pc]
<1>0. UNCHANGED <<user, workspaces, sessions, run, sites, trip, cookie, stranded>>
  BY DEF accountVars
<1>1. Onward
  BY <1>0 DEF Onward
<1>2. Rest
  BY <1>0 DEF Rest, Typed, RunsStayClaimable
<1>3. req' = [req EXCEPT ![q] = c]
  BY DEF Goto
<1>4. c \in Request
  BY Registers DEF Request
<1>5. /\ c.job = "signin" /\ c.pc = pc /\ c.claim = req[q].claim /\ c.org = req[q].org
      /\ pc # "spend"
  BY Registers DEF Late, Request
<1>6. pc \in Late \cup {"membership", "workspace"} => user
  BY DEF Late
<1> HIDE DEF c
<1> QED BY <1>0, <1>1, <1>2, <1>3, <1>4, <1>5, <1>6, SignInTyped

\* What a sign-in knows at one of its statements.
LEMMA AtStatement ==
  ASSUME Typed, NEW q \in Requests, req[q].job = "signin"
  PROVE  /\ req[q].pc = "spend" => req[q].trip \in Trips
         /\ req[q].pc \in Late \cup {"membership", "workspace"} => user
         /\ req[q].pc \in Late => req[q].org \in Workspaces /\ req[q].org > 0
         /\ req[q].pc \in Claiming => req[q].claim \in Runs /\ req[q].claim # None
         /\ req[q].claim \in Runs \cup {None}
         /\ ClaimSaved(req[q].claim, run)
         /\ req[q].pc = "respond" /\ req[q].claim # None =>
              run[req[q].claim] # Anonymous \/ req[q].claim \in stranded
BY Registers, Places DEF Knows, Request

\* It learns that the user is there only if it is.
LEMMA FindUserTyped ==
  ASSUME Typed, NEW q \in Requests, FindUser(q)
  PROVE  Typed'
<1>1. CASE user
  BY <1>1, GotoTyped DEF FindUser, Late, Claiming
<1>2. CASE ~user
  BY <1>2, GotoTyped DEF FindUser, Late, Claiming
<1> QED BY <1>1, <1>2

\* It reads the audit that its claim names.
LEMMA SelectRunTyped ==
  ASSUME Typed, NEW q \in Requests, SelectRun(q)
  PROVE  Typed'
<1>1. /\ req[q].job = "signin" /\ UNCHANGED accountVars
      /\ user /\ req[q].org > 0 /\ req[q].claim # None
  BY AtStatement DEF SelectRun, Late, Claiming
<1>2. CASE run[req[q].claim] = Anonymous
  <2>1. Goto(q, "site")
    BY <1>2 DEF SelectRun
  <2> QED BY <1>1, <2>1, GotoTyped DEF Late
<1>3. CASE run[req[q].claim] # Anonymous
  <2>1. Goto(q, "respond")
    BY <1>3 DEF SelectRun
  <2> QED BY <1>1, <1>3, <2>1, GotoTyped DEF Late
<1> QED BY <1>2, <1>3

\* It learns that the site is there only if it is.
LEMMA FindSiteTyped ==
  ASSUME Typed, NEW q \in Requests, FindSite(q)
  PROVE  Typed'
<1>1. /\ req[q].job = "signin" /\ UNCHANGED accountVars
      /\ user /\ req[q].org > 0 /\ req[q].claim # None
  BY AtStatement DEF FindSite, Late, Claiming
<1>2. PICK pc \in {"move", "newsite"} : Goto(q, pc)
  BY DEF FindSite
<1> QED BY <1>1, <1>2, GotoTyped DEF Late

\* The link is spent, late or not.
LEMMA SpendTyped ==
  ASSUME Typed, NEW q \in Requests, NEW late \in BOOLEAN, Spend(q, late)
  PROVE  Typed'
<1>1. Onward
  BY DEF Onward, Spend
<1>2. Rest
  <2>1. NoTrip("spent") \in Journey /\ NoTrip("spent").claim = None
    BY DEF NoTrip, Journey
  <2>2. trip' = [trip EXCEPT ![req[q].trip] = NoTrip("spent")] /\ run' = run
    BY DEF Spend
  <2>3. trip' \in [Trips -> Journey] /\ \A t \in Trips : ClaimSaved(trip'[t].claim, run')
    BY <2>1, <2>2 DEF Typed, ClaimSaved
  <2> QED BY <2>3 DEF Rest, Spend, Typed, RunsStayClaimable
<1>3. CASE late
  <2>1. req' = [req EXCEPT ![q] = Free]
    BY <1>3 DEF Spend
  <2>2. OneStep(q, Free)
    BY <2>1, FreeIs, FreeKnows DEF OneStep
  <2> QED BY <1>1, <1>2, <2>2, FreeIs, StepIsTyped
<1>4. CASE ~late
  <2> DEFINE c == [req[q] EXCEPT !.pc = "find", !.trip = None]
  <2>1. req' = [req EXCEPT ![q] = c] /\ req[q].job = "signin"
    BY <1>4 DEF Spend
  <2>2. c \in Request
    BY Registers DEF Request
  <2>3. c.job = req[q].job /\ c.pc = "find" /\ c.claim = req[q].claim
    BY Registers DEF Request
  <2> HIDE DEF c
  <2> QED BY <1>1, <1>2, <2>1, <2>2, <2>3, SignInTyped DEF Late, Claiming
<1> QED BY <1>3, <1>4

\* After the insert the user is there.
LEMMA InsertUserTyped ==
  ASSUME Typed, NEW q \in Requests, InsertUser(q)
  PROVE  Typed'
<1>1. Onward
  BY DEF Onward, InsertUser
<1>2. Rest
  BY DEF Rest, InsertUser, Typed, RunsStayClaimable
<1>3. CASE user
  <2>1. req' = [req EXCEPT ![q] = Free]
    BY <1>3 DEF InsertUser
  <2>2. OneStep(q, Free)
    BY <2>1, FreeIs, FreeKnows DEF OneStep
  <2> QED BY <1>1, <1>2, <2>2, FreeIs, StepIsTyped
<1>4. CASE ~user
  <2> DEFINE c == [req[q] EXCEPT !.pc = "workspace"]
  <2>1. req' = [req EXCEPT ![q] = c] /\ req[q].job = "signin" /\ user'
    BY <1>4 DEF InsertUser
  <2>2. c \in Request
    BY Registers DEF Request
  <2>3. c.job = req[q].job /\ c.pc = "workspace" /\ c.claim = req[q].claim
    BY Registers DEF Request
  <2> HIDE DEF c
  <2> QED BY <1>1, <1>2, <2>1, <2>2, <2>3, SignInTyped DEF Late, Claiming
<1> QED BY <1>3, <1>4

\* It takes the workspace of the user, if there is one.
LEMMA FindMembershipTyped ==
  ASSUME Typed, NEW q \in Requests, FindMembership(q)
  PROVE  Typed'
<1> DEFINE pc == IF workspaces > 0 THEN "session" ELSE "workspace"
           org == IF workspaces > 0 THEN 1 ELSE 0
           c == [req[q] EXCEPT !.pc = pc, !.org = org]
<1>0. /\ UNCHANGED <<user, workspaces, sessions, run, sites, trip, cookie, stranded>>
      /\ req[q].job = "signin" /\ user
  BY AtStatement DEF FindMembership, accountVars
<1>1. Onward
  BY <1>0 DEF Onward
<1>2. Rest
  BY <1>0 DEF Rest, Typed, RunsStayClaimable
<1>3. req' = [req EXCEPT ![q] = c]
  BY DEF FindMembership
<1>4. org \in 0..MaxWorkspaces /\ pc \in {"session", "workspace"} /\ (pc = "session" => org > 0)
  BY AccountsAssumption DEF Typed
<1> HIDE DEF pc, org
<1>5. c \in Request
  BY <1>4, Registers DEF Request, Late
<1>6. c.job = req[q].job /\ c.pc = pc /\ c.org = org /\ c.claim = req[q].claim
  BY Registers DEF Request
<1> HIDE DEF c
<1> QED BY <1>0, <1>1, <1>2, <1>3, <1>4, <1>5, <1>6, SignInTyped DEF Late, Claiming

\* A new workspace is there from the moment it is numbered.
LEMMA CreateOrgTyped ==
  ASSUME Typed, NEW q \in Requests, CreateOrg(q)
  PROVE  Typed'
<1> DEFINE c == [req[q] EXCEPT !.pc = "session", !.org = workspaces + 1]
<1>0. req[q].job = "signin" /\ user
  BY AtStatement DEF CreateOrg
<1>1. Onward
  BY DEF Onward, CreateOrg
<1>2. Rest
  BY <1>0, AccountsAssumption DEF Rest, CreateOrg, Typed, RunsStayClaimable
<1>3. req' = [req EXCEPT ![q] = c] /\ UNCHANGED user
  BY DEF CreateOrg
<1>4. workspaces + 1 \in 0..MaxWorkspaces /\ workspaces + 1 > 0
  BY AccountsAssumption DEF CreateOrg, Typed
<1>5. c \in Request
  BY <1>4, Registers DEF Request, Late
<1>6. c.job = req[q].job /\ c.pc = "session" /\ c.org = workspaces + 1 /\ c.claim = req[q].claim
  BY Registers DEF Request
<1> HIDE DEF c
<1> QED BY <1>0, <1>1, <1>2, <1>3, <1>4, <1>5, <1>6, SignInTyped DEF Late, Claiming

\* A session is of a workspace that is there.
LEMMA CreateSessionTyped ==
  ASSUME Typed, NEW q \in Requests, CreateSession(q)
  PROVE  Typed'
<1> DEFINE pc == IF req[q].claim = None THEN "respond" ELSE "claim"
           c == [req[q] EXCEPT !.pc = pc]
<1>0. req[q].job = "signin" /\ user /\ req[q].org \in Workspaces /\ req[q].org > 0
  BY AtStatement DEF CreateSession, Late
<1>1. Onward
  BY DEF Onward, CreateSession
<1>2. Rest
  BY <1>0 DEF Rest, CreateSession, Typed, RunsStayClaimable
<1>3. req' = [req EXCEPT ![q] = c] /\ UNCHANGED user
  BY DEF CreateSession, Goto
<1>4. pc \in {"respond", "claim"} /\ (pc = "respond" <=> req[q].claim = None)
  OBVIOUS
<1> HIDE DEF pc
<1>5. c \in Request
  BY <1>4, Registers DEF Request, Late
<1>6. c.job = req[q].job /\ c.pc = pc /\ c.org = req[q].org /\ c.claim = req[q].claim
  BY Registers DEF Request
<1> HIDE DEF c
<1> QED BY <1>0, <1>1, <1>2, <1>3, <1>4, <1>5, <1>6, SignInTyped DEF Late, Claiming

\* The site is inserted into the workspace of the sign-in.
LEMMA InsertSiteTyped ==
  ASSUME Typed, NEW q \in Requests, InsertSite(q)
  PROVE  Typed'
<1> DEFINE pc == IF req[q].org \in sites THEN "respond" ELSE "move"
           c == [req[q] EXCEPT !.pc = pc]
<1>0. /\ req[q].job = "signin" /\ user /\ req[q].org > 0
      /\ req[q].claim \in Runs /\ req[q].claim # None
  BY AtStatement DEF InsertSite, Late, Claiming
<1>1. Onward
  BY DEF Onward, InsertSite
<1>2. Rest
  BY <1>0 DEF Rest, InsertSite, Typed, RunsStayClaimable
<1>3. req' = [req EXCEPT ![q] = c] /\ UNCHANGED user
  BY DEF InsertSite, Goto
<1>4. pc \in {"respond", "move"} /\ (pc = "respond" => req[q].claim \in stranded')
  BY DEF InsertSite
<1> HIDE DEF pc
<1>5. c \in Request
  BY <1>4, Registers DEF Request, Late
<1>6. c.job = req[q].job /\ c.pc = pc /\ c.org = req[q].org /\ c.claim = req[q].claim
  BY Registers DEF Request
<1> HIDE DEF c
<1> QED BY <1>0, <1>1, <1>2, <1>3, <1>4, <1>5, <1>6, SignInTyped DEF Late, Claiming

\* The audit moves to the workspace that claimed it.
LEMMA MoveRunTyped ==
  ASSUME Typed, NEW q \in Requests, MoveRun(q)
  PROVE  Typed'
<1> DEFINE c == [req[q] EXCEPT !.pc = "respond"]
           r == req[q].claim
<1>0. /\ req[q].job = "signin" /\ user
      /\ req[q].org > 0 /\ req[q].org \in Workspaces
      /\ r \in Runs /\ r # None
  BY AtStatement DEF MoveRun, Late, Claiming
<1>1. /\ run' \in [Runs -> {Unsaved, Anonymous, Swept} \cup Workspaces]
      /\ \A s \in Runs \ {r} : run'[s] = run[s]
      /\ run'[r] \in {Swept} \cup Workspaces
  BY <1>0 DEF MoveRun, Typed
<1> HIDE DEF r
<1>2. Onward
  BY <1>1, Places DEF Onward, MoveRun
<1>3. Rest
  <2>1. UNCHANGED <<user, workspaces, sessions, sites, trip, cookie, stranded>>
    BY DEF MoveRun
  <2>2. \A s \in Runs : run[s] # Unsaved => run'[s] # Unsaved
    BY <1>1, Places
  <2>3. \A s \in Runs : run'[s] = Anonymous => run[s] = Anonymous
    BY <1>1, Places
  <2>4. ClaimSaved(cookie, run') /\ \A t \in Trips : ClaimSaved(trip[t].claim, run')
    BY <2>2 DEF Typed, ClaimSaved, Journey
  <2> QED BY <1>1, <2>1, <2>3, <2>4 DEF Rest, Typed, RunsStayClaimable
<1>4. req' = [req EXCEPT ![q] = c] /\ UNCHANGED user
  BY DEF MoveRun, Goto
<1>5. c \in Request
  BY Registers DEF Request, Late
<1>6. c.job = req[q].job /\ c.pc = "respond" /\ c.org = req[q].org /\ c.claim = r
      /\ r = req[q].claim
  BY Registers DEF Request, r
<1> HIDE DEF c
<1>7. run'[r] # Anonymous
  BY <1>1, Places
<1> QED BY <1>0, <1>2, <1>3, <1>4, <1>5, <1>6, <1>7, SignInTyped DEF Late, Claiming

\* The answer clears the cookie; what was too old is swept.
LEMMA RespondTyped ==
  ASSUME Typed, NEW q \in Requests, NEW aged \in SUBSET Runs, Respond(q, aged)
  PROVE  Typed'
<1>0. /\ req[q].job = "signin" /\ req[q].claim \in Runs \cup {None}
      /\ req[q].claim # None => run[req[q].claim] # Anonymous \/ req[q].claim \in stranded
  BY AtStatement DEF Respond
<1>1. run' = [r \in Runs |-> IF r \in aged /\ run[r] = Anonymous THEN Swept ELSE run[r]]
  BY DEF Respond
<1>2. /\ run' \in [Runs -> {Unsaved, Anonymous, Swept} \cup Workspaces]
      /\ \A r \in Runs : run[r] # Unsaved => run'[r] # Unsaved
      /\ \A r \in Runs : run'[r] = Anonymous => run[r] = Anonymous /\ r \notin aged
  BY <1>1, Places DEF Typed
<1>3. Onward
  BY <1>2 DEF Onward, Respond
<1>4. Rest
  <2>1. UNCHANGED <<user, workspaces, sessions, sites, trip>>
    BY DEF Respond
  <2>2. cookie' \in {cookie, None} /\ stranded \subseteq stranded' /\ stranded' \subseteq Runs
    BY DEF Respond, Typed
  <2>3. ClaimSaved(cookie', run') /\ \A t \in Trips : ClaimSaved(trip[t].claim, run')
    BY <1>2, <2>2 DEF Typed, ClaimSaved, Journey
  <2>4. ASSUME NEW r \in Runs, run'[r] = Anonymous
        PROVE  r = cookie' \/ r \in stranded'
    <3>1. run[r] = Anonymous /\ r \notin aged
      BY <1>2, <2>4
    <3>2. CASE r \in stranded
      BY <2>2, <3>2
    <3>3. CASE r = cookie /\ req[q].claim = None
      BY <3>1, <3>3 DEF Respond
    <3>4. CASE r = cookie /\ req[q].claim # None /\ r # req[q].claim
      BY <3>1, <3>4 DEF Respond
    <3>5. CASE r = cookie /\ r = req[q].claim
      BY <1>0, <2>2, <3>1, <3>5, Places
    <3> QED BY <3>1, <3>2, <3>3, <3>4, <3>5 DEF Typed, RunsStayClaimable
  <2>5. cookie' \in Runs \cup {None}
    BY <2>2 DEF Typed
  <2> QED BY <1>2, <2>1, <2>2, <2>3, <2>4, <2>5 DEF Rest, Typed
<1>5. OneStep(q, Free)
  BY FreeIs, FreeKnows DEF OneStep, Respond
<1> QED BY <1>3, <1>4, <1>5, FreeIs, StepIsTyped

\* A session ends; nothing else changes.
LEMMA SignOutTyped ==
  ASSUME Typed, NEW w \in Workspaces, SignOut(w)
  PROVE  Typed'
<1>1. Onward
  BY DEF Onward, SignOut
<1>2. Rest
  BY DEF Rest, SignOut, Typed, RunsStayClaimable
<1> QED BY <1>1, <1>2, StepIsTyped DEF SignOut

-----------------------------------------------------------------------------
(***************************************************************************)
(* The other steps leave the accounts alone.                               *)
(***************************************************************************)
\* A request of the publishing handlers, begun, moved on or over.
LEMMA OtherTyped ==
  ASSUME Typed, UNCHANGED accountVars, NEW q \in Requests, NEW c \in Request,
         req' = [req EXCEPT ![q] = c], c.job # "signin", c.claim = None
  PROVE  Typed'
<1>0. UNCHANGED <<user, workspaces, sessions, run, sites, trip, cookie, stranded>>
  BY DEF accountVars
<1>1. Onward
  BY <1>0 DEF Onward
<1>2. Rest
  BY <1>0 DEF Rest, Typed, RunsStayClaimable
<1>3. OneStep(q, c)
  BY DEF OneStep, Knows, ClaimSaved
<1> QED BY <1>1, <1>2, <1>3, StepIsTyped

\* Nothing but the publishing state changes.
LEMMA NoneTyped ==
  ASSUME Typed, UNCHANGED <<req, accountVars>>
  PROVE  Typed'
<1>0. UNCHANGED <<user, workspaces, sessions, run, sites, trip, cookie, stranded>>
  BY DEF accountVars
<1>1. Onward
  BY <1>0 DEF Onward
<1>2. Rest
  BY <1>0 DEF Rest, Typed, RunsStayClaimable
<1> QED BY <1>1, <1>2, StepIsTyped

\* The steps of publishing leave the accounts alone.
LEMMA PublishingTyped ==
  ASSUME Typed, live \in Values, PublishingStep, UNCHANGED accountVars
  PROVE  Typed' /\ live' \in Values
<1>0. live' \in Values
  BY DEF PublishingStep, QueueApproval, BeginDecide, BeginPublish, WriteDecision, ReadLive,
         WriteLive, RefuseWrite, ThrowWrite, InsertPublish, MarkPublished, ThrowMark, EditLive,
         Values
<1>1. CASE (\E w \in Workspaces : QueueApproval(w)) \/ EditLive
  BY <1>0, <1>1, NoneTyped DEF QueueApproval, EditLive
<1>2. ASSUME NEW q \in Requests, NEW w \in Workspaces, NEW decision \in DECISIONS,
             BeginDecide(q, w, decision)
      PROVE  Typed'
  <2> DEFINE c == [Free EXCEPT !.job = "decide", !.org = w, !.value = decision]
  <2>1. req' = [req EXCEPT ![q] = c]
    BY <1>2 DEF BeginDecide
  <2>2. c \in Request /\ c.job = "decide" /\ c.claim = None
    BY FreeIs, Places DEF Request
  <2> HIDE DEF c
  <2> QED BY <2>1, <2>2, OtherTyped
<1>3. ASSUME NEW q \in Requests, NEW w \in Workspaces, BeginPublish(q, w)
      PROVE  Typed'
  <2> DEFINE c == [Free EXCEPT !.job = "publish", !.pc = "read", !.org = w]
  <2>1. req' = [req EXCEPT ![q] = c]
    BY <1>3 DEF BeginPublish
  <2>2. c \in Request /\ c.job = "publish" /\ c.claim = None
    BY FreeIs, Places DEF Request
  <2> HIDE DEF c
  <2> QED BY <2>1, <2>2, OtherTyped
<1>4. ASSUME NEW q \in Requests,
             \/ WriteDecision(q) \/ MarkPublished(q) \/ ThrowMark(q)
             \/ \E before \in Values \cup {"none"} : RefuseWrite(q, before)
             \/ \E taken \in BOOLEAN : ThrowWrite(q, taken)
      PROVE  Typed'
  <2>1. req' = [req EXCEPT ![q] = Free]
    BY <1>4 DEF WriteDecision, MarkPublished, ThrowMark, RefuseWrite, ThrowWrite
  <2> QED BY <2>1, FreeIs, OtherTyped
<1>5. ASSUME NEW q \in Requests, ReadLive(q)
      PROVE  Typed'
  <2> DEFINE c == [req[q] EXCEPT !.pc = "write", !.value = live]
  <2>1. req' = [req EXCEPT ![q] = c]
    BY <1>5 DEF ReadLive
  <2>2. c \in Request /\ c.job = "publish" /\ c.claim = None
    BY <1>5, Registers DEF Request, ReadLive, Knows
  <2> HIDE DEF c
  <2> QED BY <2>1, <2>2, OtherTyped
<1>6. ASSUME NEW q \in Requests, NEW pc \in {"row", "mark"},
             req' = [req EXCEPT ![q].pc = pc], req[q].job = "publish"
      PROVE  Typed'
  <2> DEFINE c == [req[q] EXCEPT !.pc = pc]
  <2>1. req' = [req EXCEPT ![q] = c]
    BY <1>6
  <2>2. c \in Request /\ c.job = "publish" /\ c.claim = None
    BY <1>6, Registers DEF Request, Knows
  <2> HIDE DEF c
  <2> QED BY <2>1, <2>2, OtherTyped
<1>7. CASE \E q \in Requests : WriteLive(q) \/ InsertPublish(q)
  BY <1>0, <1>6, <1>7 DEF WriteLive, InsertPublish
<1> QED BY <1>0, <1>1, <1>2, <1>3, <1>4, <1>5, <1>7 DEF PublishingStep

\* A request that dies leaves its rows and knows nothing.
LEMMA DieTyped ==
  ASSUME Typed, NEW q \in Requests, Die(q)
  PROVE  Typed'
BY FreeIs, OtherTyped DEF Die

\* Every step about accounts keeps Typed.
LEMMA AccountsTyped ==
  ASSUME Typed, AccountsStep
  PROVE  Typed'
BY SaveAnonymousTyped, SaveOwnedTyped, SetOutTyped, ArriveTyped, SpendTyped, FindUserTyped,
   InsertUserTyped, FindMembershipTyped, CreateOrgTyped, CreateSessionTyped, SelectRunTyped,
   FindSiteTyped, InsertSiteTyped, MoveRunTyped, RespondTyped, SignOutTyped DEF AccountsStep

\* The first invariant, with the page holding one of the values.
Known == Typed /\ live \in Values

\* Every step keeps Typed and the type of the live value.
LEMMA StepKnown == Known /\ [ServerNext]_serverVars => Known'
<1> SUFFICES ASSUME Known, [ServerNext]_serverVars PROVE Known'
  OBVIOUS
<1>1. CASE AccountsStep /\ UNCHANGED publishingVars
  BY <1>1, AccountsTyped DEF Known, publishingVars
<1>2. CASE PublishingStep /\ UNCHANGED <<accountVars, deaths>>
  BY <1>2, PublishingTyped DEF Known
<1>3. CASE \E q \in Requests : Die(q)
  BY <1>3, DieTyped DEF Known, Die
<1>4. CASE UNCHANGED serverVars
  BY <1>4, NoneTyped DEF Known, serverVars, publishingVars
<1> QED BY <1>1, <1>2, <1>3, <1>4 DEF ServerNext

\* They hold in every state.
LEMMA KnownHolds == ServerSpec => []Known
<1>1. ServerInit => Known
  BY InitTyped DEF Known, ServerInit, PublishingInit, Values
<1> QED BY <1>1, StepKnown, PTL DEF ServerSpec

(***************************************************************************)
(* The browser keeps the claim on a visitor's audit, whichever requests    *)
(* run together and whichever die, but for the three ways the code throws  *)
(* it away (claimRuns, the sign-in callbacks, POST runs).                  *)
(***************************************************************************)
THEOREM ClaimsAreKept == ServerSpec => []RunsStayClaimable
<1>1. Known => RunsStayClaimable
  BY DEF Known, Typed
<1> QED BY <1>1, KnownHolds, PTL

-----------------------------------------------------------------------------
(***************************************************************************)
(* Sign-ins that do not overlap.                                           *)
(***************************************************************************)
\* First(c, n): what a sign-in alone with the database knows of its
\* workspace, when n of them exist.
First(c, n) ==
  c.job = "signin" => /\ c.pc = "workspace" => n = 0
                      /\ c.pc \in Late => c.org = 1

\* Only workspace 1 exists and is used.
OnlyFirst(n, open, places) ==
  n <= 1 /\ open \subseteq {1} /\ \A r \in Runs : places[r] > 0 => places[r] = 1

Alone ==
  ~overlapped =>
    /\ OnlyFirst(workspaces, sessions, run)
    /\ \A q, s \in Requests : req[q].job = "signin" /\ req[s].job = "signin" => q = s
    /\ \A q \in Requests : First(req[q], workspaces)

\* The initial states satisfy Alone.
LEMMA InitAlone == ServerInit => Alone
BY FreeIs DEF ServerInit, AccountsInit, Alone, OnlyFirst, First, Unsaved

\* A step of the request q that begins no sign-in.
LEMMA AloneStep ==
  ASSUME Typed, Alone, UNCHANGED overlapped,
         NEW q \in Requests, NEW c, req' = [req EXCEPT ![q] = c],
         c.job = "signin" => req[q].job = "signin",
         workspaces' = workspaces \/ req[q].job = "signin",
         ~overlapped => OnlyFirst(workspaces', sessions', run') /\ First(c, workspaces')
  PROVE  Alone'
<1> SUFFICES ASSUME ~overlapped'
             PROVE  /\ OnlyFirst(workspaces', sessions', run')
                    /\ \A p, s \in Requests :
                         req'[p].job = "signin" /\ req'[s].job = "signin" => p = s
                    /\ \A s \in Requests : First(req'[s], workspaces')
  BY DEF Alone
<1>1. ~overlapped
  OBVIOUS
<1>2. req'[q] = c /\ \A s \in Requests \ {q} : req'[s] = req[s]
  BY DEF Typed
<1>3. \A p, s \in Requests : req'[p].job = "signin" /\ req'[s].job = "signin" => p = s
  BY <1>1, <1>2 DEF Alone
<1>4. ASSUME NEW s \in Requests
      PROVE  First(req'[s], workspaces')
  BY <1>1, <1>2 DEF Alone, First
<1> QED BY <1>1, <1>3, <1>4

\* A sign-in that begins while none is under way is alone.
LEMMA ArriveAlone ==
  ASSUME Typed, Alone, NEW q \in Requests, NEW t \in Trips, Arrive(q, t)
  PROVE  Alone'
<1> SUFFICES ASSUME ~overlapped' PROVE Alone'
  BY DEF Alone
<1>1. ~overlapped /\ \A s \in Requests : req[s].job # "signin"
  BY DEF Arrive, SigningIn
<1>2. PICK claim : req' = [req EXCEPT ![q] =
        [Free EXCEPT !.job = "signin", !.pc = "spend", !.trip = t, !.claim = claim]]
  BY DEF Arrive
<1>3. req'[q].pc = "spend" /\ \A s \in Requests \ {q} : req'[s] = req[s]
  BY <1>2, FreeIs DEF Typed, Free
<1>4. \A s \in Requests : First(req'[s], workspaces')
  BY <1>1, <1>3 DEF First, Late
<1>5. \A p, s \in Requests : req'[p].job = "signin" /\ req'[s].job = "signin" => p = s
  BY <1>1, <1>3
<1>6. OnlyFirst(workspaces', sessions', run')
  BY <1>1 DEF Alone, OnlyFirst, Arrive
<1> QED BY <1>4, <1>5, <1>6 DEF Alone

\* A request that is over is no sign-in.
LEMMA OverAlone ==
  ASSUME Typed, Alone, UNCHANGED overlapped, NEW q \in Requests, req' = [req EXCEPT ![q] = Free],
         UNCHANGED workspaces, ~overlapped => OnlyFirst(workspaces', sessions', run')
  PROVE  Alone'
BY FreeIs, AloneStep DEF First

\* The statements that only read.
LEMMA ReadsAlone ==
  ASSUME Typed, Alone, NEW q \in Requests,
         FindUser(q) \/ FindMembership(q) \/ SelectRun(q) \/ FindSite(q)
  PROVE  Alone'
<1>1. /\ UNCHANGED <<workspaces, sessions, run, overlapped>> /\ req[q].job = "signin"
      /\ req[q] \in Request
  BY Registers DEF accountVars, FindUser, FindMembership, SelectRun, FindSite
<1>2. ~overlapped => OnlyFirst(workspaces', sessions', run') /\ First(req[q], workspaces)
  BY <1>1 DEF Alone, OnlyFirst
<1>3. CASE FindUser(q)
  <2>1. PICK pc \in {"membership", "user"} : req' = [req EXCEPT ![q] = [req[q] EXCEPT !.pc = pc]]
    BY <1>3 DEF FindUser, Goto
  <2>2. First([req[q] EXCEPT !.pc = pc], workspaces)
    BY <1>1 DEF First, Late, Request
  <2> QED BY <1>1, <1>2, <2>1, <2>2, AloneStep
<1>4. CASE FindMembership(q)
  <2> DEFINE c == [req[q] EXCEPT !.pc = IF workspaces > 0 THEN "session" ELSE "workspace",
                                 !.org = IF workspaces > 0 THEN 1 ELSE 0]
  <2>1. req' = [req EXCEPT ![q] = c]
    BY <1>4 DEF FindMembership
  <2>2. First(c, workspaces)
    BY <1>1 DEF First, Late, Request, Typed
  <2> HIDE DEF c
  <2> QED BY <1>1, <1>2, <2>1, <2>2, AloneStep
<1>5. CASE SelectRun(q) \/ FindSite(q)
  <2>1. PICK pc \in Late : req' = [req EXCEPT ![q] = [req[q] EXCEPT !.pc = pc]]
    BY <1>5 DEF SelectRun, FindSite, Goto, Late
  <2>2. req[q].pc \in Late
    BY <1>5 DEF SelectRun, FindSite, Late
  <2>3. ~overlapped => First([req[q] EXCEPT !.pc = pc], workspaces)
    BY <1>1, <1>2, <2>2 DEF First, Late, Request
  <2> QED BY <1>1, <1>2, <2>1, <2>3, AloneStep
<1> QED BY <1>3, <1>4, <1>5

\* The statements that write.
LEMMA WritesAlone ==
  ASSUME Typed, Alone, NEW q \in Requests,
         InsertUser(q) \/ CreateOrg(q) \/ CreateSession(q) \/ InsertSite(q) \/ MoveRun(q)
  PROVE  Alone'
<1>1. UNCHANGED overlapped /\ req[q].job = "signin" /\ req[q] \in Request
  BY Registers DEF InsertUser, CreateOrg, CreateSession, InsertSite, MoveRun
<1>2. ~overlapped => OnlyFirst(workspaces, sessions, run) /\ First(req[q], workspaces)
  BY DEF Alone
<1>3. CASE InsertUser(q)
  <2>0. UNCHANGED <<workspaces, sessions, run>>
    BY <1>3 DEF InsertUser
  <2>1. CASE user
    BY <1>1, <1>2, <1>3, <2>0, <2>1, OverAlone DEF InsertUser
  <2>2. CASE ~user
    <3> DEFINE c == [req[q] EXCEPT !.pc = "workspace"]
    <3>1. req' = [req EXCEPT ![q] = c]
      BY <1>3, <2>2 DEF InsertUser
    <3>2. workspaces = 0
      BY <2>2 DEF Typed
    <3>3. First(c, workspaces)
      BY <1>1, <3>2 DEF First, Late, Request
    <3> HIDE DEF c
    <3> QED BY <1>1, <1>2, <2>0, <3>1, <3>3, AloneStep
  <2> QED BY <2>1, <2>2
<1>4. CASE CreateOrg(q)
  <2> DEFINE c == [req[q] EXCEPT !.pc = "session", !.org = workspaces + 1]
  <2>1. req' = [req EXCEPT ![q] = c] /\ UNCHANGED <<sessions, run>> /\ workspaces' = workspaces + 1
    BY <1>4 DEF CreateOrg
  <2>2. ~overlapped => workspaces = 0
    BY <1>1, <1>2, <1>4 DEF CreateOrg, First
  <2>3. ~overlapped => First(c, workspaces')
    BY <1>1, <2>1, <2>2 DEF First, Late, Request
  <2> HIDE DEF c
  <2>4. ~overlapped => OnlyFirst(workspaces', sessions', run')
    BY <1>2, <2>1, <2>2 DEF OnlyFirst
  <2> QED BY <1>1, <2>1, <2>3, <2>4, AloneStep
<1>5. CASE CreateSession(q) \/ InsertSite(q) \/ MoveRun(q)
  <2>1. PICK pc \in Late : req' = [req EXCEPT ![q] = [req[q] EXCEPT !.pc = pc]]
    BY <1>5 DEF CreateSession, InsertSite, MoveRun, Goto, Late
  <2>2. req[q].pc \in Late /\ UNCHANGED workspaces
    BY <1>5 DEF CreateSession, InsertSite, MoveRun, Late
  <2>3. ~overlapped => req[q].org = 1
    BY <1>1, <1>2, <2>2 DEF First
  <2>4. ~overlapped => First([req[q] EXCEPT !.pc = pc], workspaces)
    BY <1>1, <2>3 DEF First, Late, Request
  <2>5. ~overlapped => OnlyFirst(workspaces', sessions', run')
    <3>1. CASE CreateSession(q) \/ InsertSite(q)
      BY <1>2, <2>3, <3>1 DEF OnlyFirst, CreateSession, InsertSite
    <3>2. CASE MoveRun(q)
      <4>1. req[q].claim \in Runs
        BY <3>2, AtStatement DEF MoveRun, Late, Claiming
      <4>2. \A r \in Runs : run'[r] \in {run[r], req[q].org}
        BY <3>2, <4>1 DEF MoveRun, Typed
      <4> QED BY <1>2, <2>3, <3>2, <4>2 DEF OnlyFirst, MoveRun
    <3> QED BY <1>5, <3>1, <3>2
  <2> QED BY <1>1, <2>1, <2>2, <2>4, <2>5, AloneStep
<1> QED BY <1>3, <1>4, <1>5

\* The token is spent, and the answer sent.
LEMMA EndsAlone ==
  ASSUME Typed, Alone, NEW q \in Requests,
         \/ \E late \in BOOLEAN : Spend(q, late)
         \/ \E aged \in SUBSET Runs : Respond(q, aged)
  PROVE  Alone'
<1>1. UNCHANGED <<overlapped, workspaces, sessions>> /\ req[q].job = "signin" /\ req[q] \in Request
  BY Registers DEF Spend, Respond
<1>2. \A r \in Runs : run'[r] > 0 => run'[r] = run[r]
  <2>1. \A r \in Runs : run'[r] \in {run[r], Swept}
    BY DEF Spend, Respond, Typed
  <2> QED BY <2>1 DEF Swept
<1>3. ~overlapped => OnlyFirst(workspaces', sessions', run')
  BY <1>1, <1>2 DEF Alone, OnlyFirst
<1>4. CASE req' = [req EXCEPT ![q] = Free]
  BY <1>1, <1>3, <1>4, OverAlone
<1>5. CASE req' # [req EXCEPT ![q] = Free]
  <2> DEFINE c == [req[q] EXCEPT !.pc = "find", !.trip = None]
  <2>1. req' = [req EXCEPT ![q] = c]
    BY <1>5 DEF Spend, Respond
  <2>2. First(c, workspaces)
    BY <1>1 DEF First, Late, Request
  <2> HIDE DEF c
  <2> QED BY <1>1, <1>3, <2>1, <2>2, AloneStep
<1> QED BY <1>4, <1>5

\* What involves no request.
LEMMA OutsideAlone ==
  ASSUME Typed, Alone,
         \/ \E r \in Runs : SaveAnonymous(r) \/ \E w \in Workspaces : SaveOwned(r, w)
         \/ \E t \in Trips, kind \in {"email", "google"} : SetOut(t, kind)
         \/ \E w \in Workspaces : SignOut(w)
  PROVE  Alone'
<1>1. UNCHANGED <<req, overlapped, workspaces>>
  BY DEF SaveAnonymous, SaveOwned, SetOut, SignOut
<1>2. sessions' \subseteq sessions
  BY DEF SaveAnonymous, SaveOwned, SetOut, SignOut
<1>3. \A r \in Runs : run'[r] > 0 => run'[r] = run[r] \/ run'[r] \in sessions
  BY DEF SaveAnonymous, SaveOwned, SetOut, SignOut, Typed, Anonymous
<1>4. ~overlapped => OnlyFirst(workspaces', sessions', run')
  BY <1>1, <1>2, <1>3 DEF Alone, OnlyFirst
<1> QED BY <1>1, <1>4 DEF Alone

\* Publishing and deaths leave what a lone sign-in knows.
LEMMA PublishingAlone ==
  ASSUME Typed, Alone, PublishingStep \/ (\E q \in Requests : Die(q)), UNCHANGED accountVars
  PROVE  Alone'
<1>1. UNCHANGED <<overlapped, workspaces, sessions, run>>
  BY DEF accountVars
<1>2. ~overlapped => OnlyFirst(workspaces', sessions', run')
  BY <1>1 DEF Alone, OnlyFirst
<1>3. CASE UNCHANGED req
  BY <1>1, <1>2, <1>3 DEF Alone
<1>4. ASSUME NEW q \in Requests, req' = [req EXCEPT ![q] = req'[q]], req'[q].job # "signin"
      PROVE  Alone'
  BY <1>1, <1>2, <1>4, AloneStep DEF First
<1>5. ASSUME NEW q \in Requests, req' = [req EXCEPT ![q] = Free]
      PROVE  Alone'
  BY <1>1, <1>2, <1>5, OverAlone
<1>6. ASSUME NEW q \in Requests, ReadLive(q) \/ WriteLive(q) \/ InsertPublish(q)
      PROVE  Alone'
  <2>1. req[q] \in Request /\ req[q].job = "publish"
    BY <1>6, Registers DEF ReadLive, WriteLive, InsertPublish
  <2>2. req' = [req EXCEPT ![q] = req'[q]] /\ req'[q].job = "publish"
    BY <1>6, <2>1 DEF ReadLive, WriteLive, InsertPublish, Typed, Request
  <2> QED BY <2>2, <1>4
<1>7. ASSUME NEW q \in Requests, NEW w \in Workspaces,
             BeginPublish(q, w) \/ \E decision \in DECISIONS : BeginDecide(q, w, decision)
      PROVE  Alone'
  <2>1. req' = [req EXCEPT ![q] = req'[q]] /\ req'[q].job # "signin"
    BY <1>7 DEF BeginPublish, BeginDecide, Typed, Free
  <2> QED BY <2>1, <1>4
<1>8. ASSUME NEW q \in Requests,
             \/ WriteDecision(q) \/ MarkPublished(q) \/ ThrowMark(q) \/ Die(q)
             \/ \E before \in Values \cup {"none"} : RefuseWrite(q, before)
             \/ \E taken \in BOOLEAN : ThrowWrite(q, taken)
      PROVE  Alone'
  <2>1. req' = [req EXCEPT ![q] = Free]
    BY <1>8 DEF WriteDecision, MarkPublished, ThrowMark, RefuseWrite, ThrowWrite, Die
  <2> QED BY <2>1, <1>5
<1>9. CASE (\E w \in Workspaces : QueueApproval(w)) \/ EditLive
  BY <1>3, <1>9 DEF QueueApproval, EditLive
<1> QED BY <1>6, <1>7, <1>8, <1>9 DEF PublishingStep

\* Every step keeps Alone.
LEMMA StepAlone == Known /\ Alone /\ [ServerNext]_serverVars => Alone'
<1> SUFFICES ASSUME Typed, Alone, [ServerNext]_serverVars PROVE Alone'
  BY DEF Known
<1>1. CASE AccountsStep
  BY <1>1, ArriveAlone, ReadsAlone, WritesAlone, EndsAlone, OutsideAlone DEF AccountsStep
<1>2. CASE PublishingStep /\ UNCHANGED <<accountVars, deaths>>
  BY <1>2, PublishingAlone
<1>3. CASE \E q \in Requests : Die(q)
  <2>1. UNCHANGED accountVars
    BY <1>3 DEF Die
  <2> QED BY <1>3, <2>1, PublishingAlone
<1>4. CASE UNCHANGED serverVars
  BY <1>4 DEF Alone, serverVars, accountVars
<1> QED BY <1>1, <1>2, <1>3, <1>4 DEF ServerNext

(***************************************************************************)
(* Sign-ins that do not overlap make one workspace between them and use no *)
(* other, however many there are and wherever they die (upsertUser,        *)
(* createOrg, createSession, claimRuns).                                   *)
(***************************************************************************)
THEOREM OneWorkspace == ServerSpec => []WorkspaceIsOne
<1>1. Alone => WorkspaceIsOne
  BY DEF Alone, OnlyFirst, WorkspaceIsOne
<1> QED BY <1>1, InitAlone, StepAlone, KnownHolds, PTL DEF ServerSpec

-----------------------------------------------------------------------------
(***************************************************************************)
(* The value to put back.                                                  *)
(***************************************************************************)
\* It is in a row, or about to be.
Good(stored) == \E row \in stored : row.status = "published" /\ row.before # "new"
AboutToBe(c) == c.job = "publish" /\ c.pc = "row" /\ c.value # "new"
Safe == unrecorded \/ Good(publishes) \/ \E q \in Requests : AboutToBe(req[q])

\* A publish that read the new value and has not written it yet.
ReadNew(c) == c.job = "publish" /\ c.pc = "write" /\ c.value = "new"

Undoable == live = "new" \/ (\E q \in Requests : ReadNew(req[q])) => Safe

\* A step that keeps the value to put back and leads to no new need of it.
LEMMA UndoableStep ==
  ASSUME Undoable, Safe => Safe',
         live' = "new" \/ (\E q \in Requests : ReadNew(req'[q])) =>
           \/ live = "new" \/ (\E q \in Requests : ReadNew(req[q]))
           \/ Safe'
  PROVE  Undoable'
BY DEF Undoable

\* Steps of the publishing handlers of no consequence: registers c that are
\* neither needed nor in need.
LEMMA IdleUndoable ==
  ASSUME Typed, Undoable, NEW q \in Requests, NEW c, req' = [req EXCEPT ![q] = c],
         ~AboutToBe(req[q]), ~ReadNew(c),
         live' = "new" => live = "new",
         unrecorded => unrecorded', publishes \subseteq publishes'
  PROVE  Undoable'
<1>1. req'[q] = c /\ \A s \in Requests \ {q} : req'[s] = req[s]
  BY DEF Typed
<1>2. Safe => Safe'
  <2>1. Good(publishes) => Good(publishes')
    BY DEF Good
  <2>2. \A s \in Requests : AboutToBe(req[s]) => AboutToBe(req'[s])
    BY <1>1
  <2> QED BY <2>1, <2>2 DEF Safe
<1>3. \A s \in Requests : ReadNew(req'[s]) => ReadNew(req[s])
  BY <1>1
<1> QED BY <1>2, <1>3, UndoableStep

\* A sign-in neither needs the value nor holds it.
LEMMA AccountsUndoable ==
  ASSUME Typed, Undoable, AccountsStep, UNCHANGED publishingVars
  PROVE  Undoable'
<1>1. UNCHANGED <<live, publishes, unrecorded>>
  BY DEF publishingVars
<1>2. CASE UNCHANGED req
  BY <1>1, <1>2 DEF Undoable, Safe
<1>3. ASSUME NEW q \in Requests, NEW c, req' = [req EXCEPT ![q] = c],
             req[q].job # "publish", c.job # "publish"
      PROVE  Undoable'
  BY <1>1, <1>3, IdleUndoable DEF AboutToBe, ReadNew
<1>4. ASSUME NEW q \in Requests, NEW t \in Trips, Arrive(q, t)
      PROVE  Undoable'
  <2>1. PICK claim : req' = [req EXCEPT ![q] =
          [Free EXCEPT !.job = "signin", !.pc = "spend", !.trip = t, !.claim = claim]]
    BY <1>4 DEF Arrive
  <2>2. [Free EXCEPT !.job = "signin", !.pc = "spend", !.trip = t, !.claim = claim].job = "signin"
    BY DEF Free
  <2>3. req[q].job = "none"
    BY <1>4, FreeIs DEF Arrive
  <2> QED BY <2>1, <2>2, <2>3, <1>3
<1>6. ASSUME NEW q \in Requests,
             \/ \E late \in BOOLEAN : Spend(q, late)
             \/ FindUser(q) \/ InsertUser(q) \/ FindMembership(q) \/ CreateOrg(q)
             \/ CreateSession(q) \/ SelectRun(q) \/ FindSite(q) \/ InsertSite(q) \/ MoveRun(q)
             \/ \E aged \in SUBSET Runs : Respond(q, aged)
      PROVE  Undoable'
  <2>1. req[q].job = "signin" /\ req[q] \in Request
    BY <1>6, Registers DEF Spend, FindUser, InsertUser, FindMembership, CreateOrg, CreateSession,
         SelectRun, FindSite, InsertSite, MoveRun, Respond
  <2>2. req' = [req EXCEPT ![q] = req'[q]]
    BY <1>6 DEF Typed, Spend, FindUser, InsertUser, FindMembership, CreateOrg, CreateSession,
         SelectRun, FindSite, InsertSite, MoveRun, Respond, Goto
  <2>3. req'[q] = Free \/ req'[q].job = req[q].job
    <3>1. CASE \/ FindUser(q) \/ CreateSession(q) \/ SelectRun(q) \/ FindSite(q)
               \/ InsertSite(q) \/ MoveRun(q)
      <4>1. PICK pc : req' = [req EXCEPT ![q].pc = pc]
        BY <3>1 DEF FindUser, CreateSession, SelectRun, FindSite, InsertSite, MoveRun, Goto
      <4> QED BY <2>1, <4>1 DEF Typed, Request
    <3>2. CASE FindMembership(q) \/ CreateOrg(q)
      <4>1. PICK pc, org : req' = [req EXCEPT ![q].pc = pc, ![q].org = org]
        BY <3>2 DEF FindMembership, CreateOrg
      <4> QED BY <2>1, <4>1 DEF Typed, Request
    <3>3. CASE InsertUser(q)
      <4>1. CASE user
        BY <3>3, <4>1 DEF InsertUser, Typed
      <4>2. CASE ~user
        BY <2>1, <3>3, <4>2 DEF InsertUser, Typed, Request
      <4> QED BY <4>1, <4>2
    <3>4. CASE \E late \in BOOLEAN : Spend(q, late)
      <4>1. CASE Spend(q, TRUE)
        BY <4>1 DEF Spend, Typed
      <4>2. CASE Spend(q, FALSE)
        BY <2>1, <4>2 DEF Spend, Typed, Request
      <4> QED BY <3>4, <4>1, <4>2
    <3>5. CASE \E aged \in SUBSET Runs : Respond(q, aged)
      BY <3>5 DEF Respond, Typed
    <3> QED BY <1>6, <3>1, <3>2, <3>3, <3>4, <3>5
  <2> QED BY <2>1, <2>2, <2>3, FreeIs, <1>3
<1>7. CASE \/ \E r \in Runs : SaveAnonymous(r) \/ \E w \in Workspaces : SaveOwned(r, w)
           \/ \E t \in Trips, kind \in {"email", "google"} : SetOut(t, kind)
           \/ \E w \in Workspaces : SignOut(w)
  BY <1>2, <1>7 DEF SaveAnonymous, SaveOwned, SetOut, SignOut
<1> QED BY <1>4, <1>6, <1>7 DEF AccountsStep

\* The statements of a publish.
LEMMA PublishUndoable ==
  ASSUME Typed, Undoable, NEW q \in Requests,
         ReadLive(q) \/ WriteLive(q) \/ InsertPublish(q)
  PROVE  Undoable'
<1>1. req[q] \in Request /\ req[q].job = "publish"
  BY Registers DEF ReadLive, WriteLive, InsertPublish
<1>2. /\ req'[q] \in {[req[q] EXCEPT !.pc = "write", !.value = live],
                       [req[q] EXCEPT !.pc = "row"], [req[q] EXCEPT !.pc = "mark"]}
      /\ \A s \in Requests \ {q} : req'[s] = req[s]
  BY DEF ReadLive, WriteLive, InsertPublish, Typed
<1>3. CASE ReadLive(q)
  <2>1. /\ req'[q].pc = "write" /\ req'[q].value = live /\ req[q].pc = "read"
        /\ UNCHANGED <<live, publishes, unrecorded>>
    BY <1>1, <1>3 DEF ReadLive, Typed, Request
  <2>2. \A s \in Requests : AboutToBe(req[s]) => AboutToBe(req'[s])
    BY <1>2, <2>1 DEF AboutToBe
  <2>3. Safe => Safe'
    BY <2>1, <2>2 DEF Safe
  <2>4. \A s \in Requests : ReadNew(req'[s]) => ReadNew(req[s]) \/ live = "new"
    BY <1>2, <2>1 DEF ReadNew
  <2> QED BY <2>1, <2>3, <2>4, UndoableStep
<1>4. CASE WriteLive(q)
  <2>1. /\ req'[q].job = "publish" /\ req'[q].pc = "row" /\ req'[q].value = req[q].value
        /\ req[q].pc = "write" /\ UNCHANGED <<publishes, unrecorded>>
    BY <1>1, <1>4 DEF WriteLive, Typed, Request
  <2>2. \A s \in Requests : AboutToBe(req[s]) => AboutToBe(req'[s])
    BY <1>2, <2>1 DEF AboutToBe
  <2>3. Safe => Safe'
    BY <2>1, <2>2 DEF Safe
  <2>4. ReadNew(req[q]) \/ AboutToBe(req'[q])
    BY <1>1, <2>1 DEF ReadNew, AboutToBe
  <2>5. AboutToBe(req'[q]) => Safe'
    BY DEF Safe
  <2> QED BY <2>3, <2>4, <2>5 DEF Undoable
<1>5. CASE InsertPublish(q)
  <2>1. /\ req'[q].pc = "mark" /\ UNCHANGED <<live, unrecorded>>
        /\ publishes' = publishes \cup {Row("published", req[q].value)}
    BY <1>1, <1>5 DEF InsertPublish, Typed, Request
  <2>2. Good(publishes) => Good(publishes')
    BY <2>1 DEF Good
  <2>3. AboutToBe(req[q]) => Good(publishes')
    <3>1. Row("published", req[q].value) \in publishes'
      BY <2>1
    <3>2. /\ Row("published", req[q].value).status = "published"
          /\ Row("published", req[q].value).before = req[q].value
      BY DEF Row
    <3> QED BY <3>1, <3>2 DEF AboutToBe, Good
  <2>4. \A s \in Requests \ {q} : AboutToBe(req[s]) => AboutToBe(req'[s])
    BY <1>2
  <2>5. Safe => Safe'
    BY <2>1, <2>2, <2>3, <2>4 DEF Safe
  <2>6. \A s \in Requests : ReadNew(req'[s]) => ReadNew(req[s])
    BY <1>2, <2>1 DEF ReadNew
  <2> QED BY <2>1, <2>5, <2>6, UndoableStep
<1> QED BY <1>3, <1>4, <1>5

\* A publish that throws or dies with the page written is remembered.
LEMMA EndUndoable ==
  ASSUME Typed, Undoable, NEW q \in Requests,
         \/ WriteDecision(q) \/ MarkPublished(q) \/ ThrowMark(q) \/ Die(q)
         \/ \E before \in Values \cup {"none"} : RefuseWrite(q, before)
         \/ \E taken \in BOOLEAN : ThrowWrite(q, taken)
  PROVE  Undoable'
<1>1. req' = [req EXCEPT ![q] = Free]
  BY DEF WriteDecision, MarkPublished, ThrowMark, RefuseWrite, ThrowWrite, Die
<1>2. ~ReadNew(Free)
  BY FreeIs DEF ReadNew
<1>3. CASE unrecorded'
  BY <1>3 DEF Undoable, Safe
<1>4. CASE ~unrecorded'
  <2>1. ~AboutToBe(req[q])
    BY <1>4 DEF WriteDecision, MarkPublished, ThrowMark, RefuseWrite, ThrowWrite, Die, AboutToBe
  <2>2. ~unrecorded
    BY <1>4 DEF WriteDecision, MarkPublished, ThrowMark, RefuseWrite, ThrowWrite, Die
  <2>3. live' = live
    BY <1>4 DEF WriteDecision, MarkPublished, ThrowMark, RefuseWrite, ThrowWrite, Die
  <2>4. publishes \subseteq publishes'
    BY DEF WriteDecision, MarkPublished, ThrowMark, RefuseWrite, ThrowWrite, Die
  <2> QED BY <1>1, <1>2, <2>1, <2>2, <2>3, <2>4, IdleUndoable
<1> QED BY <1>3, <1>4

\* Every step keeps Undoable.
LEMMA StepUndoable == Known /\ Undoable /\ [ServerNext]_serverVars => Undoable'
<1> SUFFICES ASSUME Typed, Undoable, [ServerNext]_serverVars PROVE Undoable'
  BY DEF Known
<1>1. CASE AccountsStep /\ UNCHANGED publishingVars
  BY <1>1, AccountsUndoable
<1>2. CASE (\E w \in Workspaces : QueueApproval(w)) \/ EditLive
  BY <1>2 DEF QueueApproval, EditLive, Undoable, Safe
<1>3. ASSUME NEW q \in Requests, NEW w \in Workspaces,
             BeginPublish(q, w) \/ \E decision \in DECISIONS : BeginDecide(q, w, decision)
      PROVE  Undoable'
  <2>1. /\ req' = [req EXCEPT ![q] = req'[q]] /\ req[q] = Free
        /\ UNCHANGED <<live, publishes, unrecorded>>
    BY <1>3 DEF BeginPublish, BeginDecide, Typed
  <2>2. req'[q].pc \in {"read", "none"}
    BY <1>3 DEF BeginPublish, BeginDecide, Typed, Free
  <2>3. ~AboutToBe(req[q]) /\ ~ReadNew(req'[q])
    BY <2>1, <2>2, FreeIs DEF AboutToBe, ReadNew
  <2> QED BY <2>1, <2>3, IdleUndoable
<1>4. CASE UNCHANGED serverVars
  BY <1>4 DEF serverVars, publishingVars, Undoable, Safe
<1> QED BY <1>1, <1>2, <1>3, <1>4, PublishUndoable, EndUndoable DEF ServerNext, PublishingStep

(***************************************************************************)
(* A published change can be undone, however many publishes of it overlap, *)
(* die or are decided again meanwhile, unless one ended between its write  *)
(* and its row (publish in server/wordpress.ts, POST in                    *)
(* app/api/publish/route.ts).                                              *)
(***************************************************************************)
THEOREM PublishedCanBeUndone == ServerSpec => []UndoIsRecorded
<1>1. ServerInit => Undoable
  BY FreeIs DEF ServerInit, AccountsInit, PublishingInit, Undoable, ReadNew
<1>2. Undoable => UndoIsRecorded
  BY DEF Undoable, Safe, Good, AboutToBe, UndoIsRecorded
<1> QED BY <1>1, <1>2, StepUndoable, KnownHolds, PTL DEF ServerSpec

-----------------------------------------------------------------------------
(***************************************************************************)
(* Billing.  The property alone is not inductive: it says nothing while an *)
(* event is under way.  The invariant follows an event through its three   *)
(* statements, and says of a crash between the second and the third that   *)
(* the event whose plan the workspace does not have yet is to come again.  *)
(***************************************************************************)
BillingSpec == BillingInit /\ [][BillingNext]_billingVars

Busy(d) == handling[d] # Idle

BillingTyped ==
  /\ events \in Seq(Kinds) /\ Len(events) <= MaxEvents
  /\ unacked \subseteq 1..Len(events)
  /\ handling \in [Deliveries -> {Idle} \cup [event : 1..MaxEvents, done : 0..3]]
  /\ \A d \in Deliveries : Busy(d) => handling[d].event \in 1..Len(events)
  /\ applied \in 0..Len(events)

\* One event at a time, and how far it has come.
InOrder ==
  /\ \A c, d \in Deliveries : Busy(c) /\ Busy(d) => c = d
  /\ \A d \in Deliveries : Busy(d) =>
       /\ handling[d].event \in unacked
       /\ handling[d].done >= 2 => applied = handling[d].event
       /\ handling[d].done = 3 => orgPlan = planAfter(events[handling[d].event])

\* Nothing acknowledged is later than what was applied; what was applied is
\* in both places or comes again.
Applied ==
  /\ \A e \in 1..Len(events) : e \notin unacked => e <= applied
  /\ applied > 0 => /\ subscription = planAfter(events[applied])
                    /\ applied \in unacked \/ orgPlan = planAfter(events[applied])

BillingInv == BillingTyped /\ (~unordered => InOrder /\ Applied)

-----------------------------------------------------------------------------
\* The initial states satisfy the invariant.
LEMMA BillingInitHolds == BillingInit => BillingInv
<1> SUFFICES ASSUME BillingInit PROVE BillingInv
  OBVIOUS
<1>1. BillingTyped
  BY BillingAssumption DEF BillingInit, BillingTyped, Busy
<1>2. InOrder /\ Applied
  BY DEF BillingInit, InOrder, Applied, Busy
<1> QED BY <1>1, <1>2 DEF BillingInv

\* What a busy delivery holds.
LEMMA BusyHolds ==
  ASSUME BillingTyped, NEW d \in Deliveries, Busy(d)
  PROVE  /\ handling[d] \in [event : 1..MaxEvents, done : 0..3]
         /\ handling[d].event \in 1..Len(events) /\ handling[d].done \in 0..3
BY DEF BillingTyped, Busy

\* The next statement of a delivery.
LEMMA AdvanceHolds ==
  ASSUME BillingTyped, NEW d \in Deliveries, Busy(d), handling[d].done < 3, Advance(d)
  PROVE  /\ handling' \in [Deliveries -> {Idle} \cup [event : 1..MaxEvents, done : 0..3]]
         /\ handling'[d].event = handling[d].event /\ handling'[d].done = handling[d].done + 1
         /\ \A c \in Deliveries \ {d} : handling'[c] = handling[c]
         /\ \A c \in Deliveries : Busy(c)' <=> Busy(c)
<1> DEFINE next == [handling[d] EXCEPT !.done = @ + 1]
<1>1. handling' = [handling EXCEPT ![d] = next]
  BY DEF Advance
<1>2. next \in [event : 1..MaxEvents, done : 0..3]
      /\ next.event = handling[d].event /\ next.done = handling[d].done + 1
  BY BusyHolds
<1>3. next # Idle
  BY <1>2, BillingAssumption
<1> HIDE DEF next
<1> QED BY <1>1, <1>2, <1>3 DEF BillingTyped, Busy

\* A new event is the latest and is not yet applied.
LEMMA IssueKeeps ==
  ASSUME BillingInv, NEW event \in Kinds, Issue(event)
  PROVE  BillingInv'
<1>1. /\ events' = Append(events, event) /\ Len(events') = Len(events) + 1
      /\ events' \in Seq(Kinds) /\ Len(events) \in Nat
      /\ \A e \in 1..Len(events) : events'[e] = events[e]
      /\ unacked' = unacked \cup {Len(events) + 1}
      /\ UNCHANGED <<handling, billingLog, subscription, orgPlan, applied, unordered, crashes>>
  BY DEF Issue, BillingInv, BillingTyped
<1>2. BillingTyped'
  <2>1. Len(events') <= MaxEvents
    BY <1>1, BillingAssumption DEF Issue
  <2>2. ASSUME NEW d \in Deliveries, Busy(d)'
        PROVE  handling'[d].event \in 1..Len(events')
    <3>1. Busy(d) /\ handling'[d] = handling[d]
      BY <1>1, <2>2 DEF Busy
    <3>2. handling[d].event \in 1..Len(events)
      BY <3>1 DEF BillingInv, BillingTyped
    <3> QED BY <1>1, <3>1, <3>2
  <2>3. unacked' \subseteq 1..Len(events') /\ applied' \in 0..Len(events')
    <3>1. 1..Len(events) \subseteq 1..(Len(events) + 1) /\ Len(events) + 1 \in 1..(Len(events) + 1)
      BY <1>1
    <3>2. unacked \subseteq 1..Len(events) /\ applied \in 0..Len(events)
      BY DEF BillingInv, BillingTyped
    <3>3. applied \in 0..(Len(events) + 1)
      BY <1>1, <3>2
    <3> QED BY <1>1, <3>1, <3>2, <3>3
  <2> QED BY <1>1, <2>1, <2>2, <2>3 DEF BillingInv, BillingTyped
<1>3. ASSUME ~unordered'
      PROVE  InOrder'
  BY <1>1, <1>3 DEF BillingInv, BillingTyped, InOrder, Busy
<1>4. ASSUME ~unordered'
      PROVE  Applied'
  BY <1>1, <1>4 DEF BillingInv, BillingTyped, Applied
<1> QED BY <1>2, <1>3, <1>4 DEF BillingInv

\* A delivery starts with nothing done.
LEMMA DeliverKeeps ==
  ASSUME BillingInv, NEW d \in Deliveries, NEW e \in unacked, Deliver(d, e)
  PROVE  BillingInv'
<1> DEFINE next == [event |-> e, done |-> 0]
<1>1. /\ handling' = [handling EXCEPT ![d] = next]
      /\ UNCHANGED <<events, unacked, billingLog, subscription, orgPlan, applied, crashes>>
      /\ handling \in [Deliveries -> {Idle} \cup [event : 1..MaxEvents, done : 0..3]]
  BY DEF Deliver, BillingInv, BillingTyped
<1>2. e \in 1..Len(events) /\ e \in 1..MaxEvents
  BY BillingAssumption DEF BillingInv, BillingTyped
<1>3. next \in [event : 1..MaxEvents, done : 0..3] /\ next # Idle /\ next.event = e /\ next.done = 0
  BY <1>2, BillingAssumption
<1> HIDE DEF next
<1>4. /\ handling' \in [Deliveries -> {Idle} \cup [event : 1..MaxEvents, done : 0..3]]
      /\ handling'[d] = next /\ \A c \in Deliveries \ {d} : handling'[c] = handling[c]
  BY <1>1, <1>3
<1>5. BillingTyped'
  BY <1>1, <1>2, <1>3, <1>4 DEF BillingInv, BillingTyped, Busy
<1>6. ASSUME ~unordered'
      PROVE  InOrder' /\ Applied'
  <2>1. ~unordered /\ \A c \in Deliveries : ~Busy(c)
    BY <1>6 DEF Deliver, Busy
  <2>2. InOrder'
    BY <1>1, <1>3, <1>4, <2>1 DEF InOrder, Busy
  <2>3. Applied'
    BY <1>1, <2>1 DEF BillingInv, Applied
  <2> QED BY <2>2, <2>3
<1> QED BY <1>5, <1>6 DEF BillingInv

\* Recording the event changes neither the subscription nor the plan.
LEMMA LogEventKeeps ==
  ASSUME BillingInv, NEW d \in Deliveries, LogEvent(d)
  PROVE  BillingInv'
<1>1. /\ Busy(d) /\ handling[d].done = 0 /\ Advance(d) /\ BillingTyped
      /\ UNCHANGED <<events, unacked, subscription, orgPlan, applied, unordered, crashes>>
  BY DEF LogEvent, At, Busy, BillingInv
<1>2. /\ handling' \in [Deliveries -> {Idle} \cup [event : 1..MaxEvents, done : 0..3]]
      /\ handling'[d].event = handling[d].event /\ handling'[d].done = 1
      /\ \A c \in Deliveries \ {d} : handling'[c] = handling[c]
      /\ \A c \in Deliveries : Busy(c)' <=> Busy(c)
  BY <1>1, AdvanceHolds
<1>3. BillingTyped'
  BY <1>1, <1>2 DEF BillingTyped
<1>4. ASSUME ~unordered'
      PROVE  InOrder' /\ Applied'
  <2>1. InOrder'
    BY <1>1, <1>2, <1>4 DEF BillingInv, InOrder
  <2>2. Applied'
    BY <1>1, <1>4 DEF BillingInv, Applied
  <2> QED BY <2>1, <2>2
<1> QED BY <1>3, <1>4 DEF BillingInv

\* The subscription row takes what the event says.
LEMMA WriteSubscriptionKeeps ==
  ASSUME BillingInv, NEW d \in Deliveries, WriteSubscription(d)
  PROVE  BillingInv'
<1> DEFINE e == handling[d].event
<1>1. /\ Busy(d) /\ handling[d].done = 1 /\ Advance(d) /\ BillingTyped
      /\ subscription' = planAfter(events[e]) /\ applied' = e
      /\ unordered' = (unordered \/ e < applied)
      /\ UNCHANGED <<events, unacked, orgPlan, crashes>>
  BY DEF WriteSubscription, At, Busy, BillingInv
<1>2. /\ handling' \in [Deliveries -> {Idle} \cup [event : 1..MaxEvents, done : 0..3]]
      /\ handling'[d].event = e /\ handling'[d].done = 2
      /\ \A c \in Deliveries \ {d} : handling'[c] = handling[c]
      /\ \A c \in Deliveries : Busy(c)' <=> Busy(c)
  BY <1>1, AdvanceHolds
<1>3. e \in 1..Len(events) /\ applied \in 0..Len(events) /\ Len(events) \in Nat
  BY <1>1, BusyHolds DEF BillingTyped
<1> HIDE DEF e
<1>4. BillingTyped'
  BY <1>1, <1>2, <1>3 DEF BillingTyped
<1>5. ASSUME ~unordered'
      PROVE  InOrder' /\ Applied'
  <2>0. ~unordered /\ ~(e < applied)
    BY <1>1, <1>5
  <2>1. ~unordered /\ applied <= e
    BY <1>3, <2>0
  <2>2. InOrder /\ Applied
    BY <2>1 DEF BillingInv
  <2>3. e \in unacked /\ \A c \in Deliveries : Busy(c) => c = d
    BY <1>1, <2>2 DEF InOrder, e
  <2>4. InOrder'
    BY <1>1, <1>2, <2>3 DEF InOrder
  <2>5. Applied'
    BY <1>1, <1>3, <2>1, <2>2, <2>3 DEF Applied
  <2> QED BY <2>4, <2>5
<1> QED BY <1>4, <1>5 DEF BillingInv

\* The plan takes what the event says.
LEMMA WriteOrgKeeps ==
  ASSUME BillingInv, NEW d \in Deliveries, WriteOrg(d)
  PROVE  BillingInv'
<1> DEFINE e == handling[d].event
<1>1. /\ Busy(d) /\ handling[d].done = 2 /\ Advance(d) /\ BillingTyped
      /\ orgPlan' = planAfter(events[e])
      /\ UNCHANGED <<events, unacked, subscription, applied, unordered, crashes>>
  BY DEF WriteOrg, At, Busy, BillingInv
<1>2. /\ handling' \in [Deliveries -> {Idle} \cup [event : 1..MaxEvents, done : 0..3]]
      /\ handling'[d].event = e /\ handling'[d].done = 3
      /\ \A c \in Deliveries \ {d} : handling'[c] = handling[c]
      /\ \A c \in Deliveries : Busy(c)' <=> Busy(c)
  BY <1>1, AdvanceHolds
<1> HIDE DEF e
<1>3. BillingTyped'
  BY <1>1, <1>2 DEF BillingTyped, e
<1>4. ASSUME ~unordered'
      PROVE  InOrder' /\ Applied'
  <2>1. InOrder /\ Applied
    BY <1>1, <1>4 DEF BillingInv
  <2>2. e \in unacked /\ applied = e /\ \A c \in Deliveries : Busy(c) => c = d
    BY <1>1, <2>1 DEF InOrder, e
  <2>3. InOrder'
    BY <1>1, <1>2, <2>2 DEF InOrder
  <2>4. Applied'
    BY <1>1, <2>1, <2>2 DEF Applied
  <2> QED BY <2>3, <2>4
<1> QED BY <1>3, <1>4 DEF BillingInv

\* A delivery ends, acknowledged or not.
LEMMA EndKeeps ==
  ASSUME BillingInv, NEW d \in Deliveries, Acknowledge(d) \/ CrashDelivery(d)
  PROVE  BillingInv'
<1>1. /\ Busy(d) /\ BillingTyped /\ handling' = [handling EXCEPT ![d] = Idle]
      /\ UNCHANGED <<events, subscription, orgPlan, applied, unordered>>
      /\ unacked' \in {unacked, unacked \ {handling[d].event}}
      /\ unacked' # unacked => handling[d].done = 3
  BY DEF Acknowledge, CrashDelivery, At, Busy, BillingInv
<1>2. /\ handling' \in [Deliveries -> {Idle} \cup [event : 1..MaxEvents, done : 0..3]]
      /\ ~Busy(d)' /\ \A c \in Deliveries \ {d} : handling'[c] = handling[c]
  BY <1>1 DEF BillingTyped, Busy
<1>3. BillingTyped'
  BY <1>1, <1>2 DEF BillingTyped, Busy
<1>4. ASSUME ~unordered'
      PROVE  InOrder' /\ Applied'
  <2>1. InOrder /\ Applied
    BY <1>1, <1>4 DEF BillingInv
  <2>2. \A c \in Deliveries : ~Busy(c)'
    BY <1>1, <1>2, <2>1 DEF InOrder, Busy
  <2>3. InOrder'
    BY <2>2 DEF InOrder
  <2>4. CASE unacked' = unacked
    <3>1. UNCHANGED <<events, unacked, subscription, orgPlan, applied>>
      BY <1>1, <2>4
    <3> QED BY <2>1, <2>3, <3>1 DEF Applied
  <2>5. CASE unacked' # unacked
    <3>1. applied = handling[d].event /\ orgPlan = planAfter(events[handling[d].event])
      BY <1>1, <2>1, <2>5 DEF InOrder
    <3>2. applied \in Nat
      BY <1>1 DEF BillingTyped
    <3>3. /\ unacked' = unacked \ {handling[d].event}
          /\ UNCHANGED <<events, subscription, orgPlan, applied>>
      BY <1>1, <2>5
    <3>4. \A e \in 1..Len(events) : e \notin unacked' => e <= applied
      BY <2>1, <3>1, <3>2, <3>3 DEF Applied
    <3>5. applied > 0 => subscription = planAfter(events[applied])
      BY <2>1 DEF Applied
    <3> QED BY <2>3, <3>1, <3>3, <3>4, <3>5 DEF Applied
  <2> QED BY <2>3, <2>4, <2>5
<1> QED BY <1>3, <1>4 DEF BillingInv

\* Every step keeps the invariant.
LEMMA BillingKeeps == BillingInv /\ [BillingNext]_billingVars => BillingInv'
<1> SUFFICES ASSUME BillingInv, [BillingNext]_billingVars PROVE BillingInv'
  OBVIOUS
<1>1. CASE UNCHANGED billingVars
  BY <1>1 DEF billingVars, BillingInv, BillingTyped, InOrder, Applied, Busy
<1>2. CASE BillingNext
  BY <1>2, IssueKeeps, DeliverKeeps, LogEventKeeps, WriteSubscriptionKeeps, WriteOrgKeeps,
     EndKeeps DEF BillingNext, BillingStep
<1> QED BY <1>1, <1>2

(***************************************************************************)
(* Once everything is acknowledged, events that came one at a time and in  *)
(* order have left the plan of the last in both places, wherever their     *)
(* deliveries died and came again (POST in app/api/billing/webhook).       *)
(***************************************************************************)
THEOREM PlanIsLatest == BillingSpec => []PlanFollowsEvents
<1>1. BillingInv => PlanFollowsEvents
  <2> SUFFICES ASSUME BillingInv, events # <<>>, unacked = {}, ~unordered
               PROVE  /\ orgPlan = planAfter(events[Len(events)])
                      /\ subscription = orgPlan
    BY DEF PlanFollowsEvents
  <2>1. Len(events) \in Nat \ {0} /\ applied \in 0..Len(events)
    BY DEF BillingInv, BillingTyped
  <2>2. applied = Len(events)
    BY <2>1 DEF BillingInv, Applied
  <2> QED BY <2>1, <2>2 DEF BillingInv, Applied
<1> QED BY <1>1, BillingInitHolds, BillingKeeps, PTL DEF BillingSpec

-----------------------------------------------------------------------------
(***************************************************************************)
(* The cron of the same server: what is mailed, posted and measured more   *)
(* than once, and that the clock of a schedule follows the cadence the     *)
(* user saved, for every number of sites, tabs, milestones and faults.     *)
(***************************************************************************)
\* What the invocation knows about the milestones it is about to mail.
BatchInv ==
  /\ cron.phase \notin {"collected", "sent"} => cron.batch = {}
  /\ \A m \in cron.batch : news[m].what # Null /\ ~news[m].notified
  /\ cron.phase = "sent" => \A m \in cron.batch : mails[m] > 0

\* A mailed milestone is marked, about to be, or was left unmarked.
MailedInv ==
  \A m \in Milestones :
    /\ news[m].what = Null => mails[m] = 0 /\ ~news[m].notified
    /\ mails[m] > 0 => \/ news[m].notified
                       \/ m \in unmarked
                       \/ cron.phase = "sent" /\ m \in cron.batch

MailInv == BatchInv /\ MailedInv /\ NotifiedWasMailed /\ MailedOnceUnlessUnmarked

\* A text in flight is not stored yet and is in flight once, unless crossed.
PostInv ==
  /\ \A t \in Tabs : \A n \in tab[t].posting : \A m \in Milestones :
       news[m].what = n /\ news[m].by = "tab" => n \in crossed
  /\ \A t, u \in Tabs : \A n \in tab[t].posting \cap tab[u].posting :
       t # u => n \in crossed
  /\ PostedOnceUnlessCrossed

-----------------------------------------------------------------------------
Held == cron.todo \cup cron.job

\* A job read earlier has the cadence of the row that still has its id.
Faithful(j) ==
  /\ j.id # 0 /\ j.id <= saves
  /\ \A k \in Keys : rows[k].id = j.id => k = j.key /\ rows[k].cadence = j.cadence

ClockInv ==
  /\ \A k \in Keys : /\ rows[k].id <= saves
                     /\ rows[k].id = 0 => rows[k].cadence = Off
  /\ \A k, l \in Keys : rows[k].id = rows[l].id /\ rows[k].id # 0 => k = l
  /\ \A j \in Held : Faithful(j)
  /\ \A t \in Tabs : \A j \in tab[t].ran : Faithful(j)
  /\ ClockMatchesCadence

-----------------------------------------------------------------------------
\* The clock of k is past the time n, or stopped.
Past(k, n) == rows[k].nextAt # Null => rows[k].nextAt > n

\* The jobs that have not recorded anything yet.
Unread == cron.todo \cup (IF cron.phase = "acting" THEN cron.job ELSE {})

HeldInv ==
  /\ cron.phase # "off" => cron.at <= now
  /\ cron.phase = "off" => Held = {}
  /\ cron.phase = "loop" => cron.job = {}
  /\ cron.job \cap cron.todo = {}
  /\ \A i, j \in cron.job : i = j
  /\ \A i, j \in Held : i.key = j.key => i = j
  /\ \A j \in Held : /\ j.nextAt # Null /\ j.nextAt <= cron.at /\ j.cadence # Off
                     /\ rows[j.key].id = j.id \/ Past(j.key, j.nextAt)
                                              \/ Firing(j) \in reopened
  /\ \A t \in Tabs : \A i \in tab[t].ran : \A j \in Held :
       i.key = j.key /\ rows[i.key].id = i.id /\ i.id # j.id => tab[t].at >= cron.at

ReadInv ==
  /\ \A f \in readings : f[2] <= now /\ (cron.phase # "off" => f[2] <= cron.at)
  /\ \A f \in readings :
       \/ Past(Measuring(f)[1], f[2])
       \/ Measuring(f) \in reopened
       \/ \E j \in cron.job : Firing(j) = Measuring(f) /\ cron.phase \in {"sampled", "closing"}
  /\ \A j \in Unread : j.key[2] = "measure" /\ <<j.key[1], j.nextAt>> \in readings
                       => Firing(j) \in reopened
  /\ ReadOnceUnlessReopened
-----------------------------------------------------------------------------
\* The quotient and remainder of a product.
LEMMA Multiples ==
  ASSUME NEW q \in Nat, NEW c \in Nat \ {0}
  PROVE  (q * c) % c = 0
  OBVIOUS

\* Division rounds down by less than the divisor.
LEMMA NextMultiple ==
  ASSUME NEW t \in Nat, NEW c \in Nat \ {0}
  PROVE  /\ t \div c \in Nat
         /\ ((t \div c) + 1) * c \in Nat
         /\ ((t \div c) + 1) * c > t
  OBVIOUS

\* nextRunAt yields a firing of the cadence strictly after t, or none when off.
LEMMA NextRun ==
  ASSUME NEW c \in Periods \cup {Off}, NEW t \in Nat
  PROVE  /\ nextRunAt(c, t) \in Nat \cup {Null}
         /\ c = Off <=> nextRunAt(c, t) = Null
         /\ c # Off => nextRunAt(c, t) > t /\ nextRunAt(c, t) % c = 0
<1>1. CASE c = Off
  BY <1>1 DEF nextRunAt
<1>2. CASE c # Off
  <2>1. c \in Nat \ {0}
    BY <1>2, ConstantsAssumption
  <2>2. ((t \div c) + 1) * c \in Nat /\ ((t \div c) + 1) * c > t /\ t \div c \in Nat
    BY <2>1, NextMultiple
  <2>3. (t \div c) + 1 \in Nat
    BY <2>2
  <2>4. (((t \div c) + 1) * c) % c = 0
    BY <2>1, <2>3, Multiples
  <2> QED BY <1>2, <2>2, <2>4, ConstantsAssumption DEF nextRunAt
<1> QED BY <1>1, <1>2

\* completeRun leaves rows of the right type behind.
LEMMA MovedType ==
  ASSUME TypeOK, NEW j \in Jobs, NEW t \in Nat
  PROVE  Moved(j, t) \in [Keys -> Rows]
<1>1. nextRunAt(j.cadence, t) \in Nat \cup {Null}
  BY NextRun DEF Jobs
<1>2. ASSUME NEW k \in Keys PROVE [rows[k] EXCEPT !.nextAt = nextRunAt(j.cadence, t)] \in Rows
  BY <1>1 DEF TypeOK, Rows
<1> QED BY <1>2 DEF Moved, TypeOK

\* What a request reads is a job.
LEMMA SnapshotType ==
  ASSUME TypeOK, NEW k \in Keys
  PROVE  Snapshot(k) \in Jobs
BY DEF TypeOK, Snapshot, Jobs, Rows

\* addMilestone leaves rows of the right type behind.
LEMMA AddedType ==
  ASSUME TypeOK, NEW n \in News, NEW by \in {"tab", "cron"}, Added(n, by)
  PROVE  news' \in [Milestones -> MilestoneRows]
<1>1. PICK m \in Milestones :
        news' = [news EXCEPT ![m] = [what |-> n, by |-> by, notified |-> FALSE]]
  BY DEF Added
<1>2. [what |-> n, by |-> by, notified |-> FALSE] \in MilestoneRows
  BY DEF MilestoneRows
<1> QED BY <1>1, <1>2 DEF TypeOK

\* The end of a job leaves the invocation's memory well typed.
LEMMA GoOnType ==
  ASSUME TypeOK, GoOn
  PROVE  cron' \in Crons
BY DEF TypeOK, GoOn, CronOff, Crons

-----------------------------------------------------------------------------
\* Every step keeps the types.
LEMMA TypeStep == TypeOK /\ [Next]_vars => TypeOK'
<1> SUFFICES ASSUME TypeOK, [Next]_vars PROVE TypeOK'
  OBVIOUS
<1>0. CASE UNCHANGED vars
  BY <1>0 DEF TypeOK, vars
<1>1. CASE Tick
  BY <1>1 DEF TypeOK, Tick
<1>2. ASSUME NEW k \in Keys, NEW c \in Periods \cup {Off}, Save(k, c) PROVE TypeOK'
  <2>1. nextRunAt(c, now) \in Nat \cup {Null}
    BY NextRun DEF TypeOK
  <2>2. Saved(k, c) \in Rows
    BY <2>1 DEF Saved, Rows, TypeOK
  <2> QED BY <1>2, <2>2 DEF Save, TypeOK
<1>3. ASSUME NEW t \in Tabs, NEW k \in Keys, ReadRan(t, k) PROVE TypeOK'
  <2>1. [TabIdle EXCEPT !.ran = {Snapshot(k)}, !.at = now] \in TabStates
    BY SnapshotType DEF TabIdle, TabStates, TypeOK
  <2> QED BY <1>3, <2>1 DEF ReadRan, TypeOK
<1>4. ASSUME NEW t \in Tabs, CompleteRan(t) PROVE TypeOK'
  <2>1. PICK j \in tab[t].ran : rows' = Moved(j, tab[t].at)
    BY <1>4 DEF CompleteRan
  <2>2. j \in Jobs /\ tab[t].at \in Nat
    BY DEF TypeOK, TabStates
  <2>3. rows' \in [Keys -> Rows]
    BY <2>1, <2>2, MovedType
  <2>4. \A f \in readings : Measuring(f) \in Keys \X Nat
    BY DEF TypeOK, Measuring, Keys
  <2>5. TabIdle \in TabStates
    BY DEF TabIdle, TabStates
  <2> QED BY <1>4, <2>3, <2>4, <2>5 DEF CompleteRan, TypeOK
<1>5. ASSUME NEW t \in Tabs, NEW N \in SUBSET News, ReadNews(t, N) PROVE TypeOK'
  <2>1. Novel(N) \subseteq News
    BY DEF Novel
  <2>2. [tab[t] EXCEPT !.posting = Novel(N)] \in TabStates
    BY <2>1 DEF TypeOK, TabStates
  <2> QED BY <1>5, <2>1, <2>2 DEF ReadNews, TypeOK
<1>6. ASSUME NEW t \in Tabs, NEW n \in News, PostNews(t, n) PROVE TypeOK'
  <2>1. news' \in [Milestones -> MilestoneRows]
    BY <1>6, AddedType DEF PostNews
  <2>2. [tab[t] EXCEPT !.posting = tab[t].posting \ {n}] \in TabStates
    BY DEF TypeOK, TabStates
  <2> QED BY <1>6, <2>1, <2>2 DEF PostNews, TypeOK
<1>7. ASSUME NEW t \in Tabs, PostThrows(t) PROVE TypeOK'
  BY <1>7 DEF PostThrows, TypeOK, TabIdle, TabStates
<1>8. CASE Fire
  <2>1. PICK A \in SUBSET {k \in Keys : Due(k)} :
          cron' = [CronOff EXCEPT !.phase = "loop", !.at = now, !.todo = {Snapshot(k) : k \in A}]
    BY <1>8 DEF Fire
  <2>2. {Snapshot(k) : k \in A} \subseteq DueJobs
    <3>1. ASSUME NEW k \in A PROVE Snapshot(k) \in DueJobs
      BY SnapshotType DEF Due, Snapshot, DueJobs
    <3> QED BY <3>1
  <2>3. cron' \in Crons
    BY <2>1, <2>2 DEF CronOff, Crons, TypeOK
  <2> QED BY <1>8, <2>3 DEF Fire, TypeOK
<1>9. ASSUME NEW j \in cron.todo, TakeJob(j) PROVE TypeOK'
  BY <1>9 DEF TakeJob, TypeOK, Crons
<1>10. CASE Skip
  BY <1>10 DEF Skip, TypeOK, Crons
<1>11. ASSUME NEW j \in cron.job, Sample(j) PROVE TypeOK'
  <2>1. j \in Jobs
    BY DEF TypeOK, Crons, DueJobs
  <2>2. cron' \in Crons
    BY <1>11 DEF Sample, TypeOK, Crons
  <2>3. j.key[1] \in Sites
    BY <2>1 DEF Jobs, Keys
  <2>4. <<j.key[1], j.nextAt>> \in Sites \X Nat
    BY <1>11, <2>1, <2>3 DEF Sample, Jobs, TypeOK, Crons, DueJobs
  <2> QED BY <1>11, <2>2, <2>4 DEF Sample, TypeOK
<1>12. CASE SampleOk
  BY <1>12 DEF SampleOk, TypeOK, Crons
<1>13. ASSUME NEW n \in News, SampleDrop(n) PROVE TypeOK'
  <2>1. news' \in [Milestones -> MilestoneRows]
    BY <1>13, AddedType DEF SampleDrop
  <2>2. cron' \in Crons
    BY <1>13 DEF SampleDrop, TypeOK, Crons
  <2> QED BY <1>13, <2>1, <2>2 DEF SampleDrop, TypeOK
<1>14. ASSUME NEW j \in cron.job, Collect(j) PROVE TypeOK'
  <2>1. cron' \in Crons
    BY <1>14 DEF Collect, TypeOK, Crons, unnotified
  <2> QED BY <1>14, <2>1 DEF Collect, TypeOK
<1>15. CASE Send
  <2>1. cron' \in Crons
    BY <1>15 DEF Send, TypeOK, Crons
  <2> QED BY <1>15, <2>1 DEF Send, TypeOK
<1>16. CASE Mark
  <2>1. cron' \in Crons
    BY <1>16 DEF Mark, TypeOK, Crons
  <2>2. \A m \in Milestones : [news[m] EXCEPT !.notified = TRUE] \in MilestoneRows
    BY DEF TypeOK, MilestoneRows
  <2> QED BY <1>16, <2>1, <2>2 DEF Mark, Marked, TypeOK
<1>17. CASE Throw
  <2>1. cron' \in Crons
    BY <1>17 DEF Throw, TypeOK, Crons
  <2> QED BY <1>17, <2>1 DEF Throw, Unmarked, TypeOK, Crons
<1>18. ASSUME NEW j \in cron.job, Complete(j) PROVE TypeOK'
  <2>1. j \in Jobs /\ cron.at \in Nat
    BY DEF TypeOK, Crons, DueJobs
  <2>2. rows' \in [Keys -> Rows]
    BY <1>18, <2>1, MovedType DEF Complete
  <2>3. cron' \in Crons
    BY <1>18, GoOnType DEF Complete
  <2> QED BY <1>18, <2>2, <2>3 DEF Complete, TypeOK
<1>19. ASSUME NEW j \in cron.job, CompleteThrows(j) PROVE TypeOK'
  <2>1. Firing(j) \in Keys \X Nat
    BY DEF TypeOK, Crons, DueJobs, Jobs, Firing
  <2>2. CASE cron.failed
    <3>1. cron' \in Crons
      BY <1>19, <2>2, GoOnType DEF CompleteThrows
    <3> QED BY <1>19, <2>1, <2>2, <3>1 DEF CompleteThrows, TypeOK
  <2>3. CASE ~cron.failed
    <3>1. cron' \in Crons
      BY <1>19, <2>3 DEF CompleteThrows, TypeOK, Crons
    <3> QED BY <1>19, <2>3, <3>1 DEF CompleteThrows, TypeOK
  <2> QED BY <2>2, <2>3
<1>20. CASE Kill
  <2>1. cron' \in Crons
    BY <1>20 DEF Kill, CronOff, Crons
  <2>2. \A j \in cron.job : Firing(j) \in Keys \X Nat
    BY DEF TypeOK, Crons, Jobs, DueJobs, Firing
  <2> QED BY <1>20, <2>1, <2>2 DEF Kill, Unmarked, TypeOK, Crons
<1> QED
  BY <1>0, <1>1, <1>2, <1>3, <1>4, <1>5, <1>6, <1>7, <1>8, <1>9, <1>10, <1>11, <1>12,
     <1>13, <1>14, <1>15, <1>16, <1>17, <1>18, <1>19, <1>20 DEF Next, Work

\* The initial states have their types.
LEMMA TypeInit == Init => TypeOK
BY ConstantsAssumption
   DEF Init, TypeOK, Rows, NoMilestone, MilestoneRows, CronOff, Crons, TabIdle, TabStates

\* TypeCorrect: the tables, the invocation's memory and the tabs' memories
\* keep their types, whatever the requests and the faults.
THEOREM TypeCorrect == Spec => []TypeOK
<1>1. TypeOK /\ [Next]_vars => TypeOK'
  BY TypeStep
<1> QED BY <1>1, TypeInit, PTL DEF Spec

-----------------------------------------------------------------------------
\* A new milestone row was never mailed, marked or collected.
LEMMA AddedKeepsMail ==
  ASSUME TypeOK, MailInv, NEW n \in News, NEW by \in {"tab", "cron"}, Added(n, by),
         UNCHANGED <<mails, unmarked>>, cron'.batch = cron.batch,
         cron'.phase = cron.phase \/ cron.phase \notin {"collected", "sent"},
         cron'.phase = cron.phase \/ cron'.phase \notin {"collected", "sent"}
  PROVE  MailInv'
<1>1. PICK m \in Milestones :
        /\ news[m].what = Null
        /\ news' = [news EXCEPT ![m] = [what |-> n, by |-> by, notified |-> FALSE]]
  BY DEF Added
<1>2. m \notin cron.batch /\ mails[m] = 0
  BY <1>1 DEF MailInv, BatchInv, MailedInv
<1>3. n # Null /\ cron.batch \subseteq Milestones
  BY ConstantsAssumption DEF TypeOK, Crons
<1>4. BatchInv'
  BY <1>1, <1>2, <1>3 DEF MailInv, BatchInv, TypeOK
<1>5. MailedInv'
  BY <1>1, <1>2, <1>3 DEF MailInv, BatchInv, MailedInv, TypeOK
<1>6. NotifiedWasMailed'
  BY <1>1, <1>2 DEF MailInv, NotifiedWasMailed, TypeOK
<1>7. MailedOnceUnlessUnmarked'
  BY <1>1 DEF MailInv, MailedOnceUnlessUnmarked
<1> QED BY <1>4, <1>5, <1>6, <1>7 DEF MailInv

\* An interruption that empties the batch records what it leaves unmarked.
LEMMA InterruptedKeepsMail ==
  ASSUME TypeOK, MailInv, UNCHANGED <<news, mails>>, unmarked' = unmarked \cup Unmarked,
         cron'.batch = {}, cron'.phase \notin {"collected", "sent"}
  PROVE  MailInv'
BY DEF MailInv, BatchInv, MailedInv, NotifiedWasMailed, MailedOnceUnlessUnmarked, Unmarked, TypeOK

\* A step that leaves the batch alone, outside of deliver.
LEMMA OutsideKeepsMail ==
  ASSUME TypeOK, MailInv, UNCHANGED <<news, mails, unmarked>>,
         cron'.batch = cron.batch \/ cron'.batch = {},
         cron'.phase \notin {"collected", "sent"}, cron.phase \notin {"collected", "sent"}
  PROVE  MailInv'
BY DEF MailInv, BatchInv, MailedInv, NotifiedWasMailed, MailedOnceUnlessUnmarked, TypeOK

\* Every step keeps the bookkeeping of the mailed milestones.
LEMMA MailStep == TypeOK /\ MailInv /\ [Next]_vars => MailInv'
<1> SUFFICES ASSUME TypeOK, MailInv, [Next]_vars PROVE MailInv'
  OBVIOUS
<1> USE DEF Crons
<1>0. ASSUME UNCHANGED <<news, cron, mails, unmarked>> PROVE MailInv'
  BY <1>0 DEF MailInv, BatchInv, MailedInv, NotifiedWasMailed, MailedOnceUnlessUnmarked
<1>1. CASE UNCHANGED vars
  BY <1>0, <1>1 DEF vars
<1>2. CASE Tick
  BY <1>0, <1>2 DEF Tick
<1>3. ASSUME NEW k \in Keys, NEW c \in Periods \cup {Off}, Save(k, c) PROVE MailInv'
  BY <1>0, <1>3 DEF Save
<1>4. ASSUME NEW t \in Tabs, NEW k \in Keys, ReadRan(t, k) PROVE MailInv'
  BY <1>0, <1>4 DEF ReadRan
<1>5. ASSUME NEW t \in Tabs, CompleteRan(t) PROVE MailInv'
  BY <1>0, <1>5 DEF CompleteRan
<1>6. ASSUME NEW t \in Tabs, NEW N \in SUBSET News, ReadNews(t, N) PROVE MailInv'
  BY <1>0, <1>6 DEF ReadNews
<1>7. ASSUME NEW t \in Tabs, NEW n \in News, PostNews(t, n) PROVE MailInv'
  BY <1>7, AddedKeepsMail DEF PostNews
<1>8. ASSUME NEW t \in Tabs, PostThrows(t) PROVE MailInv'
  BY <1>0, <1>8 DEF PostThrows
<1>9. CASE Fire
  BY <1>9, OutsideKeepsMail DEF Fire, CronOff
<1>10. ASSUME NEW j \in cron.todo, TakeJob(j) PROVE MailInv'
  BY <1>10, OutsideKeepsMail DEF TakeJob, TypeOK
<1>11. CASE Skip
  BY <1>11 DEF Skip, TypeOK, MailInv, BatchInv, MailedInv, NotifiedWasMailed,
               MailedOnceUnlessUnmarked
<1>12. ASSUME NEW j \in cron.job, Sample(j) PROVE MailInv'
  BY <1>12, OutsideKeepsMail DEF Sample, TypeOK
<1>13. CASE SampleOk
  BY <1>13, OutsideKeepsMail DEF SampleOk, TypeOK
<1>14. ASSUME NEW n \in News, SampleDrop(n) PROVE MailInv'
  BY <1>14, AddedKeepsMail DEF SampleDrop, TypeOK
<1>15. ASSUME NEW j \in cron.job, Collect(j) PROVE MailInv'
  BY <1>15 DEF Collect, unnotified, TypeOK, MailInv, BatchInv, MailedInv, NotifiedWasMailed,
               MailedOnceUnlessUnmarked
<1>16. CASE Send
  <2>1. BatchInv'
    BY <1>16 DEF Send, TypeOK, MailInv, BatchInv
  <2>2. MailedInv'
    BY <1>16 DEF Send, TypeOK, MailInv, BatchInv, MailedInv
  <2>3. NotifiedWasMailed'
    BY <1>16 DEF Send, TypeOK, MailInv, NotifiedWasMailed
  <2>4. MailedOnceUnlessUnmarked'
    BY <1>16 DEF Send, TypeOK, MailInv, BatchInv, MailedInv, MailedOnceUnlessUnmarked
  <2> QED BY <2>1, <2>2, <2>3, <2>4 DEF MailInv
<1>17. CASE Mark
  <2>1. \A m \in Milestones :
          /\ news'[m].what = news[m].what
          /\ news'[m].notified <=> news[m].notified \/ m \in cron.batch
    BY <1>17 DEF Mark, Marked, TypeOK, MilestoneRows
  <2>2. cron'.batch = {} /\ cron'.phase = "closing"
    BY <1>17 DEF Mark, TypeOK
  <2>3. BatchInv'
    BY <2>2 DEF BatchInv
  <2>4. MailedInv'
    BY <1>17, <2>1, <2>2 DEF Mark, MailInv, BatchInv, MailedInv, TypeOK
  <2>5. NotifiedWasMailed' /\ MailedOnceUnlessUnmarked'
    BY <1>17, <2>1 DEF Mark, MailInv, BatchInv, NotifiedWasMailed, MailedOnceUnlessUnmarked
  <2> QED BY <2>3, <2>4, <2>5 DEF MailInv
<1>18. CASE Throw
  BY <1>18, InterruptedKeepsMail DEF Throw, TypeOK
<1>19. ASSUME NEW j \in cron.job, Complete(j) PROVE MailInv'
  BY <1>19, OutsideKeepsMail DEF Complete, GoOn, CronOff, TypeOK
<1>20. ASSUME NEW j \in cron.job, CompleteThrows(j) PROVE MailInv'
  <2>1. CASE cron.failed
    <3>1. GoOn /\ cron.phase = "closing" /\ UNCHANGED <<news, mails, unmarked>>
      BY <1>20, <2>1 DEF CompleteThrows
    <3> QED BY <3>1, OutsideKeepsMail DEF GoOn, CronOff, TypeOK
  <2>2. CASE ~cron.failed
    BY <1>20, <2>2, OutsideKeepsMail DEF CompleteThrows, TypeOK
  <2> QED BY <2>1, <2>2
<1>21. CASE Kill
  BY <1>21, InterruptedKeepsMail DEF Kill, CronOff, TypeOK
<1> QED
  BY <1>1, <1>2, <1>3, <1>4, <1>5, <1>6, <1>7, <1>8, <1>9, <1>10, <1>11, <1>12, <1>13,
     <1>14, <1>15, <1>16, <1>17, <1>18, <1>19, <1>20, <1>21 DEF Next, Work

\* The initial states satisfy MailInv.
LEMMA MailInit == Init => MailInv
BY DEF Init, MailInv, BatchInv, MailedInv, NotifiedWasMailed, MailedOnceUnlessUnmarked,
       CronOff, NoMilestone

\* NewsMailedOnce: for every table and every number of interruptions, a
\* milestone marked as notified was mailed (deliver marks after send), and one
\* is mailed again only after a report that went out was not marked.
THEOREM NewsMailedOnce == Spec => [](NotifiedWasMailed /\ MailedOnceUnlessUnmarked)
<1>1. TypeOK /\ MailInv /\ [Next]_vars => (TypeOK /\ MailInv)'
  BY TypeStep, MailStep
<1>2. Init => TypeOK /\ MailInv
  BY TypeInit, MailInit
<1>3. TypeOK /\ MailInv => NotifiedWasMailed /\ MailedOnceUnlessUnmarked
  BY DEF MailInv
<1> QED BY <1>1, <1>2, <1>3, PTL DEF Spec

-----------------------------------------------------------------------------
\* Every step keeps the posted texts apart, unless two requests crossed.
LEMMA PostStep == TypeOK /\ PostInv /\ [Next]_vars => PostInv'
<1> SUFFICES ASSUME TypeOK, PostInv, [Next]_vars PROVE PostInv'
  OBVIOUS
<1>0. ASSUME UNCHANGED <<news, tab, crossed>> PROVE PostInv'
  BY <1>0 DEF PostInv, PostedOnceUnlessCrossed
<1>1. ASSUME NEW t \in Tabs, UNCHANGED <<news, crossed>>,
             tab' = [tab EXCEPT ![t] = tab'[t]], tab'[t].posting = {}
      PROVE  PostInv'
  BY <1>1 DEF PostInv, PostedOnceUnlessCrossed, TypeOK
<1>2. ASSUME NEW t \in Tabs, NEW k \in Keys, ReadRan(t, k) PROVE PostInv'
  BY <1>1, <1>2 DEF ReadRan, TabIdle, TypeOK
<1>3. ASSUME NEW t \in Tabs, CompleteRan(t) \/ PostThrows(t) PROVE PostInv'
  BY <1>1, <1>3 DEF CompleteRan, PostThrows, TabIdle, TypeOK
<1>4. ASSUME NEW t \in Tabs, NEW N \in SUBSET News, ReadNews(t, N) PROVE PostInv'
  <2>1. tab'[t].posting = Novel(N) /\ \A u \in Tabs \ {t} : tab'[u] = tab[u]
    BY <1>4 DEF ReadNews, TypeOK, TabStates
  <2>2. \A n \in Novel(N) : \A m \in Milestones : news[m].what # n
    BY DEF Novel
  <2>3. \A u \in Tabs \ {t} : \A n \in Novel(N) \cap tab[u].posting : n \in crossed'
    BY <1>4 DEF ReadNews
  <2> QED BY <1>4, <2>1, <2>2, <2>3 DEF ReadNews, PostInv, PostedOnceUnlessCrossed
<1>5. ASSUME NEW t \in Tabs, NEW n \in News, PostNews(t, n) PROVE PostInv'
  <2>1. PICK m \in Milestones :
          /\ news[m].what = Null
          /\ news' = [news EXCEPT ![m] = [what |-> n, by |-> "tab", notified |-> FALSE]]
    BY <1>5 DEF PostNews, Added
  <2>2. /\ tab'[t].posting = tab[t].posting \ {n} /\ n \in tab[t].posting
        /\ \A u \in Tabs \ {t} : tab'[u] = tab[u]
    BY <1>5 DEF PostNews, TypeOK, TabStates
  <2>3. news'[m].what = n /\ \A l \in Milestones \ {m} : news'[l] = news[l]
    BY <2>1 DEF TypeOK
  <2>4. \A u \in Tabs \ {t} : n \in tab[u].posting => n \in crossed
    BY <2>2 DEF PostInv
  <2>5. \A l \in Milestones : news[l].what = n /\ news[l].by = "tab" => n \in crossed
    BY <2>2 DEF PostInv
  <2>6. UNCHANGED crossed
    BY <1>5 DEF PostNews
  <2>7. \A u \in Tabs : \A x \in tab'[u].posting : \A l \in Milestones :
          news'[l].what = x /\ news'[l].by = "tab" => x \in crossed
    BY <2>2, <2>3, <2>4 DEF PostInv
  <2>8. \A u, v \in Tabs : \A x \in tab'[u].posting \cap tab'[v].posting :
          u # v => x \in crossed
    BY <2>2 DEF PostInv
  <2>9. PostedOnceUnlessCrossed'
    BY <2>3, <2>5, <2>6 DEF PostInv, PostedOnceUnlessCrossed
  <2> QED BY <2>6, <2>7, <2>8, <2>9 DEF PostInv
<1>6. ASSUME NEW n \in News, SampleDrop(n) PROVE PostInv'
  <2>1. PICK m \in Milestones :
          news' = [news EXCEPT ![m] = [what |-> n, by |-> "cron", notified |-> FALSE]]
    BY <1>6 DEF SampleDrop, Added
  <2>2. news'[m].by = "cron" /\ \A l \in Milestones \ {m} : news'[l] = news[l]
    BY <2>1 DEF TypeOK
  <2> QED BY <1>6, <2>2 DEF SampleDrop, PostInv, PostedOnceUnlessCrossed
<1>7. CASE Mark
  <2>1. \A m \in Milestones : news'[m].what = news[m].what /\ news'[m].by = news[m].by
    BY <1>7 DEF Mark, Marked, TypeOK, MilestoneRows
  <2> QED BY <1>7, <2>1 DEF Mark, PostInv, PostedOnceUnlessCrossed
<1>8. CASE Tick \/ UNCHANGED vars \/ Fire \/ Skip \/ SampleOk \/ Send \/ Throw \/ Kill
  BY <1>0, <1>8 DEF Tick, vars, Fire, Skip, SampleOk, Send, Throw, Kill
<1>9. ASSUME NEW k \in Keys, NEW c \in Periods \cup {Off}, Save(k, c) PROVE PostInv'
  BY <1>0, <1>9 DEF Save
<1>10. ASSUME NEW j, TakeJob(j) \/ Sample(j) \/ Collect(j) \/ Complete(j) \/ CompleteThrows(j)
       PROVE  PostInv'
  BY <1>0, <1>10 DEF TakeJob, Sample, Collect, Complete, CompleteThrows
<1> QED
  BY <1>2, <1>3, <1>4, <1>5, <1>6, <1>7, <1>8, <1>9, <1>10 DEF Next, Work

\* PostedOnce: for every number of tabs and texts, a text is stored twice by
\* the POST handler only if two requests looked for it before either stored it.
THEOREM PostedOnce == Spec => []PostedOnceUnlessCrossed
<1>1. Init => TypeOK /\ PostInv
  BY TypeInit DEF Init, PostInv, PostedOnceUnlessCrossed, TabIdle, NoMilestone
<1>2. TypeOK /\ PostInv /\ [Next]_vars => (TypeOK /\ PostInv)'
  BY TypeStep, PostStep
<1>3. PostInv => PostedOnceUnlessCrossed
  BY DEF PostInv
<1> QED BY <1>1, <1>2, <1>3, PTL DEF Spec

-----------------------------------------------------------------------------
\* completeRun by a faithful job moves at most the job's own row, to a firing
\* of the cadence that row still has.
LEMMA MovedFaithful ==
  ASSUME TypeOK, ClockInv, NEW j \in Jobs, NEW t \in Nat, Faithful(j), rows' = Moved(j, t)
  PROVE  /\ \A k \in Keys : rows'[k].id = rows[k].id /\ rows'[k].cadence = rows[k].cadence
         /\ \A k \in Keys : rows[k].id # j.id => rows'[k] = rows[k]
         /\ \A k \in Keys : rows[k].id = j.id =>
              k = j.key /\ rows'[k].nextAt = nextRunAt(j.cadence, t)
         /\ ClockMatchesCadence'
<1>1. \A k \in Keys : rows'[k].id = rows[k].id /\ rows'[k].cadence = rows[k].cadence
  BY DEF Moved, TypeOK, Rows
<1>2. \A k \in Keys : rows[k].id # j.id => rows'[k] = rows[k]
  BY DEF Moved
<1>3. \A k \in Keys : rows[k].id = j.id =>
        k = j.key /\ rows[k].cadence = j.cadence /\ rows'[k].nextAt = nextRunAt(j.cadence, t)
  BY DEF Moved, TypeOK, Rows, Faithful
<1>4. j.cadence \in Periods \cup {Off}
  BY DEF Jobs
<1>5. ASSUME NEW k \in Keys
      PROVE  /\ rows'[k].cadence = Off <=> rows'[k].nextAt = Null
             /\ rows'[k].cadence # Off => rows'[k].nextAt % rows'[k].cadence = 0
  <2>1. CASE rows[k].id = j.id
    BY <1>1, <1>3, <1>4, <2>1, NextRun
  <2>2. CASE rows[k].id # j.id
    BY <1>2, <2>2 DEF ClockInv, ClockMatchesCadence
  <2> QED BY <2>1, <2>2
<1> QED BY <1>1, <1>2, <1>3, <1>5 DEF ClockMatchesCadence

\* A step that changes neither ids nor cadences, and holds no job that was not
\* held or read just now.
LEMMA ClockFrame ==
  ASSUME TypeOK, ClockInv, ClockMatchesCadence', UNCHANGED saves,
         \A k \in Keys : rows'[k].id = rows[k].id /\ rows'[k].cadence = rows[k].cadence,
         \A j \in Held' : Faithful(j),
         \A t \in Tabs : \A j \in tab'[t].ran : Faithful(j)
  PROVE  ClockInv'
<1>1. ASSUME NEW j, Faithful(j) PROVE Faithful(j)'
  BY <1>1 DEF Faithful
<1>2. (\A j \in Held : Faithful(j))'
  BY <1>1
<1>3. (\A t \in Tabs : \A j \in tab[t].ran : Faithful(j))'
  BY <1>1
<1> QED BY <1>2, <1>3 DEF ClockInv

\* What is read now is faithful.
LEMMA SnapshotFaithful ==
  ASSUME TypeOK, ClockInv, NEW k \in Keys, rows[k].id # 0
  PROVE  Faithful(Snapshot(k))
BY DEF TypeOK, ClockInv, Faithful, Snapshot, Rows

\* Every step keeps the clocks with their cadences.
LEMMA ClockStep == TypeOK /\ ClockInv /\ [Next]_vars => ClockInv'
<1> SUFFICES ASSUME TypeOK, ClockInv, [Next]_vars PROVE ClockInv'
  OBVIOUS
<1>0. ASSUME UNCHANGED <<rows, saves>>, Held' \subseteq Held,
             \A t \in Tabs : tab'[t].ran \subseteq tab[t].ran
      PROVE  ClockInv'
  BY <1>0, ClockFrame DEF ClockInv, ClockMatchesCadence
<1>1. ASSUME NEW k \in Keys, NEW c \in Periods \cup {Off}, Save(k, c) PROVE ClockInv'
  <2>1. /\ rows'[k].id = saves + 1 /\ rows'[k].cadence = c
        /\ rows'[k].nextAt = nextRunAt(c, now)
        /\ \A l \in Keys \ {k} : rows'[l] = rows[l]
        /\ saves' = saves + 1 /\ saves \in Nat
    BY <1>1 DEF Save, Saved, TypeOK
  <2>2. ClockMatchesCadence'
    BY <2>1, NextRun DEF ClockMatchesCadence, ClockInv, TypeOK
  <2>3. \A l \in Keys : rows[l].id \in Nat /\ rows[l].id <= saves
    BY DEF ClockInv, TypeOK, Rows
  <2>4. ASSUME NEW j, j.id \in Nat, Faithful(j) PROVE Faithful(j)'
    BY <2>1, <2>3, <2>4 DEF Faithful
  <2>5. (\A j \in Held : Faithful(j))'
    BY <1>1, <2>4 DEF Save, Held, ClockInv, TypeOK, Crons, DueJobs, Jobs
  <2>6. (\A t \in Tabs : \A j \in tab[t].ran : Faithful(j))'
    <3>1. ASSUME NEW t \in Tabs, NEW j \in tab[t].ran PROVE Faithful(j)'
      BY <2>4 DEF ClockInv, TypeOK, TabStates, Jobs
    <3> QED BY <1>1, <3>1 DEF Save
  <2>7. /\ \A l \in Keys : /\ rows'[l].id <= saves'
                           /\ rows'[l].id = 0 => rows'[l].cadence = Off
        /\ \A l, m \in Keys : rows'[l].id = rows'[m].id /\ rows'[l].id # 0 => l = m
    BY <2>1, <2>3 DEF ClockInv
  <2> QED BY <2>2, <2>5, <2>6, <2>7 DEF ClockInv
<1>2. ASSUME NEW t \in Tabs, NEW k \in Keys, ReadRan(t, k) PROVE ClockInv'
  <2>1. Faithful(Snapshot(k))
    BY <1>2, SnapshotFaithful DEF ReadRan
  <2>2. tab'[t].ran = {Snapshot(k)} /\ \A u \in Tabs \ {t} : tab'[u] = tab[u]
    BY <1>2 DEF ReadRan, TabIdle, TypeOK
  <2> QED BY <1>2, <2>1, <2>2, ClockFrame DEF ReadRan, ClockInv, ClockMatchesCadence, Held
<1>3. ASSUME NEW t \in Tabs, CompleteRan(t) PROVE ClockInv'
  <2>1. PICK j \in tab[t].ran : rows' = Moved(j, tab[t].at)
    BY <1>3 DEF CompleteRan
  <2>2. j \in Jobs /\ tab[t].at \in Nat /\ Faithful(j)
    BY DEF TypeOK, TabStates, ClockInv
  <2>3. tab'[t].ran = {} /\ \A u \in Tabs \ {t} : tab'[u] = tab[u]
    BY <1>3 DEF CompleteRan, TabIdle, TypeOK
  <2> QED BY <1>3, <2>1, <2>2, <2>3, MovedFaithful, ClockFrame DEF CompleteRan, ClockInv, Held
<1>4. ASSUME NEW t \in Tabs, PostThrows(t) PROVE ClockInv'
  BY <1>0, <1>4 DEF PostThrows, TabIdle, TypeOK, Held
<1>5. ASSUME NEW t \in Tabs, NEW N \in SUBSET News, ReadNews(t, N) PROVE ClockInv'
  BY <1>0, <1>5 DEF ReadNews, TypeOK, TabStates, Held
<1>6. ASSUME NEW t \in Tabs, NEW n \in News, PostNews(t, n) PROVE ClockInv'
  BY <1>0, <1>6 DEF PostNews, TypeOK, TabStates, Held
<1>7. CASE Fire
  <2>1. PICK A \in SUBSET {k \in Keys : Due(k)} :
          cron' = [CronOff EXCEPT !.phase = "loop", !.at = now, !.todo = {Snapshot(k) : k \in A}]
    BY <1>7 DEF Fire
  <2>2. Held' = {Snapshot(k) : k \in A}
    BY <2>1 DEF Held, CronOff
  <2>3. ASSUME NEW k \in A PROVE Faithful(Snapshot(k))
    BY SnapshotFaithful DEF Due, ClockInv, ClockMatchesCadence
  <2> QED BY <1>7, <2>2, <2>3, ClockFrame DEF Fire, ClockInv, ClockMatchesCadence
<1>8. ASSUME NEW j \in cron.job, Complete(j) PROVE ClockInv'
  <2>1. j \in Jobs /\ cron.at \in Nat /\ Faithful(j)
    BY DEF TypeOK, Crons, DueJobs, ClockInv, Held
  <2>2. Held' \subseteq Held
    BY <1>8 DEF Complete, GoOn, CronOff, Held, TypeOK, Crons
  <2> QED BY <1>8, <2>1, <2>2, MovedFaithful, ClockFrame DEF Complete, ClockInv
<1>9. ASSUME NEW j \in cron.job, CompleteThrows(j) PROVE ClockInv'
  <2>1. CASE cron.failed
    <3>1. GoOn
      BY <1>9, <2>1 DEF CompleteThrows
    <3>2. Held' \subseteq Held
      BY <3>1 DEF GoOn, CronOff, Held, TypeOK, Crons
    <3> QED BY <1>0, <1>9, <3>2 DEF CompleteThrows
  <2>2. CASE ~cron.failed
    <3>1. Held' = Held
      BY <1>9, <2>2 DEF CompleteThrows, Held, TypeOK, Crons
    <3> QED BY <1>0, <1>9, <3>1 DEF CompleteThrows
  <2> QED BY <2>1, <2>2
<1>10. ASSUME NEW j \in cron.todo, TakeJob(j) PROVE ClockInv'
  <2>1. Held' \subseteq Held
    BY <1>10 DEF TakeJob, Held, TypeOK, Crons
  <2> QED BY <1>0, <1>10, <2>1 DEF TakeJob
<1>11. ASSUME NEW j \in cron.job, Sample(j) \/ Collect(j) PROVE ClockInv'
  <2>1. Held' = Held
    BY <1>11 DEF Sample, Collect, Held, TypeOK, Crons
  <2> QED BY <1>0, <1>11, <2>1 DEF Sample, Collect
<1>12. CASE Skip \/ SampleOk \/ Send \/ Mark \/ Throw \/ \E n \in News : SampleDrop(n)
  <2>1. Held' = Held
    BY <1>12 DEF Skip, SampleOk, Send, Mark, Throw, SampleDrop, Held, TypeOK, Crons
  <2> QED BY <1>0, <1>12, <2>1 DEF Skip, SampleOk, Send, Mark, Throw, SampleDrop
<1>13. CASE Kill
  BY <1>0, <1>13 DEF Kill, CronOff, Held
<1>14. CASE Tick \/ UNCHANGED vars
  BY <1>0, <1>14 DEF Tick, vars, Held
<1> QED
  BY <1>1, <1>2, <1>3, <1>4, <1>5, <1>6, <1>7, <1>8, <1>9, <1>10, <1>11, <1>12, <1>13, <1>14
  DEF Next, Work

\* The initial states satisfy ClockInv.
LEMMA ClockInit == Init => ClockInv
BY DEF Init, ClockInv, ClockMatchesCadence, Held, CronOff, TabIdle

\* ClockFollows: however saves, late requests and the cron interleave, the next
\* run of a schedule belongs to the cadence last saved.  It holds because a
\* save gives the row a new id, which an UPDATE from an older read misses.
THEOREM ClockFollows == Spec => []ClockMatchesCadence
<1>1. Init => TypeOK /\ ClockInv
  BY TypeInit, ClockInit
<1>2. TypeOK /\ ClockInv /\ [Next]_vars => (TypeOK /\ ClockInv)'
  BY TypeStep, ClockStep
<1>3. ClockInv => ClockMatchesCadence
  BY DEF ClockInv
<1> QED BY <1>1, <1>2, <1>3, PTL DEF Spec

-----------------------------------------------------------------------------
\* Past after a save or a completed run: the new firing is later than n.
LEMMA PastMoved ==
  ASSUME TypeOK, NEW k \in Keys, NEW c \in Periods \cup {Off}, NEW t \in Nat, NEW n \in Nat,
         rows'[k].nextAt = nextRunAt(c, t), n <= t
  PROVE  Past(k, n)'
<1>1. nextRunAt(c, t) # Null => nextRunAt(c, t) \in Nat /\ nextRunAt(c, t) > t
  BY NextRun
<1> QED BY <1>1 DEF Past

\* The types of what the invocation and the tabs hold.
LEMMA HeldTypes ==
  ASSUME TypeOK
  PROVE  /\ \A j \in Held : /\ j.key \in Keys /\ j.id \in Nat /\ j.nextAt \in Nat
                            /\ j.cadence \in Periods \cup {Off} /\ j \in Jobs
         /\ \A t \in Tabs : \A i \in tab[t].ran :
              /\ i.key \in Keys /\ i.id \in Nat /\ i.cadence \in Periods \cup {Off} /\ i \in Jobs
         /\ \A t \in Tabs : tab[t].at \in Nat
         /\ cron.at \in Nat /\ now \in Nat
         /\ \A k \in Keys : rows[k].id \in Nat /\ rows[k].nextAt \in Nat \cup {Null}
BY DEF TypeOK, Held, Crons, DueJobs, Jobs, TabStates, Rows

\* A step of the invocation, or none, that leaves the tables' clocks alone.
LEMMA HeldFrame ==
  ASSUME TypeOK, HeldInv, UNCHANGED rows, reopened \subseteq reopened', now' = now \/ now' = now + 1,
         \A t \in Tabs : tab'[t].ran = {} \/ (tab'[t].ran = tab[t].ran /\ tab'[t].at = tab[t].at),
         cron'.at = cron.at, cron'.todo \subseteq cron.todo,
         cron'.job = cron.job \/ cron'.job = {}, cron'.phase # "off", cron.phase # "off",
         cron'.phase = "loop" => cron'.job = {}
  PROVE  HeldInv'
<1>1. Held' \subseteq Held
  BY DEF Held
<1>2. \A j \in Held' : rows'[j.key].id = j.id \/ Past(j.key, j.nextAt)' \/ Firing(j) \in reopened'
  BY <1>1 DEF HeldInv, Past
<1>3. (cron.phase # "off" => cron.at <= now)'
  BY HeldTypes DEF HeldInv
<1>4. (\A t \in Tabs : \A i \in tab[t].ran : \A j \in Held :
         i.key = j.key /\ rows[i.key].id = i.id /\ i.id # j.id => tab[t].at >= cron.at)'
  BY <1>1 DEF HeldInv
<1> QED BY <1>1, <1>2, <1>3, <1>4 DEF HeldInv, Firing

\* An invocation that is off holds nothing.
LEMMA HeldOff ==
  ASSUME cron' = CronOff
  PROVE  HeldInv'
BY DEF HeldInv, Held, CronOff

\* Every step keeps what is known about the jobs the invocation holds.
LEMMA HeldStep == TypeOK /\ ClockInv /\ HeldInv /\ [Next]_vars => HeldInv'
<1> SUFFICES ASSUME TypeOK, ClockInv, HeldInv, [Next]_vars PROVE HeldInv'
  OBVIOUS
<1>0. ASSUME UNCHANGED <<rows, cron>>, reopened' = reopened, now' = now \/ now' = now + 1,
             \A t \in Tabs : tab'[t].ran = {} \/ (tab'[t].ran = tab[t].ran /\ tab'[t].at = tab[t].at)
      PROVE  HeldInv'
  <2>1. CASE cron.phase = "off"
    BY <1>0, <2>1 DEF HeldInv, Held
  <2>2. CASE cron.phase # "off"
    BY <1>0, <2>2, HeldFrame DEF HeldInv
  <2> QED BY <2>1, <2>2
<1>1. ASSUME NEW k \in Keys, NEW c \in Periods \cup {Off}, Save(k, c) PROVE HeldInv'
  <2>1. /\ rows'[k].id = saves + 1 /\ rows'[k].nextAt = nextRunAt(c, now)
        /\ \A l \in Keys \ {k} : rows'[l] = rows[l]
        /\ saves \in Nat
    BY <1>1 DEF Save, Saved, TypeOK
  <2>2. UNCHANGED <<cron, tab, now, reopened>> /\ Held' = Held
    BY <1>1 DEF Save, Held
  <2>3. ASSUME NEW j \in Held PROVE rows'[j.key].id = j.id \/ Past(j.key, j.nextAt)'
                                     \/ Firing(j) \in reopened'
    <3>1. CASE j.key = k
      <4>1. j.nextAt <= now /\ j.nextAt \in Nat
        BY HeldTypes DEF HeldInv
      <4> QED BY <2>1, <3>1, <4>1, PastMoved, HeldTypes
    <3>2. CASE j.key # k
      BY <2>1, <2>2, <3>2, HeldTypes DEF HeldInv, Past, Firing
    <3> QED BY <3>1, <3>2
  <2>4. ASSUME NEW t \in Tabs, NEW i \in tab[t].ran, NEW j \in Held,
               i.key = j.key, rows'[i.key].id = i.id, i.id # j.id
        PROVE  tab[t].at >= cron.at
    <3>1. i.id <= saves /\ i.id \in Nat /\ i.key \in Keys
      BY HeldTypes DEF ClockInv, Faithful
    <3>2. i.key # k
      BY <2>1, <2>4, <3>1
    <3> QED BY <2>1, <2>4, <3>1, <3>2 DEF HeldInv
  <2> QED BY <2>2, <2>3, <2>4 DEF HeldInv, Firing
<1>2. ASSUME NEW t \in Tabs, NEW k \in Keys, ReadRan(t, k) PROVE HeldInv'
  <2>1. /\ tab'[t].ran = {Snapshot(k)} /\ tab'[t].at = now
        /\ \A u \in Tabs \ {t} : tab'[u] = tab[u]
    BY <1>2 DEF ReadRan, TabIdle, TypeOK
  <2>2. UNCHANGED <<cron, rows, now, reopened>> /\ Held' = Held
    BY <1>2 DEF ReadRan, Held
  <2>3. Held # {} => now >= cron.at
    BY HeldTypes DEF HeldInv
  <2>4. ASSUME NEW u \in Tabs, NEW i \in tab'[u].ran, NEW j \in Held,
               i.key = j.key, rows[i.key].id = i.id, i.id # j.id
        PROVE  tab'[u].at >= cron.at
    BY <2>1, <2>3, <2>4 DEF HeldInv
  <2> QED BY <2>2, <2>4 DEF HeldInv, Past, Firing
<1>3. ASSUME NEW t \in Tabs, CompleteRan(t) PROVE HeldInv'
  <2>1. PICK i \in tab[t].ran : rows' = Moved(i, tab[t].at)
    BY <1>3 DEF CompleteRan
  <2>2. i \in Jobs /\ tab[t].at \in Nat /\ Faithful(i) /\ i.cadence \in Periods \cup {Off}
    BY HeldTypes DEF ClockInv
  <2>3. /\ \A k \in Keys : rows'[k].id = rows[k].id
        /\ \A k \in Keys : rows[k].id # i.id => rows'[k] = rows[k]
        /\ \A k \in Keys : rows[k].id = i.id =>
             k = i.key /\ rows'[k].nextAt = nextRunAt(i.cadence, tab[t].at)
    BY <2>1, <2>2, MovedFaithful
  <2>4. tab'[t].ran = {} /\ \A u \in Tabs \ {t} : tab'[u] = tab[u]
    BY <1>3 DEF CompleteRan, TabIdle, TypeOK
  <2>5. UNCHANGED <<cron, now>> /\ Held' = Held /\ reopened \subseteq reopened'
    BY <1>3 DEF CompleteRan, Held
  <2>6. ASSUME NEW j \in Held PROVE rows'[j.key].id = j.id \/ Past(j.key, j.nextAt)'
                                     \/ Firing(j) \in reopened'
    <3>1. j.key \in Keys /\ j.nextAt \in Nat /\ cron.at \in Nat
      BY HeldTypes
    <3>2. CASE rows[j.key].id = i.id /\ i.id # j.id
      <4>1. j.nextAt <= tab[t].at
        BY <2>2, <2>3, <3>1, <3>2 DEF HeldInv
      <4> QED BY <2>2, <2>3, <3>1, <3>2, <4>1, PastMoved
    <3>3. CASE ~(rows[j.key].id = i.id /\ i.id # j.id)
      BY <2>3, <2>5, <3>1, <3>3 DEF HeldInv, Past, Firing
    <3> QED BY <3>2, <3>3
  <2>7. \A u \in Tabs : \A x \in tab'[u].ran : \A j \in Held :
          x.key = j.key /\ rows'[x.key].id = x.id /\ x.id # j.id => tab'[u].at >= cron.at
    BY <2>3, <2>4, HeldTypes DEF HeldInv
  <2> QED BY <2>5, <2>6, <2>7 DEF HeldInv, Firing
<1>4. ASSUME NEW t \in Tabs, PostThrows(t) PROVE HeldInv'
  BY <1>0, <1>4 DEF PostThrows, TabIdle, TypeOK
<1>5. ASSUME NEW t \in Tabs, NEW N \in SUBSET News, ReadNews(t, N) PROVE HeldInv'
  BY <1>0, <1>5 DEF ReadNews, TypeOK, TabStates
<1>6. ASSUME NEW t \in Tabs, NEW n \in News, PostNews(t, n) PROVE HeldInv'
  BY <1>0, <1>6 DEF PostNews, TypeOK, TabStates
<1>7. CASE Fire
  <2>1. PICK A \in SUBSET {k \in Keys : Due(k)} :
          cron' = [CronOff EXCEPT !.phase = "loop", !.at = now, !.todo = {Snapshot(k) : k \in A}]
    BY <1>7 DEF Fire
  <2>2. /\ cron'.phase = "loop" /\ cron'.at = now /\ cron'.job = {}
        /\ cron'.todo = {Snapshot(k) : k \in A} /\ Held' = {Snapshot(k) : k \in A}
    BY <2>1 DEF Held, CronOff
  <2>3. UNCHANGED <<rows, tab, now, reopened>>
    BY <1>7 DEF Fire
  <2>4. \A k \in A : /\ Snapshot(k).key = k /\ Snapshot(k).id = rows[k].id
                     /\ Snapshot(k).nextAt # Null /\ Snapshot(k).nextAt <= now
                     /\ Snapshot(k).cadence # Off
    BY DEF Snapshot, Due, ClockInv, ClockMatchesCadence
  <2>5. \A i, j \in Held' : i.key = j.key => i = j
    BY <2>2, <2>4
  <2>6. \A t \in Tabs : \A i \in tab[t].ran : \A j \in Held' :
          ~(i.key = j.key /\ rows[i.key].id = i.id /\ i.id # j.id)
    BY <2>2, <2>4
  <2> QED BY <2>2, <2>3, <2>4, <2>5, <2>6, HeldTypes DEF HeldInv, Firing
<1>8. ASSUME NEW i \in cron.job, Complete(i) PROVE HeldInv'
  <2>1. i \in Jobs /\ cron.at \in Nat /\ Faithful(i) /\ i \in Held
    BY DEF TypeOK, Crons, DueJobs, ClockInv, Held
  <2>2. /\ \A k \in Keys : rows'[k].id = rows[k].id
        /\ \A k \in Keys : rows[k].id # i.id => rows'[k] = rows[k]
        /\ \A k \in Keys : rows[k].id = i.id => k = i.key
    BY <1>8, <2>1, MovedFaithful DEF Complete
  <2>3. CASE cron.todo = {}
    BY <1>8, <2>3, HeldOff DEF Complete, GoOn
  <2>4. CASE cron.todo # {}
    <3>1. /\ cron'.phase = "loop" /\ cron'.at = cron.at /\ cron'.todo = cron.todo
          /\ cron'.job = {} /\ Held' = cron.todo /\ cron.phase # "off"
      BY <1>8, <2>4 DEF Complete, GoOn, TypeOK, Crons, Held
    <3>2. UNCHANGED <<tab, now, reopened>>
      BY <1>8 DEF Complete
    <3>3. ASSUME NEW j \in cron.todo PROVE j \in Held /\ j.key \in Keys /\ rows'[j.key] = rows[j.key]
      <4>1. j \in Held /\ j.key \in Keys
        BY HeldTypes DEF Held
      <4>2. j.key # i.key
        BY <2>1, <3>3, <4>1 DEF HeldInv
      <4> QED BY <2>2, <4>1, <4>2
    <3>4. \A j \in Held' : rows'[j.key].id = j.id \/ Past(j.key, j.nextAt)' \/ Firing(j) \in reopened'
      BY <3>1, <3>2, <3>3 DEF HeldInv, Past, Firing
    <3>5. \A u \in Tabs : \A x \in tab'[u].ran : \A j \in Held' :
            x.key = j.key /\ rows'[x.key].id = x.id /\ x.id # j.id => tab'[u].at >= cron'.at
      BY <3>1, <3>2, <3>3 DEF HeldInv
    <3> QED BY <3>1, <3>2, <3>3, <3>4, <3>5 DEF HeldInv, Firing
  <2> QED BY <2>3, <2>4
<1>9. ASSUME NEW j \in cron.job, CompleteThrows(j) PROVE HeldInv'
  <2>1. CASE cron.failed
    <3>1. GoOn /\ UNCHANGED <<rows, tab, now>> /\ cron.phase = "closing"
          /\ reopened \subseteq reopened'
      BY <1>9, <2>1 DEF CompleteThrows
    <3>2. CASE cron.todo = {}
      BY <3>1, <3>2, HeldOff DEF GoOn
    <3>3. CASE cron.todo # {}
      BY <3>1, <3>3, HeldFrame DEF GoOn, TypeOK, Crons
    <3> QED BY <3>2, <3>3
  <2>2. CASE ~cron.failed
    <3>1. /\ cron' = [cron EXCEPT !.failed = TRUE] /\ UNCHANGED <<rows, tab, now, reopened>>
          /\ cron.phase = "closing"
      BY <1>9, <2>2 DEF CompleteThrows
    <3> QED BY <3>1, HeldFrame DEF TypeOK, Crons
  <2> QED BY <2>1, <2>2
<1>10. ASSUME NEW j \in cron.todo, TakeJob(j) PROVE HeldInv'
  <2>1. /\ cron'.todo = cron.todo \ {j} /\ cron'.job = {j} /\ cron'.at = cron.at
        /\ cron'.phase = "acting" /\ cron.phase = "loop" /\ UNCHANGED <<rows, tab, now, reopened>>
    BY <1>10 DEF TakeJob, TypeOK, Crons
  <2>2. Held' = Held
    BY <2>1 DEF Held, HeldInv
  <2> QED BY <2>1, <2>2 DEF HeldInv, Past, Firing
<1>11. ASSUME NEW j \in cron.job, Sample(j) \/ Collect(j) PROVE HeldInv'
  BY <1>11, HeldFrame DEF Sample, Collect, TypeOK, Crons
<1>12. CASE Skip \/ SampleOk \/ Send \/ Mark \/ Throw \/ \E n \in News : SampleDrop(n)
  BY <1>12, HeldFrame DEF Skip, SampleOk, Send, Mark, Throw, SampleDrop, TypeOK, Crons
<1>13. CASE Kill
  BY <1>13, HeldOff DEF Kill
<1>14. CASE Tick \/ UNCHANGED vars
  BY <1>0, <1>14 DEF Tick, vars
<1> QED
  BY <1>1, <1>2, <1>3, <1>4, <1>5, <1>6, <1>7, <1>8, <1>9, <1>10, <1>11, <1>12, <1>13, <1>14
  DEF Next, Work

-----------------------------------------------------------------------------
\* The firing of a measurement, taken apart.
LEMMA MeasuringParts ==
  ASSUME NEW f \in Sites \X Nat
  PROVE  /\ Measuring(f)[1] = <<f[1], "measure">> /\ Measuring(f)[2] = f[2]
         /\ <<f[1], "measure">> \in Keys /\ f[2] \in Nat /\ f = <<f[1], f[2]>>
BY DEF Measuring, Keys

\* A step that reads nothing, moves no clock and keeps the job, if it has one
\* that has been read, where it can be recognised.
LEMMA ReadFrame ==
  ASSUME TypeOK, ReadInv, UNCHANGED <<rows, readings, reread>>, reopened \subseteq reopened',
         now' = now \/ now' = now + 1, cron'.at = cron.at, cron.phase # "off",
         cron'.todo = cron.todo, cron'.job = cron.job, cron'.phase # "acting",
         cron.phase \in {"sampled", "closing"} => cron'.phase \in {"sampled", "closing"}
  PROVE  ReadInv'
<1>1. \A f \in readings : f \in Sites \X Nat /\ f[2] \in Nat
  BY DEF TypeOK
<1>2. (\A f \in readings : f[2] <= now /\ (cron.phase # "off" => f[2] <= cron.at))'
  BY <1>1, HeldTypes DEF ReadInv
<1>3. (\A f \in readings :
         \/ Past(Measuring(f)[1], f[2])
         \/ Measuring(f) \in reopened
         \/ \E j \in cron.job : Firing(j) = Measuring(f) /\ cron.phase \in {"sampled", "closing"})'
  BY DEF ReadInv, Past, Measuring, Firing
<1>4. Unread' \subseteq Unread
  BY DEF Unread
<1> QED BY <1>2, <1>3, <1>4 DEF ReadInv, ReadOnceUnlessReopened, Firing, Measuring

\* Nothing but the clock or a tab's memory changes.
LEMMA ReadIdle ==
  ASSUME TypeOK, ReadInv, UNCHANGED <<rows, readings, reread, cron, reopened>>,
         now' = now \/ now' = now + 1
  PROVE  ReadInv'
<1>1. \A f \in readings : f[2] \in Nat
  BY DEF TypeOK
<1>2. (\A f \in readings : f[2] <= now /\ (cron.phase # "off" => f[2] <= cron.at))'
  BY <1>1, HeldTypes DEF ReadInv
<1> QED BY <1>2 DEF ReadInv, ReadOnceUnlessReopened, Firing, Measuring, Past, Unread

\* The job under way ends: no reading is left that only this job accounted for.
LEMMA ReadGoOn ==
  ASSUME TypeOK, HeldInv, ReadInv, UNCHANGED <<readings, reread, now>>,
         reopened \subseteq reopened', cron.phase # "off",
         cron' = CronOff \/ (GoOn /\ cron.todo # {}),
         \A f \in readings : Past(<<f[1], "measure">>, f[2])' \/ Measuring(f) \in reopened'
  PROVE  ReadInv'
<1>1. /\ cron'.phase \in {"off", "loop"} /\ cron'.job = {} /\ cron'.todo \subseteq cron.todo
      /\ cron'.phase = "loop" => cron'.at = cron.at
  <2>1. CASE cron' = CronOff
    BY <2>1 DEF CronOff
  <2>2. CASE GoOn /\ cron.todo # {}
    BY <2>2 DEF GoOn, TypeOK, Crons
  <2> QED BY <2>1, <2>2
<1>2. \A f \in readings : Measuring(f)[1] = <<f[1], "measure">>
  BY MeasuringParts DEF TypeOK
<1>3. Unread' \subseteq Unread
  BY <1>1 DEF Unread
<1>4. (\A f \in readings :
         \/ Past(Measuring(f)[1], f[2])
         \/ Measuring(f) \in reopened
         \/ \E j \in cron.job : Firing(j) = Measuring(f) /\ cron.phase \in {"sampled", "closing"})'
  BY <1>2 DEF Past, Measuring
<1>5. (\A f \in readings : f[2] <= now /\ (cron.phase # "off" => f[2] <= cron.at))'
  BY <1>1 DEF ReadInv
<1> QED BY <1>3, <1>4, <1>5 DEF ReadInv, ReadOnceUnlessReopened, Firing, Measuring

\* Every step keeps the account of the measurements.
LEMMA ReadStep == TypeOK /\ ClockInv /\ HeldInv /\ ReadInv /\ [Next]_vars => ReadInv'
<1> SUFFICES ASSUME TypeOK, ClockInv, HeldInv, ReadInv, [Next]_vars PROVE ReadInv'
  OBVIOUS
<1>p. \A f \in readings : /\ f \in Sites \X Nat /\ f[2] \in Nat /\ <<f[1], "measure">> \in Keys
                          /\ Measuring(f)[1] = <<f[1], "measure">> /\ Measuring(f)[2] = f[2]
  BY MeasuringParts DEF TypeOK
<1>1. ASSUME NEW k \in Keys, NEW c \in Periods \cup {Off}, Save(k, c) PROVE ReadInv'
  <2>1. /\ rows'[k].nextAt = nextRunAt(c, now) /\ \A l \in Keys \ {k} : rows'[l] = rows[l]
        /\ now \in Nat
    BY <1>1 DEF Save, Saved, TypeOK
  <2>2. UNCHANGED <<cron, now, reopened, readings, reread>>
    BY <1>1 DEF Save
  <2>3. ASSUME NEW f \in readings
        PROVE  \/ Past(Measuring(f)[1], f[2])'
               \/ Measuring(f) \in reopened
               \/ \E j \in cron.job : Firing(j) = Measuring(f) /\ cron.phase \in {"sampled", "closing"}
    <3>1. CASE <<f[1], "measure">> = k
      <4>1. Past(k, f[2])'
        BY <1>p, <2>1, PastMoved DEF ReadInv
      <4> QED BY <1>p, <2>2, <3>1, <4>1 DEF Past, Measuring
    <3>2. CASE <<f[1], "measure">> # k
      BY <1>p, <2>1, <2>2, <3>2 DEF ReadInv, Past, Measuring
    <3> QED BY <3>1, <3>2
  <2> QED BY <2>2, <2>3 DEF ReadInv, ReadOnceUnlessReopened, Firing, Measuring, Unread
<1>2. ASSUME NEW t \in Tabs, CompleteRan(t) PROVE ReadInv'
  <2>1. PICK i \in tab[t].ran : rows' = Moved(i, tab[t].at)
    BY <1>2 DEF CompleteRan
  <2>2. UNCHANGED <<cron, now, readings, reread>> /\ reopened \subseteq reopened'
    BY <1>2 DEF CompleteRan
  <2>3. rows' \in [Keys -> Rows]
    BY <2>1, MovedType, HeldTypes
  <2>4. ASSUME NEW f \in readings, rows'[<<f[1], "measure">>].nextAt # rows[<<f[1], "measure">>].nextAt
        PROVE  Past(<<f[1], "measure">>, f[2])' \/ Measuring(f) \in reopened'
    <3>1. CASE rows'[<<f[1], "measure">>].nextAt = Null
      BY <3>1 DEF Past
    <3>2. CASE rows'[<<f[1], "measure">>].nextAt # Null /\ rows'[<<f[1], "measure">>].nextAt <= f[2]
      BY <1>2, <1>p, <2>4, <3>2 DEF CompleteRan
    <3>3. CASE rows'[<<f[1], "measure">>].nextAt # Null /\ ~(rows'[<<f[1], "measure">>].nextAt <= f[2])
      BY <1>p, <2>3, <3>3 DEF Past, Rows
    <3> QED BY <3>1, <3>2, <3>3
  <2>5. ASSUME NEW f \in readings
        PROVE  \/ Past(<<f[1], "measure">>, f[2])'
               \/ Measuring(f) \in reopened'
               \/ \E j \in cron.job : Firing(j) = Measuring(f) /\ cron.phase \in {"sampled", "closing"}
    <3>1. CASE rows'[<<f[1], "measure">>].nextAt = rows[<<f[1], "measure">>].nextAt
      BY <1>p, <2>2, <3>1 DEF ReadInv, Past
    <3> QED BY <2>4, <3>1
  <2>6. (\A f \in readings :
           \/ Past(Measuring(f)[1], f[2])
           \/ Measuring(f) \in reopened
           \/ \E j \in cron.job : Firing(j) = Measuring(f) /\ cron.phase \in {"sampled", "closing"})'
    BY <1>p, <2>2, <2>5 DEF Past, Measuring, Firing
  <2> QED BY <2>2, <2>6 DEF ReadInv, ReadOnceUnlessReopened, Firing, Measuring, Unread
<1>3. CASE \E t \in Tabs : \/ \E k \in Keys : ReadRan(t, k)
                           \/ PostThrows(t)
                           \/ \E N \in SUBSET News : ReadNews(t, N)
                           \/ \E n \in News : PostNews(t, n)
  BY <1>3, ReadIdle DEF ReadRan, PostThrows, ReadNews, PostNews
<1>4. CASE Fire
  <2>1. PICK A \in SUBSET {k \in Keys : Due(k)} :
          cron' = [CronOff EXCEPT !.phase = "loop", !.at = now, !.todo = {Snapshot(k) : k \in A}]
    BY <1>4 DEF Fire
  <2>2. /\ cron'.phase = "loop" /\ cron'.at = now /\ cron'.job = {} /\ cron.job = {}
        /\ Unread' = {Snapshot(k) : k \in A}
    BY <1>4, <2>1 DEF Fire, CronOff, Unread, HeldInv, Held
  <2>3. UNCHANGED <<rows, readings, reread, now, reopened>>
    BY <1>4 DEF Fire
  <2>4. ASSUME NEW k \in A, k[2] = "measure", <<k[1], rows[k].nextAt>> \in readings
        PROVE  <<k, rows[k].nextAt>> \in reopened
    <3>1. k = <<k[1], "measure">> /\ Measuring(<<k[1], rows[k].nextAt>>) = <<k, rows[k].nextAt>>
      BY <2>4 DEF Keys, Measuring
    <3>2. ~Past(k, rows[k].nextAt)
      BY HeldTypes DEF Past, Due
    <3> QED BY <2>2, <2>4, <3>1, <3>2 DEF ReadInv
  <2>5. \A j \in Unread' : j.key[2] = "measure" /\ <<j.key[1], j.nextAt>> \in readings
                           => Firing(j) \in reopened
    BY <2>2, <2>4 DEF Snapshot, Firing
  <2>6. \A f \in readings : Past(Measuring(f)[1], f[2])' \/ Measuring(f) \in reopened
    BY <2>2, <2>3 DEF ReadInv, Past, Measuring
  <2> QED BY <2>2, <2>3, <2>5, <2>6 DEF ReadInv, ReadOnceUnlessReopened, Firing, Measuring
<1>5. ASSUME NEW j \in cron.todo, TakeJob(j) PROVE ReadInv'
  <2>1. /\ cron'.todo = cron.todo \ {j} /\ cron'.job = {j} /\ cron'.at = cron.at
        /\ cron'.phase = "acting" /\ cron.phase = "loop"
        /\ UNCHANGED <<rows, readings, reread, now, reopened>>
    BY <1>5 DEF TakeJob, TypeOK, Crons
  <2>2. Unread' = Unread
    BY <2>1 DEF Unread
  <2> QED BY <2>1, <2>2 DEF ReadInv, ReadOnceUnlessReopened, Firing, Measuring, Past
<1>6. ASSUME NEW j \in cron.job, Sample(j) PROVE ReadInv'
  <2> DEFINE new == <<j.key[1], j.nextAt>>
  <2>1. /\ j \in Held /\ j.key \in Keys /\ j.nextAt \in Nat /\ j.nextAt <= cron.at
        /\ cron.at <= now /\ cron.at \in Nat /\ now \in Nat
    BY <1>6, HeldTypes DEF Held, HeldInv, Sample
  <2>2. /\ cron.phase = "acting" /\ cron'.phase = "sampled" /\ cron'.at = cron.at
        /\ cron'.job = cron.job /\ cron'.todo = cron.todo
        /\ UNCHANGED <<rows, now, reopened>>
        /\ readings' \subseteq readings \cup {new} /\ readings \subseteq readings'
        /\ reread' \subseteq reread \cup ({new} \cap readings)
    <3>1. PICK taken \in SUBSET {new} :
            readings' = readings \cup taken /\ reread' = reread \cup (taken \cap readings)
      BY <1>6 DEF Sample
    <3> QED BY <1>6, <3>1 DEF Sample, TypeOK, Crons
  <2>3. j.key = <<j.key[1], "measure">> /\ new[2] = j.nextAt /\ Measuring(new) = Firing(j)
    BY <1>6, <2>1 DEF Sample, Keys, Measuring, Firing
  <2>4. j \in Unread
    BY <2>2 DEF Unread
  <2>5. new \in readings => Firing(j) \in reopened
    BY <1>6, <2>4 DEF ReadInv, Sample
  <2>6. (\A f \in readings : f[2] <= now /\ (cron.phase # "off" => f[2] <= cron.at))'
    BY <2>1, <2>2, <2>3 DEF ReadInv
  <2>7. (\A f \in readings :
           \/ Past(Measuring(f)[1], f[2])
           \/ Measuring(f) \in reopened
           \/ \E i \in cron.job : Firing(i) = Measuring(f) /\ cron.phase \in {"sampled", "closing"})'
    BY <2>2, <2>3 DEF ReadInv, Past, Measuring, Firing
  <2>8. ASSUME NEW i \in cron.todo, i.key[2] = "measure", <<i.key[1], i.nextAt>> \in readings'
        PROVE  Firing(i) \in reopened
    <3>1. CASE <<i.key[1], i.nextAt>> \in readings
      BY <2>8, <3>1 DEF ReadInv, Unread
    <3>2. CASE <<i.key[1], i.nextAt>> = new
      <4>1. i \in Held /\ i.key \in Keys
        BY HeldTypes DEF Held
      <4>2. i.key = j.key
        BY <2>3, <2>8, <3>2, <4>1 DEF Keys
      <4> QED BY <2>1, <2>8, <4>1, <4>2 DEF HeldInv
    <3> QED BY <2>2, <2>8, <3>1, <3>2
  <2>9. Unread' = cron.todo
    BY <2>2 DEF Unread
  <2>10. ReadOnceUnlessReopened'
    BY <2>2, <2>3, <2>5 DEF ReadInv, ReadOnceUnlessReopened, Measuring
  <2> QED BY <2>2, <2>6, <2>7, <2>8, <2>9, <2>10 DEF ReadInv, Firing
<1>7. ASSUME NEW j \in cron.job, Collect(j) PROVE ReadInv'
  BY <1>7, ReadFrame DEF Collect, TypeOK, Crons
<1>8. CASE Skip \/ SampleOk \/ Send \/ Mark \/ Throw \/ \E n \in News : SampleDrop(n)
  BY <1>8, ReadFrame DEF Skip, SampleOk, Send, Mark, Throw, SampleDrop, TypeOK, Crons
<1>9. ASSUME NEW i \in cron.job, Complete(i) PROVE ReadInv'
  <2>1. /\ i \in Jobs /\ cron.at \in Nat /\ Faithful(i) /\ i \in Held
        /\ i.cadence \in Periods \cup {Off} /\ i.nextAt \in Nat
    BY HeldTypes DEF ClockInv, Held
  <2>2. /\ \A k \in Keys : rows[k].id # i.id => rows'[k] = rows[k]
        /\ \A k \in Keys : rows[k].id = i.id =>
             k = i.key /\ rows'[k].nextAt = nextRunAt(i.cadence, cron.at)
    BY <1>9, <2>1, MovedFaithful DEF Complete
  <2>3. UNCHANGED <<readings, reread, now, reopened>> /\ cron.phase = "closing" /\ GoOn
    BY <1>9 DEF Complete
  <2>4. ASSUME NEW f \in readings PROVE Past(<<f[1], "measure">>, f[2])' \/ Measuring(f) \in reopened'
    <3> DEFINE k == <<f[1], "measure">>
    <3>1. CASE rows[k].id = i.id
      <4>1. f[2] <= cron.at
        BY <2>3 DEF ReadInv
      <4> QED BY <1>p, <2>1, <2>2, <3>1, <4>1, PastMoved
    <3>2. CASE rows[k].id # i.id
      <4>1. UNCHANGED rows[k]
        BY <1>p, <2>2, <3>2
      <4>2. CASE Past(k, f[2]) \/ Measuring(f) \in reopened
        BY <2>3, <4>1, <4>2 DEF Past
      <4>3. CASE \E j \in cron.job : Firing(j) = Measuring(f)
        <5>1. Firing(i) = Measuring(f)
          BY <4>3 DEF HeldInv
        <5>2. i.key = k /\ i.nextAt = f[2]
          BY <1>p, <5>1 DEF Firing, Measuring
        <5>3. Past(k, f[2]) \/ Measuring(f) \in reopened
          BY <2>1, <3>2, <5>1, <5>2 DEF HeldInv
        <5> QED BY <4>2, <5>3
      <4> QED BY <1>p, <4>2, <4>3 DEF ReadInv
    <3> QED BY <3>1, <3>2
  <2>5. cron' = CronOff \/ (GoOn /\ cron.todo # {})
    BY <2>3 DEF GoOn
  <2> QED BY <2>3, <2>4, <2>5, ReadGoOn
<1>10. ASSUME NEW i \in cron.job, CompleteThrows(i) PROVE ReadInv'
  <2>1. CASE cron.failed
    <3>1. /\ GoOn /\ UNCHANGED <<rows, readings, reread, now>> /\ cron.phase = "closing"
          /\ reopened' = reopened \cup {Firing(i)}
      BY <1>10, <2>1 DEF CompleteThrows
    <3>2. \A f \in readings : Past(<<f[1], "measure">>, f[2])' \/ Measuring(f) \in reopened'
      BY <1>p, <3>1 DEF ReadInv, HeldInv, Past
    <3>3. cron' = CronOff \/ (GoOn /\ cron.todo # {})
      BY <3>1 DEF GoOn
    <3> QED BY <3>1, <3>2, <3>3, ReadGoOn
  <2>2. CASE ~cron.failed
    <3>1. /\ cron' = [cron EXCEPT !.failed = TRUE] /\ cron.phase = "closing"
          /\ UNCHANGED <<rows, readings, reread, now, reopened>>
      BY <1>10, <2>2 DEF CompleteThrows
    <3> QED BY <3>1, ReadFrame DEF TypeOK, Crons
  <2> QED BY <2>1, <2>2
<1>11. CASE Kill
  <2>1. /\ UNCHANGED <<rows, readings, reread, now>> /\ cron' = CronOff /\ cron.phase # "off"
        /\ reopened' = reopened \cup {Firing(j) : j \in cron.job}
    BY <1>11 DEF Kill
  <2>2. \A f \in readings : Past(<<f[1], "measure">>, f[2])' \/ Measuring(f) \in reopened'
    BY <1>p, <2>1 DEF ReadInv, Past
  <2> QED BY <2>1, <2>2, ReadGoOn
<1>12. CASE Tick \/ UNCHANGED vars
  BY <1>12, ReadIdle DEF Tick, vars
<1> QED
  BY <1>1, <1>2, <1>3, <1>4, <1>5, <1>6, <1>7, <1>8, <1>9, <1>10, <1>11, <1>12 DEF Next, Work

\* MeasuredOnce: for every number of sites, tabs, saves and faults, a firing
\* records its measurement twice only if it was begun and left due, or a late
\* markJobRan put the clock back.
THEOREM MeasuredOnce == Spec => []ReadOnceUnlessReopened
<1> DEFINE Inv == TypeOK /\ ClockInv /\ HeldInv /\ ReadInv
<1>1. Init => Inv
  BY TypeInit, ClockInit
  DEF Init, HeldInv, ReadInv, Held, Unread, CronOff, TabIdle, ReadOnceUnlessReopened
<1>2. Inv /\ [Next]_vars => Inv'
  BY TypeStep, ClockStep, HeldStep, ReadStep
<1>3. Inv => ReadOnceUnlessReopened
  BY DEF ReadInv
<1> QED BY <1>1, <1>2, <1>3, PTL DEF Spec
=============================================================================
