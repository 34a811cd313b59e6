---------------------------- MODULE BrowserProofs ----------------------------
(***************************************************************************)
(* Proofs about what the browser keeps: the link programme of a site       *)
(* (LinkProgramme) and the workspace with its copy in the account          *)
(* (Workspace), each for any number of tabs, copies and steps.             *)
(*                                                                         *)
(* Both are about copies that are written back whole.  The link programme  *)
(* follows what every copy was made of: whatever a panel shows, an         *)
(* operation captured or storage holds was made of verdicts fetches gave,  *)
(* by operations already started, and counts approaches already recorded.  *)
(* The workspace follows who has seen what: the steps of a tab come down   *)
(* to edits, which add to the copy they start from, and replacements; what *)
(* a careful browser remembers, was answered or has sent is never ahead of *)
(* the account.                                                            *)
(***************************************************************************)
EXTENDS LinkProgramme, Workspace, SetSums, TLAPS

-----------------------------------------------------------------------------
\* Backed(link, s, S): a confirmed link is one of the findings S.
Backed(link, s, S) == link.status = "confirmed" => <<s, link.followed>> \in S

\* Sound(state, S, n, k): a record made from the findings S, the operations up
\* to n and at most k approaches.
Sound(state, S, n, k) ==
  /\ \A s \in DOMAIN state.portfolio :
       /\ state.portfolio[s].lastVerified <= n
       /\ Backed(state.portfolio[s], s, S)
       /\ state.portfolio[s].status = "confirmed" => state.portfolio[s].lastVerified > 0
  /\ \A d \in Candidates : state.pipeline[d] <= k

\* An operation under way: numbered after everything its base holds.
Working(op, S, n, k) ==
  /\ Sound(op.base, S, n, k)
  /\ op.number <= n
  /\ op.kind = "verify" => /\ op.number > 0
                           /\ \A s \in DOMAIN op.base.portfolio :
                                op.base.portfolio[s].lastVerified <= op.number
  /\ \A s \in DOMAIN op.verdicts : Backed(op.verdicts[s], s, S)

Panel(panel, S, n, k) ==
  /\ Sound(panel.copy, S, n, k)
  /\ Working(panel.op, S, n, k)
  /\ \A d \in Candidates : panel.desk[d] <= k

IInv ==
  /\ TypeOK
  /\ Sound(stored, seen, started, approached)
  /\ \A p \in Panels : Panel(panels[p], seen, started, approached)

-----------------------------------------------------------------------------
\* The parts of a well-formed record.
Verdict == [status : LinkStatuses, followed : BOOLEAN, placed : BOOLEAN]
Verdicts == UNION {[known -> Verdict] : known \in SUBSET Sources}
Operation == [kind : {"none", "pull", "competitors", "verify"}, base : LinkState,
              queue : SUBSET Sources, verdicts : Verdicts, number : 0..MaxOps]
Mounting == [mounted : BOOLEAN, copy : LinkState, desk : [Candidates -> 0..MaxApproaches],
             op : Operation]

\* A well-formed state is one whose panels are mountings: TypeOK, named by its
\* parts.
LEMMA TypeParts ==
  TypeOK <=> /\ stored \in LinkState
             /\ panels \in [Panels -> Mounting]
             /\ seen \subseteq Sources \X BOOLEAN
             /\ started \in 0..MaxOps
             /\ approached \in 0..MaxApproaches
BY DEF TypeOK, Mounting, Operation, Verdicts, Verdict

\* A portfolio is a function from some of the sources to links.
LEMMA PortfolioIs ==
  ASSUME NEW f
  PROVE  f \in Portfolios <=> /\ DOMAIN f \subseteq Sources
                              /\ f = [s \in DOMAIN f |-> f[s]]
                              /\ \A s \in DOMAIN f : f[s] \in PortfolioLink
<1>1. ASSUME f \in Portfolios
      PROVE  /\ DOMAIN f \subseteq Sources
             /\ f = [s \in DOMAIN f |-> f[s]]
             /\ \A s \in DOMAIN f : f[s] \in PortfolioLink
  <2>1. PICK known \in SUBSET Sources : f \in [known -> PortfolioLink]
    BY <1>1 DEF Portfolios
  <2> QED BY <2>1
<1>2. ASSUME /\ DOMAIN f \subseteq Sources
             /\ f = [s \in DOMAIN f |-> f[s]]
             /\ \A s \in DOMAIN f : f[s] \in PortfolioLink
      PROVE  f \in Portfolios
  <2>1. f \in [DOMAIN f -> PortfolioLink]
    BY <1>2
  <2> QED BY <1>2, <2>1 DEF Portfolios
<1> QED BY <1>1, <1>2

\* The same of the verdicts of a verification.
LEMMA VerdictsAre ==
  ASSUME NEW f
  PROVE  f \in Verdicts <=> /\ DOMAIN f \subseteq Sources
                            /\ f = [s \in DOMAIN f |-> f[s]]
                            /\ \A s \in DOMAIN f : f[s] \in Verdict
<1>1. ASSUME f \in Verdicts
      PROVE  /\ DOMAIN f \subseteq Sources
             /\ f = [s \in DOMAIN f |-> f[s]]
             /\ \A s \in DOMAIN f : f[s] \in Verdict
  <2>1. PICK known \in SUBSET Sources : f \in [known -> Verdict]
    BY <1>1 DEF Verdicts
  <2> QED BY <2>1
<1>2. ASSUME /\ DOMAIN f \subseteq Sources
             /\ f = [s \in DOMAIN f |-> f[s]]
             /\ \A s \in DOMAIN f : f[s] \in Verdict
      PROVE  f \in Verdicts
  <2>1. f \in [DOMAIN f -> Verdict]
    BY <1>2
  <2> QED BY <1>2, <2>1 DEF Verdicts
<1> QED BY <1>1, <1>2

-----------------------------------------------------------------------------
\* What was sound stays sound as more is found, started and recorded.
LEMMA SoundGrows ==
  ASSUME NEW state \in LinkState, NEW S, NEW T, S \subseteq T,
         NEW n \in Nat, NEW m \in Nat, n <= m, NEW k \in Nat, NEW j \in Nat, k <= j,
         Sound(state, S, n, k)
  PROVE  Sound(state, T, m, j)
<1>1. \A s \in DOMAIN state.portfolio : state.portfolio[s].lastVerified \in Nat
  BY PortfolioIs DEF LinkState, PortfolioLink
<1>2. \A d \in Candidates : state.pipeline[d] \in Nat
  BY DEF LinkState
<1> QED BY <1>1, <1>2 DEF Sound, Backed

\* The same of a panel.
LEMMA PanelGrows ==
  ASSUME NEW panel \in Mounting, NEW S, NEW T, S \subseteq T,
         NEW n \in Nat, NEW m \in Nat, n <= m, NEW k \in Nat, NEW j \in Nat, k <= j,
         Panel(panel, S, n, k)
  PROVE  Panel(panel, T, m, j)
<1>1. Sound(panel.copy, T, m, j) /\ Sound(panel.op.base, T, m, j)
  BY SoundGrows DEF Panel, Working, Mounting, Operation
<1>2. panel.op.number <= m
  BY DEF Panel, Working, Mounting, Operation
<1>3. \A s \in DOMAIN panel.op.verdicts : Backed(panel.op.verdicts[s], s, T)
  BY DEF Panel, Working, Backed
<1>4. \A d \in Candidates : panel.desk[d] <= j
  BY DEF Panel, Mounting
<1> QED BY <1>1, <1>2, <1>3, <1>4 DEF Panel, Working

\* Nothing known and nothing under way are well formed, and sound.
LEMMA EmptyIsTyped ==
  EmptyLinks \in LinkState /\ Idle \in Operation /\ Unmounted \in Mounting
<1>1. EmptyLinks.portfolio \in Portfolios
  BY PortfolioIs DEF EmptyLinks
<1>2. EmptyLinks \in LinkState
  BY <1>1, LinkAssumption DEF EmptyLinks, LinkState
<1>3. Idle.verdicts \in Verdicts
  BY VerdictsAre DEF Idle
<1>4. Idle \in Operation
  BY <1>2, <1>3, LinkAssumption DEF Idle, Operation
<1>5. Unmounted \in Mounting
  BY <1>2, <1>4 DEF Unmounted, Mounting, LinkState
<1> QED BY <1>2, <1>4, <1>5

\* The record loadLinks answers when nothing is stored is made of nothing.
LEMMA EmptyIsSound ==
  ASSUME NEW S, NEW n \in Nat, NEW k \in Nat
  PROVE  /\ Sound(EmptyLinks, S, n, k)
         /\ Working(Idle, S, n, k)
         /\ Panel(Unmounted, S, n, k)
<1>1. Sound(EmptyLinks, S, n, k)
  BY DEF EmptyLinks, Sound
<1>2. Working(Idle, S, n, k)
  BY <1>1 DEF Working, Idle
<1>3. Panel(Unmounted, S, n, k)
  BY <1>1, <1>2 DEF Panel, Unmounted, EmptyLinks
<1> QED BY <1>1, <1>2, <1>3

\* A step that changes one panel, and adds to what is found, started and
\* recorded, keeps the invariant when its panel and its record are sound.
OneStep(p) ==
  /\ panels' = [panels EXCEPT ![p] = panels'[p]] /\ panels'[p] \in Mounting
  /\ stored' \in LinkState
  /\ seen \subseteq seen' /\ seen' \subseteq Sources \X BOOLEAN
  /\ started' \in 0..MaxOps /\ started <= started'
  /\ approached' \in 0..MaxApproaches /\ approached <= approached'
  /\ Sound(stored', seen', started', approached')
  /\ Panel(panels'[p], seen', started', approached')

\* A step of one panel leaves the invariant of the others alone.
LEMMA OnePanel ==
  ASSUME IInv, NEW p \in Panels, OneStep(p)
  PROVE  IInv'
<1> USE DEF OneStep
<1>1. /\ panels \in [Panels -> Mounting]
      /\ started \in Nat /\ started' \in Nat
      /\ approached \in Nat /\ approached' \in Nat
  BY TypeParts, LinkAssumption DEF IInv
<1>2. panels' \in [Panels -> Mounting]
  BY <1>1
<1>3. TypeOK'
  BY <1>2 DEF TypeOK, Mounting, Operation, Verdicts, Verdict
<1>4. ASSUME NEW r \in Panels
      PROVE  Panel(panels'[r], seen', started', approached')
  <2>1. CASE r = p
    BY <2>1
  <2>2. CASE r # p
    <3>1. panels'[r] = panels[r] /\ panels[r] \in Mounting
      BY <1>1, <2>2
    <3>2. Panel(panels[r], seen, started, approached)
      BY DEF IInv
    <3> QED BY <1>1, <3>1, <3>2, PanelGrows
  <2> QED BY <2>1, <2>2
<1> QED BY <1>3, <1>4 DEF IInv

\* The parts of the invariant an action starts from.
Parts(p) ==
  /\ panels \in [Panels -> Mounting]
  /\ panels[p] \in Mounting
  /\ panels[p].copy \in LinkState /\ panels[p].op \in Operation
  /\ panels[p].op.base \in LinkState /\ panels[p].op.verdicts \in Verdicts
  /\ stored \in LinkState
  /\ seen \subseteq Sources \X BOOLEAN
  /\ started \in 0..MaxOps /\ started \in Nat
  /\ approached \in 0..MaxApproaches /\ approached \in Nat
  /\ Sound(stored, seen, started, approached)
  /\ Panel(panels[p], seen, started, approached)
  /\ Sound(panels[p].copy, seen, started, approached)
  /\ Working(panels[p].op, seen, started, approached)
  /\ Sound(panels[p].op.base, seen, started, approached)
  /\ Sound(EmptyLinks, seen, started, approached)
  /\ Working(Idle, seen, started, approached)
  /\ Panel(Unmounted, seen, started, approached)

\* What the invariant says of storage and of one panel.
LEMMA PartsHold ==
  ASSUME IInv, NEW p \in Panels
  PROVE  Parts(p)
<1>1. /\ panels \in [Panels -> Mounting] /\ stored \in LinkState
      /\ seen \subseteq Sources \X BOOLEAN
      /\ started \in 0..MaxOps /\ started \in Nat
      /\ approached \in 0..MaxApproaches /\ approached \in Nat
  BY TypeParts, LinkAssumption DEF IInv
<1>2. panels[p] \in Mounting
  BY <1>1
<1>3. /\ panels[p].copy \in LinkState /\ panels[p].op \in Operation
      /\ panels[p].op.base \in LinkState /\ panels[p].op.verdicts \in Verdicts
  BY <1>2 DEF Mounting, Operation
<1>4. /\ Sound(stored, seen, started, approached)
      /\ Panel(panels[p], seen, started, approached)
  BY DEF IInv
<1>5. /\ Sound(EmptyLinks, seen, started, approached)
      /\ Working(Idle, seen, started, approached)
      /\ Panel(Unmounted, seen, started, approached)
  BY <1>1, EmptyIsSound
<1> QED BY <1>1, <1>2, <1>3, <1>4, <1>5 DEF Panel, Working, Parts

-----------------------------------------------------------------------------
\* The invariant holds before anything is opened.
LEMMA InitHolds == Init => IInv
<1> SUFFICES ASSUME Init PROVE IInv
  OBVIOUS
<1>1. TypeOK
  BY EmptyIsTyped, TypeParts, LinkAssumption DEF Init
<1> QED BY <1>1, EmptyIsSound DEF Init, IInv

\* A panel that mounts takes storage's record as it is.
LEMMA MountKeeps ==
  ASSUME IInv, NEW p \in Panels, Mount(p)
  PROVE  IInv'
<1>0. Parts(p)
  BY PartsHold
<1> USE <1>0 DEF Parts
<1>1. panels'[p] = [mounted |-> TRUE, copy |-> stored, desk |-> stored.pipeline, op |-> Idle]
  BY DEF Mount
<1>2. panels'[p] \in Mounting
  BY <1>1, EmptyIsTyped DEF Mounting, LinkState
<1>3. Panel(panels'[p], seen, started, approached)
  BY <1>1 DEF Panel, Sound
<1>9. OneStep(p)
  BY <1>1, <1>2, <1>3 DEF OneStep, Mount
<1> QED BY <1>9, OnePanel

\* A page that is left lets its operation go on.
LEMMA UnmountKeeps ==
  ASSUME IInv, NEW p \in Panels, Unmount(p)
  PROVE  IInv'
<1>0. Parts(p)
  BY PartsHold
<1> USE <1>0 DEF Parts
<1>1. panels'[p] = [mounted |-> FALSE, copy |-> EmptyLinks, desk |-> EmptyLinks.pipeline,
                    op |-> panels[p].op]
  BY DEF Unmount, Mounting
<1>2. panels'[p] \in Mounting
  BY <1>1, EmptyIsTyped DEF Mounting, LinkState
<1>3. Panel(panels'[p], seen, started, approached)
  BY <1>1 DEF Panel, Sound
<1>4. panels' = [panels EXCEPT ![p] = panels'[p]]
  BY <1>1 DEF Unmount, Mounting
<1>9. OneStep(p)
  BY <1>2, <1>3, <1>4 DEF OneStep, Unmount
<1> QED BY <1>9, OnePanel

\* A tab that closes takes its operation with it.
LEMMA ClosePanelKeeps ==
  ASSUME IInv, NEW p \in Panels, ClosePanel(p)
  PROVE  IInv'
<1>0. Parts(p)
  BY PartsHold
<1> USE <1>0 DEF Parts
<1>1. panels' = [panels EXCEPT ![p] = panels'[p]] /\ panels'[p] = Unmounted
  BY DEF ClosePanel
<1>9. OneStep(p)
  BY <1>1, EmptyIsTyped DEF OneStep, ClosePanel
<1> QED BY <1>9, OnePanel

\* The gap report and a failure leave the panel without its operation.
LEMMA EndKeeps ==
  ASSUME IInv, NEW p \in Panels, FinishGap(p) \/ FailOp(p)
  PROVE  IInv'
<1>0. Parts(p)
  BY PartsHold
<1> USE <1>0 DEF Parts
<1>1. /\ panels' = [panels EXCEPT ![p].op = Idle]
      /\ UNCHANGED <<stored, seen, started, approached>>
  BY DEF FinishGap, FailOp
<1>2. panels'[p] = [mounted |-> panels[p].mounted, copy |-> panels[p].copy,
                    desk |-> panels[p].desk, op |-> Idle]
  BY <1>1 DEF Mounting
<1>3. panels'[p] \in Mounting
  BY <1>2, EmptyIsTyped DEF Mounting
<1>4. Panel(panels'[p], seen, started, approached)
  BY <1>2 DEF Panel
<1>5. panels' = [panels EXCEPT ![p] = panels'[p]]
  BY <1>1
<1>9. OneStep(p)
  BY <1>1, <1>3, <1>4, <1>5 DEF OneStep
<1> QED BY <1>9, OnePanel

\* What starts is numbered after all its copy holds.
LEMMA StartKeeps ==
  ASSUME IInv, NEW p \in Panels, NEW kind \in {"pull", "competitors", "verify"},
         NEW queue \in SUBSET Sources, Start(p, kind, queue)
  PROVE  IInv'
<1>0. Parts(p)
  BY PartsHold
<1> USE <1>0 DEF Parts
<1> DEFINE op == [kind |-> kind, base |-> panels[p].copy, queue |-> queue,
                  verdicts |-> Idle.verdicts, number |-> started + 1]
<1>1. /\ panels' = [panels EXCEPT ![p].op = op]
      /\ started' = started + 1 /\ started' \in 0..MaxOps
      /\ UNCHANGED <<stored, seen, approached>>
  BY LinkAssumption DEF Start
<1>2. panels'[p] = [mounted |-> panels[p].mounted, copy |-> panels[p].copy,
                    desk |-> panels[p].desk, op |-> op]
  BY <1>1 DEF Mounting
<1>3. op \in Operation
  BY <1>1, EmptyIsTyped DEF Operation
<1>4. panels'[p] \in Mounting
  BY <1>2, <1>3 DEF Mounting
<1>5. /\ Sound(panels[p].copy, seen, started + 1, approached)
      /\ Sound(stored, seen, started + 1, approached)
  BY SoundGrows
<1>6. Working(op, seen, started + 1, approached)
  <2>1. \A s \in DOMAIN op.verdicts : FALSE
    BY DEF Idle
  <2> QED BY <1>5, <2>1 DEF Working, Sound
<1>7. Panel(panels'[p], seen, started + 1, approached)
  BY <1>2, <1>5, <1>6 DEF Panel
<1>8. panels' = [panels EXCEPT ![p] = panels'[p]]
  BY <1>1
<1>9. OneStep(p)
  BY <1>1, <1>4, <1>5, <1>7, <1>8 DEF OneStep
<1> QED BY <1>9, OnePanel

-----------------------------------------------------------------------------
\* What update writes when a pull or a verification ends: any sound record.
LEMMA SaveKeeps ==
  ASSUME IInv, NEW p \in Panels, NEW next \in LinkState,
         Sound(next, seen, started, approached),
         Save(p, next), UNCHANGED <<seen, started, approached>>
  PROVE  IInv'
<1>0. Parts(p)
  BY PartsHold
<1> USE <1>0 DEF Parts
<1> DEFINE copy == IF panels[p].mounted THEN next ELSE EmptyLinks
<1>1. stored' = next /\ panels' = [panels EXCEPT ![p].op = Idle, ![p].copy = copy]
  BY DEF Save
<1>2. panels'[p] = [mounted |-> panels[p].mounted, copy |-> copy,
                    desk |-> panels[p].desk, op |-> Idle]
  BY <1>1 DEF Mounting
<1>3. copy \in LinkState /\ Sound(copy, seen, started, approached)
  BY EmptyIsTyped
<1>4. panels'[p] \in Mounting
  BY <1>2, <1>3, EmptyIsTyped DEF Mounting
<1>5. Panel(panels'[p], seen, started, approached)
  BY <1>2, <1>3 DEF Panel
<1>6. panels' = [panels EXCEPT ![p] = panels'[p]]
  BY <1>1 DEF Mounting
<1>9. OneStep(p)
  BY <1>1, <1>4, <1>5, <1>6 DEF OneStep
<1> QED BY <1>9, OnePanel

\* Claims leave every known link as it was and confirm nothing.
LEMMA ClaimsAreSound ==
  ASSUME NEW base \in LinkState, NEW sources \in SUBSET Sources,
         NEW rows \in [sources -> BOOLEAN], NEW S, NEW n \in Nat, NEW k \in Nat,
         Sound(base, S, n, k)
  PROVE  LET next == [base EXCEPT !.portfolio = WithClaims(base.portfolio, rows)]
         IN /\ next \in LinkState
            /\ Sound(next, S, n, k)
            /\ Keeps(base, next)
<1> DEFINE old == base.portfolio
           new == WithClaims(old, rows)
           next == [base EXCEPT !.portfolio = new]
<1>1. base = [portfolio |-> old, pipeline |-> base.pipeline]
      /\ old \in Portfolios /\ base.pipeline \in [Candidates -> 0..MaxApproaches]
  BY DEF LinkState
<1>2. next = [portfolio |-> new, pipeline |-> base.pipeline]
  BY <1>1
<1>3. /\ DOMAIN old \subseteq Sources
      /\ \A s \in DOMAIN old : old[s] \in PortfolioLink
  BY <1>1, PortfolioIs
<1>4. DOMAIN new = DOMAIN old \cup sources /\ new = [s \in DOMAIN new |-> new[s]]
  BY DEF WithClaims
<1>5. \A s \in DOMAIN old : new[s] = old[s]
  BY DEF WithClaims
<1>6. \A s \in DOMAIN new \ DOMAIN old :
        new[s] = [status |-> "unconfirmed", followed |-> rows[s], placed |-> FALSE,
                  lastVerified |-> 0]
  BY DEF WithClaims, portfolioFrom
<1> HIDE DEF new
<1>7. ASSUME NEW s \in DOMAIN new
      PROVE  new[s] \in PortfolioLink
  <2>1. CASE s \in DOMAIN old
    BY <2>1, <1>3, <1>5
  <2>2. CASE s \notin DOMAIN old
    <3>1. rows[s] \in BOOLEAN
      BY <2>2, <1>4
    <3>2. new[s] = [status |-> "unconfirmed", followed |-> rows[s], placed |-> FALSE,
                    lastVerified |-> 0]
      BY <2>2, <1>6
    <3>3. 0 \in 0..MaxOps /\ "unconfirmed" \in LinkStatuses
      BY LinkAssumption DEF LinkStatuses
    <3> QED BY <3>1, <3>2, <3>3 DEF PortfolioLink
  <2> QED BY <2>1, <2>2
<1>8. new \in Portfolios
  BY <1>3, <1>4, <1>7, PortfolioIs
<1>9. next \in LinkState
  BY <1>1, <1>2, <1>8 DEF LinkState
<1>10. Sound(next, S, n, k)
  <2> SUFFICES ASSUME NEW s \in DOMAIN new
               PROVE  /\ new[s].lastVerified <= n /\ Backed(new[s], s, S)
                      /\ new[s].status = "confirmed" => new[s].lastVerified > 0
    BY <1>2 DEF Sound
  <2>1. CASE s \in DOMAIN old
    BY <2>1, <1>5 DEF Sound
  <2>2. CASE s \notin DOMAIN old
    <3>1. new[s].status = "unconfirmed" /\ new[s].lastVerified = 0
      BY <2>2, <1>6
    <3> QED BY <3>1 DEF Backed
  <2> QED BY <2>1, <2>2
<1>11. Keeps(base, next)
  <2>1. \A d \in Candidates : base.pipeline[d] \in Int
    BY <1>1
  <2>2. \A s \in DOMAIN old : old[s].lastVerified \in Int
    BY <1>3 DEF PortfolioLink
  <2> QED BY <1>2, <1>4, <1>5, <2>1, <2>2 DEF Keeps
<1> HIDE DEF next, new
<1> QED BY <1>9, <1>10, <1>11 DEF next, new

\* The verdicts of one operation, put into the record it started from.
LEMMA VerdictsAreSound ==
  ASSUME NEW op \in Operation, op.kind = "verify", NEW S, NEW n \in Nat, NEW k \in Nat,
         Working(op, S, n, k)
  PROVE  LET next == [op.base EXCEPT !.portfolio =
                        applyVerdicts(op.base.portfolio, op.verdicts, op.number)]
         IN /\ next \in LinkState
            /\ Sound(next, S, n, k)
            /\ Keeps(op.base, next)
<1> DEFINE base == op.base
           old == base.portfolio
           new == applyVerdicts(old, op.verdicts, op.number)
           next == [base EXCEPT !.portfolio = new]
<1>1. /\ base = [portfolio |-> old, pipeline |-> base.pipeline]
      /\ old \in Portfolios /\ base.pipeline \in [Candidates -> 0..MaxApproaches]
      /\ op.verdicts \in Verdicts /\ op.number \in 0..MaxOps
  BY DEF LinkState, Operation
<1>2. next = [portfolio |-> new, pipeline |-> base.pipeline]
  BY <1>1
<1>3. /\ DOMAIN old \subseteq Sources
      /\ \A s \in DOMAIN old : old[s] \in PortfolioLink
      /\ \A s \in DOMAIN op.verdicts : op.verdicts[s] \in Verdict
  BY <1>1, PortfolioIs, VerdictsAre
<1>4. DOMAIN new = DOMAIN old /\ new = [s \in DOMAIN new |-> new[s]]
  BY DEF applyVerdicts
<1>5. \A s \in DOMAIN old \ DOMAIN op.verdicts : new[s] = old[s]
  BY DEF applyVerdicts
<1>6. \A s \in DOMAIN old \cap DOMAIN op.verdicts :
        new[s] = [status |-> op.verdicts[s].status, followed |-> op.verdicts[s].followed,
                  placed |-> op.verdicts[s].placed, lastVerified |-> op.number]
  BY DEF applyVerdicts
<1> HIDE DEF new, old
<1>7. ASSUME NEW s \in DOMAIN new
      PROVE  new[s] \in PortfolioLink
  <2>1. CASE s \notin DOMAIN op.verdicts
    BY <2>1, <1>3, <1>4, <1>5
  <2>2. CASE s \in DOMAIN op.verdicts
    <3>1. op.verdicts[s] \in Verdict
      BY <2>2, <1>3
    <3> QED BY <2>2, <3>1, <1>1, <1>4, <1>6 DEF PortfolioLink, Verdict
  <2> QED BY <2>1, <2>2
<1>8. new \in Portfolios
  BY <1>3, <1>4, <1>7, PortfolioIs
<1>9. next \in LinkState
  BY <1>1, <1>2, <1>8 DEF LinkState
<1>10. /\ Sound(base, S, n, k) /\ op.number <= n /\ op.number > 0
       /\ \A s \in DOMAIN old : old[s].lastVerified <= op.number
       /\ \A s \in DOMAIN op.verdicts : Backed(op.verdicts[s], s, S)
  BY DEF Working, old
<1>11. Sound(next, S, n, k)
  <2> SUFFICES ASSUME NEW s \in DOMAIN new
               PROVE  /\ new[s].lastVerified <= n /\ Backed(new[s], s, S)
                      /\ new[s].status = "confirmed" => new[s].lastVerified > 0
    BY <1>2, <1>10 DEF Sound
  <2>1. CASE s \notin DOMAIN op.verdicts
    BY <2>1, <1>4, <1>5, <1>10 DEF Sound, old
  <2>2. CASE s \in DOMAIN op.verdicts
    <3>1. /\ new[s].status = op.verdicts[s].status
          /\ new[s].followed = op.verdicts[s].followed
          /\ new[s].lastVerified = op.number
      BY <2>2, <1>4, <1>6
    <3>2. Backed(op.verdicts[s], s, S)
      BY <2>2, <1>10
    <3> QED BY <3>1, <3>2, <1>10 DEF Backed
  <2> QED BY <2>1, <2>2
<1>12. Keeps(base, next)
  <2>1. \A d \in Candidates : base.pipeline[d] \in Int
    BY <1>1
  <2>2. \A s \in DOMAIN old : old[s].lastVerified \in Int
    BY <1>3 DEF PortfolioLink
  <2>3. ASSUME NEW s \in DOMAIN old
        PROVE  old[s].lastVerified <= new[s].lastVerified
    <3>1. CASE s \in DOMAIN op.verdicts
      <4>1. s \in DOMAIN old \cap DOMAIN op.verdicts
        BY <3>1
      <4>2. new[s] = [status |-> op.verdicts[s].status,
                      followed |-> op.verdicts[s].followed,
                      placed |-> op.verdicts[s].placed, lastVerified |-> op.number]
        BY <4>1, <1>6
      <4>3. new[s].lastVerified = op.number
        BY <4>2
      <4> QED BY <4>3, <1>10
    <3>2. CASE s \notin DOMAIN op.verdicts
      BY <3>2, <2>2, <1>5
    <3> QED BY <3>1, <3>2
  <2> QED BY <1>2, <1>4, <2>1, <2>3 DEF Keeps, old
<1> QED BY <1>9, <1>11, <1>12 DEF new, old

\* A pull writes links that claim nothing.
LEMMA FinishPullKeeps ==
  ASSUME IInv, NEW p \in Panels, NEW sources \in SUBSET Sources,
         NEW rows \in [sources -> BOOLEAN], FinishPull(p, rows)
  PROVE  IInv'
<1>0. Parts(p)
  BY PartsHold
<1> DEFINE base == panels[p].op.base
           next == [base EXCEPT !.portfolio = WithClaims(base.portfolio, rows)]
<1>1. base \in LinkState /\ Sound(base, seen, started, approached)
      /\ started \in Nat /\ approached \in Nat
  BY <1>0 DEF Parts
<1>2. Save(p, next) /\ UNCHANGED <<seen, started, approached>>
  BY DEF FinishPull
<1> HIDE DEF base
<1>3. next \in LinkState /\ Sound(next, seen, started, approached)
  BY <1>1, ClaimsAreSound
<1> HIDE DEF next
<1> QED BY <1>2, <1>3, SaveKeeps

\* A verification writes verdicts its fetches gave.
LEMMA FinishVerifyKeeps ==
  ASSUME IInv, NEW p \in Panels, FinishVerify(p)
  PROVE  IInv'
<1>0. Parts(p)
  BY PartsHold
<1> DEFINE op == panels[p].op
           next == [op.base EXCEPT !.portfolio =
                      applyVerdicts(op.base.portfolio, op.verdicts, op.number)]
<1>1. /\ op \in Operation /\ op.kind = "verify"
      /\ Working(op, seen, started, approached)
      /\ started \in Nat /\ approached \in Nat
  BY <1>0 DEF Parts, FinishVerify
<1>2. Save(p, next) /\ UNCHANGED <<seen, started, approached>>
  BY DEF FinishVerify
<1> HIDE DEF op
<1>3. next \in LinkState /\ Sound(next, seen, started, approached)
  BY <1>1, VerdictsAreSound
<1> HIDE DEF next
<1> QED BY <1>2, <1>3, SaveKeeps

\* A batch adds what it found to the verdicts and to what was seen.
LEMMA VerifyBatchKeeps ==
  ASSUME IInv, NEW p \in Panels, NEW batch \in SUBSET Sources,
         NEW found \in [batch -> Carries], VerifyBatch(p, batch, found)
  PROVE  IInv'
<1>0. Parts(p)
  BY PartsHold
<1> USE <1>0 DEF Parts
<1> DEFINE op == panels[p].op
           verdicts == [s \in DOMAIN op.verdicts \cup batch |->
                          IF s \in batch THEN verifyFrom(found[s]) ELSE op.verdicts[s]]
           new == [kind |-> op.kind, base |-> op.base, queue |-> op.queue \ batch,
                   verdicts |-> verdicts, number |-> op.number]
<1>1. /\ panels' = [panels EXCEPT ![p].op.queue = op.queue \ batch, ![p].op.verdicts = verdicts]
      /\ seen' = seen \cup {<<s, found[s] # "nofollow">> :
                   s \in {t \in batch : found[t] \in {"followed", "nofollow", "lookalike"}}}
      /\ UNCHANGED <<stored, started, approached>>
  BY DEF VerifyBatch
<1>4. panels'[p] = [mounted |-> panels[p].mounted, copy |-> panels[p].copy,
                    desk |-> panels[p].desk, op |-> new]
  BY <1>1 DEF Mounting, Operation
<1>5. panels' = [panels EXCEPT ![p] = panels'[p]]
  BY <1>1
<1>6. seen \subseteq seen' /\ seen' \subseteq Sources \X BOOLEAN
  <2> SUFFICES ASSUME NEW x \in seen', x \notin seen
               PROVE  x \in Sources \X BOOLEAN
    BY <1>1
  <2>1. PICK s \in batch : x = <<s, found[s] # "nofollow">>
    BY <1>1
  <2> QED BY <2>1
<1>7. ASSUME NEW s \in batch
      PROVE  verifyFrom(found[s]) \in Verdict /\ Backed(verifyFrom(found[s]), s, seen')
  <2>1. found[s] \in Carries
    OBVIOUS
  <2>2. verifyFrom(found[s]) \in Verdict
    BY <2>1 DEF verifyFrom, Verdict, LinkStatuses, Carries
  <2>3. ASSUME verifyFrom(found[s]).status = "confirmed"
        PROVE  <<s, verifyFrom(found[s]).followed>> \in seen'
    <3>1. found[s] \in {"followed", "nofollow", "lookalike"}
      BY <2>1, <2>3 DEF verifyFrom, Carries
    <3>2. verifyFrom(found[s]).followed = (found[s] # "nofollow")
      BY <3>1 DEF verifyFrom
    <3>3. <<s, found[s] # "nofollow">> \in seen'
      BY <1>1, <3>1
    <3> QED BY <3>2, <3>3
  <2> QED BY <2>2, <2>3 DEF Backed
<1>8. DOMAIN op.verdicts \subseteq Sources
      /\ \A s \in DOMAIN op.verdicts : op.verdicts[s] \in Verdict
  BY VerdictsAre
<1>9. /\ DOMAIN verdicts = DOMAIN op.verdicts \cup batch
      /\ \A s \in batch : verdicts[s] = verifyFrom(found[s])
      /\ \A s \in DOMAIN op.verdicts \ batch : verdicts[s] = op.verdicts[s]
      /\ verdicts = [s \in DOMAIN verdicts |-> verdicts[s]]
  OBVIOUS
<1> HIDE DEF verdicts
<1>10. verdicts \in Verdicts
  <2>1. \A s \in DOMAIN verdicts : verdicts[s] \in Verdict
    BY <1>7, <1>8, <1>9
  <2> QED BY <1>8, <1>9, <2>1, VerdictsAre
<1>11. \A s \in DOMAIN verdicts : Backed(verdicts[s], s, seen')
  <2> SUFFICES ASSUME NEW s \in DOMAIN verdicts PROVE Backed(verdicts[s], s, seen')
    OBVIOUS
  <2>1. CASE s \in batch
    BY <2>1, <1>7, <1>9
  <2>2. CASE s \notin batch
    <3>1. Backed(op.verdicts[s], s, seen)
      BY <2>2, <1>9 DEF Working
    <3>2. verdicts[s] = op.verdicts[s]
      BY <2>2, <1>9
    <3> QED BY <3>1, <3>2, <1>6 DEF Backed
  <2> QED BY <2>1, <2>2
<1>12. panels'[p] \in Mounting
  <2>1. new \in Operation
    BY <1>10 DEF Operation
  <2> HIDE DEF new
  <2> QED BY <1>4, <2>1 DEF Mounting
<1>13. /\ Sound(stored, seen', started, approached)
       /\ Panel(panels[p], seen', started, approached)
  BY <1>6, SoundGrows, PanelGrows
<1>14. Working(new, seen', started, approached)
  BY <1>11, <1>13 DEF Panel, Working
<1>15. Panel(panels'[p], seen', started, approached)
  <2> HIDE DEF new
  <2> QED BY <1>4, <1>13, <1>14 DEF Panel
<1>16. OneStep(p)
  BY <1>1, <1>5, <1>6, <1>12, <1>13, <1>15 DEF OneStep
<1> QED BY <1>16, OnePanel

\* An approach goes to what storage holds now.
LEMMA RecordApproachKeeps ==
  ASSUME IInv, NEW p \in Panels, NEW d \in Candidates, RecordApproach(p, d)
  PROVE  IInv'
<1>0. Parts(p)
  BY PartsHold
<1> USE <1>0 DEF Parts
<1> DEFINE pipeline == [stored.pipeline EXCEPT ![d] = @ + 1]
           next == [portfolio |-> stored.portfolio, pipeline |-> pipeline]
<1>1. /\ stored' = next /\ panels' = [panels EXCEPT ![p].desk = pipeline]
      /\ approached' = approached + 1 /\ approached' \in 0..MaxApproaches
      /\ UNCHANGED <<seen, started>>
  BY LinkAssumption DEF RecordApproach, LinkState
<1>2. /\ stored.pipeline \in [Candidates -> 0..MaxApproaches]
      /\ \A e \in Candidates : stored.pipeline[e] <= approached
      /\ stored.portfolio \in Portfolios
  BY DEF LinkState, Sound
<1>3. /\ pipeline \in [Candidates -> 0..MaxApproaches]
      /\ \A e \in Candidates : pipeline[e] <= approached + 1
  <2>1. ASSUME NEW e \in Candidates
        PROVE  pipeline[e] \in 0..MaxApproaches /\ pipeline[e] <= approached + 1
    <3>1. stored.pipeline[e] \in 0..MaxApproaches /\ stored.pipeline[e] <= approached
      BY <1>2
    <3>2. pipeline[e] = IF e = d THEN stored.pipeline[e] + 1 ELSE stored.pipeline[e]
      BY <1>2
    <3> QED BY <3>1, <3>2, <1>1, LinkAssumption
  <2>2. pipeline = [e \in Candidates |-> pipeline[e]]
    BY <1>2
  <2> HIDE DEF pipeline
  <2> QED BY <2>1, <2>2
<1> HIDE DEF pipeline
<1>4. next \in LinkState
  BY <1>2, <1>3 DEF LinkState
<1>5. Sound(next, seen, started, approached + 1)
  BY <1>3 DEF Sound
<1>6. panels'[p] = [mounted |-> panels[p].mounted, copy |-> panels[p].copy,
                    desk |-> pipeline, op |-> panels[p].op]
  BY <1>1 DEF Mounting
<1>7. panels'[p] \in Mounting
  BY <1>3, <1>6 DEF Mounting
<1>8. Panel(panels[p], seen, started, approached + 1)
  BY PanelGrows
<1>9. Panel(panels'[p], seen, started, approached + 1)
  BY <1>3, <1>6, <1>8 DEF Panel
<1>10. panels' = [panels EXCEPT ![p] = panels'[p]]
  BY <1>1
<1> HIDE DEF next
<1>11. OneStep(p)
  BY <1>1, <1>4, <1>5, <1>7, <1>9, <1>10 DEF OneStep
<1> QED BY <1>11, OnePanel

\* Every step keeps the invariant.
LEMMA StepKeeps == IInv /\ [Next]_vars => IInv'
<1> SUFFICES ASSUME IInv, [Next]_vars PROVE IInv'
  OBVIOUS
<1>1. CASE UNCHANGED vars
  <2>1. TypeOK'
    BY <1>1 DEF vars, IInv, TypeOK
  <2> QED BY <1>1, <2>1 DEF vars, IInv
<1>2. CASE Next
  <2>1. PICK p \in Panels :
          \/ Mount(p) \/ Unmount(p) \/ ClosePanel(p)
          \/ \E kind \in {"pull", "competitors", "verify"}, queue \in SUBSET Sources :
               Start(p, kind, queue)
          \/ \E sources \in SUBSET Sources : \E rows \in [sources -> BOOLEAN] :
               FinishPull(p, rows)
          \/ FinishGap(p)
          \/ \E batch \in SUBSET Sources : \E found \in [batch -> Carries] :
               VerifyBatch(p, batch, found)
          \/ FinishVerify(p) \/ FailOp(p)
          \/ \E d \in Candidates : RecordApproach(p, d)
    BY <1>2 DEF Next
  <2>2. CASE Mount(p) \/ Unmount(p) \/ ClosePanel(p) \/ FinishGap(p) \/ FailOp(p)
    BY <2>2, MountKeeps, UnmountKeeps, ClosePanelKeeps, EndKeeps
  <2>3. CASE \E kind \in {"pull", "competitors", "verify"}, queue \in SUBSET Sources :
               Start(p, kind, queue)
    BY <2>3, StartKeeps
  <2>4. CASE \E sources \in SUBSET Sources : \E rows \in [sources -> BOOLEAN] :
               FinishPull(p, rows)
    BY <2>4, FinishPullKeeps
  <2>5. CASE \E batch \in SUBSET Sources : \E found \in [batch -> Carries] :
               VerifyBatch(p, batch, found)
    BY <2>5, VerifyBatchKeeps
  <2>6. CASE FinishVerify(p)
    BY <2>6, FinishVerifyKeeps
  <2>7. CASE \E d \in Candidates : RecordApproach(p, d)
    BY <2>7, RecordApproachKeeps
  <2> QED BY <2>1, <2>2, <2>3, <2>4, <2>5, <2>6, <2>7
<1> QED BY <1>1, <1>2

\* The invariant of the link programme holds in every state.
LEMMA InvariantHolds == Spec => []IInv
<1> QED BY InitHolds, StepKeeps, PTL DEF Spec

(***************************************************************************)
(* Storage and every mounting hold well-formed records, whatever panels    *)
(* save over each other (loadLinks, saveLinks, update).                    *)
(***************************************************************************)
THEOREM TypeCorrect == Spec => []TypeOK
<1>1. IInv => TypeOK
  BY DEF IInv
<1> QED BY InvariantHolds, <1>1, PTL

(***************************************************************************)
(* A link is shown or stored as confirmed only when a fetch of its page    *)
(* found it so: neither a provider's row nor a lost or repeated save can   *)
(* make one (portfolioFrom, verifyFrom, applyVerdicts).                    *)
(***************************************************************************)
THEOREM ConfirmedByAFetch == Spec => []ConfirmedWasRead
<1>1. IInv => ConfirmedWasRead
  <2> SUFFICES ASSUME IInv,
                      NEW state \in {stored} \cup {panels[p].copy : p \in Panels},
                      NEW s \in DOMAIN state.portfolio,
                      state.portfolio[s].status = "confirmed"
               PROVE  /\ state.portfolio[s].lastVerified > 0
                      /\ <<s, state.portfolio[s].followed>> \in seen
    BY DEF ConfirmedWasRead
  <2>1. Sound(state, seen, started, approached)
    BY DEF IInv, Panel
  <2> QED BY <2>1 DEF Sound, Backed
<1> QED BY InvariantHolds, <1>1, PTL

-----------------------------------------------------------------------------
\* A record has all that it has.
LEMMA KeepsItself ==
  ASSUME NEW state \in LinkState
  PROVE  Keeps(state, state)
<1>1. \A s \in DOMAIN state.portfolio : state.portfolio[s].lastVerified \in Int
  BY PortfolioIs DEF LinkState, PortfolioLink
<1>2. \A d \in Candidates : state.pipeline[d] \in Int
  BY DEF LinkState
<1> QED BY <1>1, <1>2 DEF Keeps

\* The panel an operation ended on, where it had started from an older record.
EndedStale(p) ==
  panels[p].op # Idle /\ panels'[p].op = Idle /\ panels[p].op.base # stored

\* A pull writes back the record it started from and more.
LEMMA PullLoses ==
  ASSUME IInv, NEW p \in Panels, NEW sources \in SUBSET Sources,
         NEW rows \in [sources -> BOOLEAN], FinishPull(p, rows)
  PROVE  Keeps(stored, stored') \/ EndedStale(p)
<1>0. Parts(p)
  BY PartsHold
<1>1. panels[p].op # Idle /\ panels'[p].op = Idle
  BY <1>0 DEF FinishPull, Save, Idle, Parts, Mounting
<1>2. CASE panels[p].op.base = stored
  <2>1. stored' = [stored EXCEPT !.portfolio = WithClaims(stored.portfolio, rows)]
    BY <1>2 DEF FinishPull, Save
  <2>2. Keeps(stored, [stored EXCEPT !.portfolio = WithClaims(stored.portfolio, rows)])
    BY <1>0, ClaimsAreSound DEF Parts
  <2> QED BY <2>1, <2>2
<1> QED BY <1>1, <1>2 DEF EndedStale

\* So does a verification.
LEMMA VerifyLoses ==
  ASSUME IInv, NEW p \in Panels, FinishVerify(p)
  PROVE  Keeps(stored, stored') \/ EndedStale(p)
<1>0. Parts(p)
  BY PartsHold
<1> DEFINE op == panels[p].op
           next == [op.base EXCEPT !.portfolio =
                      applyVerdicts(op.base.portfolio, op.verdicts, op.number)]
<1>1. panels[p].op # Idle /\ panels'[p].op = Idle
  BY <1>0 DEF FinishVerify, Save, Idle, Parts, Mounting
<1>2. CASE panels[p].op.base = stored
  <2>1. stored' = next
    BY DEF FinishVerify, Save
  <2>2. /\ op \in Operation /\ op.kind = "verify"
        /\ Working(op, seen, started, approached)
        /\ started \in Nat /\ approached \in Nat
    BY <1>0 DEF Parts, FinishVerify
  <2>3. op.base = stored
    BY <1>2
  <2> HIDE DEF op
  <2>4. Keeps(op.base, next)
    BY <2>2, VerdictsAreSound
  <2> HIDE DEF next
  <2> QED BY <2>1, <2>3, <2>4
<1> QED BY <1>1, <1>2 DEF EndedStale

\* An approach adds to what storage holds.
LEMMA ApproachLoses ==
  ASSUME IInv, NEW p \in Panels, NEW d \in Candidates, RecordApproach(p, d)
  PROVE  Keeps(stored, stored')
<1>0. Parts(p)
  BY PartsHold
<1>1. stored' = [portfolio |-> stored.portfolio,
                 pipeline |-> [stored.pipeline EXCEPT ![d] = @ + 1]]
  BY <1>0 DEF RecordApproach, LinkState, Parts
<1>2. /\ \A s \in DOMAIN stored.portfolio :
           stored.portfolio[s].lastVerified <= stored.portfolio[s].lastVerified
      /\ \A e \in Candidates : stored.pipeline[e] <= stored.pipeline[e]
  BY <1>0, KeepsItself DEF Parts, Keeps
<1>3. \A e \in Candidates : stored.pipeline[e] <= stored'.pipeline[e]
  BY <1>0, <1>1 DEF Parts, LinkState
<1> QED BY <1>1, <1>2, <1>3 DEF Keeps

(***************************************************************************)
(* Storage loses a link, a verification or an approach only when a pull or *)
(* a verification ends whose copy was older than storage (update).         *)
(***************************************************************************)
THEOREM LossIsExplained == Spec => LossExplained
<1>1. ASSUME IInv, [Next]_vars
      PROVE  Keeps(stored, stored') \/ \E p \in Panels : EndedStale(p)
  <2>1. stored \in LinkState
    BY <1>1 DEF IInv, TypeOK
  <2>2. CASE UNCHANGED stored
    BY <2>1, <2>2, KeepsItself
  <2>3. CASE \E p \in Panels, sources \in SUBSET Sources :
               \E rows \in [sources -> BOOLEAN] : FinishPull(p, rows)
    BY <1>1, <2>3, PullLoses
  <2>4. CASE \E p \in Panels : FinishVerify(p)
    BY <1>1, <2>4, VerifyLoses
  <2>5. CASE \E p \in Panels, d \in Candidates : RecordApproach(p, d)
    BY <1>1, <2>5, ApproachLoses
  <2> QED BY <1>1, <2>2, <2>3, <2>4, <2>5
        DEF Next, vars, Mount, Unmount, ClosePanel, Start, FinishGap, VerifyBatch, FailOp
<1>2. IInv /\ [Next]_vars =>
        [~Keeps(stored, stored') =>
           \E p \in Panels : /\ panels[p].op # Idle /\ panels'[p].op = Idle
                             /\ panels[p].op.base # stored]_vars
  BY <1>1 DEF EndedStale
<1> QED BY <1>2, InvariantHolds, PTL DEF Spec, LossExplained

-----------------------------------------------------------------------------
(***************************************************************************)
(* What the review weighs.                                                 *)
(***************************************************************************)
\* The one signal a link can give when nothing of its page is handed over.
Nofollow == [code |-> "nofollow", action |-> 0, waste |-> 45]

\* The sum of a weight over no signal or one.
LEMMA SumOfAtMostOne ==
  ASSUME NEW f, NEW S, NEW x, S \subseteq {x}, f[x] \in Nat
  PROVE  SumFunctionOnSet(f, S) \in {0, f[x]}
<1>1. CASE S = {}
  BY <1>1, SumEmpty
<1>2. CASE S = {x}
  <2>1. IsFiniteSet(S) /\ S \ {x} = {} /\ \A y \in S : f[y] \in Nat
    BY <1>2, FS_Singleton
  <2>2. SumFunctionOnSet(f, S) = f[x] + SumFunctionOnSet(f, {})
    BY <1>2, <2>1, SumWithout
  <2> QED BY <2>2, SumEmpty
<1> QED
  BY <1>1, <1>2

\* Whatever the portfolio says of a link, the review leaves it alone.
LEMMA LeftAlone ==
  ASSUME NEW portfolio, NEW s \in DOMAIN portfolio
  PROVE  assessLink(reviewableFrom(portfolio)[s]) = "leave_it"
<1> DEFINE link == reviewableFrom(portfolio)[s]
           signals == Signals(link)
           action == [x \in signals |-> x.action]
           waste == [x \in signals |-> x.waste]
<1>1. link.text = {} /\ ~link.linkDump /\ ~link.noindex /\ ~link.sitewideFooter
  BY DEF reviewableFrom
<1> HIDE DEF link
<1>2. signals \subseteq {Nofollow}
  BY <1>1 DEF Signals, Nofollow
<1> HIDE DEF signals
<1>3. signals = {} \/ signals = {Nofollow}
  BY <1>2
<1>4. SumFunctionOnSet(action, signals) = 0 /\ SumFunctionOnSet(waste, signals) \in {0, 45}
  <2>1. CASE signals = {}
    BY <2>1, SumEmpty
  <2>2. CASE signals = {Nofollow}
    <3>1. action[Nofollow] = 0 /\ waste[Nofollow] = 45
      BY <2>2 DEF Nofollow
    <3> HIDE DEF action, waste
    <3> QED BY <1>2, <3>1, SumOfAtMostOne
  <2> QED BY <1>3, <2>1, <2>2
<1> HIDE DEF action, waste
<1> DEFINE a == SumFunctionOnSet(action, signals)
           w == SumFunctionOnSet(waste, signals)
<1>5. assessLink(link) = CASE a >= 60 -> "disavow_candidate"
                           [] a \in 25..59 -> "investigate"
                           [] a < 25 /\ w >= 50 -> "ignore_it"
                           [] a < 25 /\ w < 50 -> "leave_it"
  BY DEF assessLink, signals, action, waste
<1>6. a = 0 /\ w \in {0, 45}
  BY <1>4
<1> HIDE DEF a, w
<1>7. assessLink(link) = "leave_it"
  BY <1>5, <1>6
<1> QED
  BY <1>7 DEF link

\* For every portfolio, source page and prospect: the review of the panel
\* judges nothing, and no disavow file is ever offered.
THEOREM ReviewJudgesNothing == Spec => []NothingIsJudged
<1>1. NothingIsJudged
  <2> SUFFICES ASSUME NEW p \in Panels
               PROVE  LET portfolio == panels[p].copy.portfolio
                      IN /\ \A s \in DOMAIN portfolio :
                              assessLink(reviewableFrom(portfolio)[s]) = "leave_it"
                         /\ buildDisavowFile(portfolio, TRUE) = {}
    BY DEF NothingIsJudged
  <2> DEFINE portfolio == panels[p].copy.portfolio
  <2>1. \A s \in DOMAIN portfolio : assessLink(reviewableFrom(portfolio)[s]) = "leave_it"
    BY LeftAlone
  <2> HIDE DEF portfolio
  <2>2. buildDisavowFile(portfolio, TRUE) = {}
    BY <2>1 DEF buildDisavowFile
  <2> QED BY <2>1, <2>2 DEF portfolio
<1> QED
  BY <1>1, PTL

-----------------------------------------------------------------------------
(***************************************************************************)
(* The workspace, its tabs and its account.                                *)
(***************************************************************************)
Mishaps == {"overwrote", "unsent"}
Pushed == [at : {"sent", "selected", "written", "refused"}, tab : Tabs, body : Content,
           revision : Nat, held : Nat, heard : BOOLEAN]
Answers == {NotPulled, [at |-> "done"]} \cup [at : {"read"}, revision : Nat, payload : Content]

WorkspaceTyped ==
  /\ browserOf \in [Tabs -> Browsers]
  /\ cache \in [Tabs -> Content \cup {None}]
  /\ storage \in [Browsers -> Content]
  /\ revision \in [Browsers -> Nat]
  /\ timer \in [Tabs -> BOOLEAN] /\ running \in [Tabs -> BOOLEAN] /\ behind \in [Tabs -> BOOLEAN]
  /\ pulled \in [Tabs -> Answers]
  /\ request \in [Requests -> {Free} \cup Pushed]
  /\ account \in [revision : Nat, payload : Content]
  /\ mishaps \in [Browsers -> SUBSET Mishaps]
  /\ updates \in 0..MaxUpdates /\ pushes \in 0..MaxPushes /\ faults \in 0..MaxFaults

\* Within(v, w): w has every decision v has.
Within(v, w) == \A f \in Findings : Decided(v, f) => Decided(w, f)

\* A copy without a site has no approvals.
SiteFirst(w) == ~w.site => \A f \in Findings : w.approvals[f] = "none"

(***************************************************************************)
(* Editing(t, w, what): tab t replaces the copy it holds by w, which adds  *)
(* to it, and what is held against its browser.                            *)
(***************************************************************************)
Editing(t, w, what) ==
  /\ Open(t) /\ w \in Content /\ save(t, w)
  /\ w.site /\ Within(cache[t], w)
  /\ \A u \in Tabs : u # t => w.runs[u] = cache[t].runs[u] /\ running'[u] = running[u]
  /\ w.runs[t] = "running" => running'[t] \/ (cache[t].runs[t] = "running" /\ running'[t] = running[t])
  /\ running' \in [Tabs -> BOOLEAN]
  /\ what \in SUBSET Mishaps /\ Stale(t) \subseteq what /\ mishaps' = Blame(t, what)
  /\ \/ request' = request
     \/ \E q \in Requests : /\ request[q] = Free /\ request' = [request EXCEPT ![q] = Sent(t, w)]
                            /\ Overlap(t) \subseteq what
  /\ updates' \in 0..MaxUpdates /\ pushes' \in 0..MaxPushes
  /\ UNCHANGED <<revision, pulled, account, faults, browserOf>>

\* A copy with another run of one tab is a copy, else the same.
LEMMA ContentEdited ==
  ASSUME NEW v \in Content, NEW t \in Tabs, NEW s \in RunStatus
  PROVE  /\ [v EXCEPT !.runs[t] = s] \in Content
         /\ [v EXCEPT !.runs[t] = s].site = v.site
         /\ [v EXCEPT !.runs[t] = s].approvals = v.approvals
         /\ [v EXCEPT !.runs[t] = s].runs[t] = s
         /\ \A u \in Tabs : u # t => [v EXCEPT !.runs[t] = s].runs[u] = v.runs[u]
  BY DEF Content

\* A tab is open exactly when it holds a copy.
LEMMA OpenIs ==
  ASSUME WorkspaceTyped, NEW t \in Tabs
  PROVE  Open(t) <=> cache[t] \in Content
  BY WorkspaceAssumption DEF WorkspaceTyped, Open

\* Adding the site is an edit: the approvals are kept and the run has its tab.
LEMMA AddSiteEdits ==
  ASSUME WorkspaceTyped, NEW t \in Tabs, AddSite(t), UNCHANGED browserOf
  PROVE  \E w, what : Editing(t, w, what)
<1> DEFINE v == cache[t]
           w == [v EXCEPT !.site = TRUE, !.runs[t] = "running"]
<1>1. v \in Content /\ Open(t) /\ t \in Tabs
  BY OpenIs DEF AddSite
<1>2. /\ w \in Content /\ w.site /\ w.approvals = v.approvals /\ w.runs[t] = "running"
      /\ \A u \in Tabs : u # t => w.runs[u] = v.runs[u]
  <2> HIDE DEF v
  <2> QED BY <1>1 DEF Content, RunStatus
<1>3. Update(t, w)
  BY DEF AddSite
<1> HIDE DEF w
<1>4. Within(v, w)
  BY <1>2 DEF Within, Decided
<1>5. running' = [running EXCEPT ![t] = TRUE] /\ running \in [Tabs -> BOOLEAN]
  BY DEF AddSite, WorkspaceTyped
<1>6. /\ mishaps' = Blame(t, Stale(t)) /\ Stale(t) \in SUBSET Mishaps
      /\ UNCHANGED <<revision, pulled, request, account, faults, pushes>>
      /\ updates' \in 0..MaxUpdates /\ pushes \in 0..MaxPushes
  BY <1>3, WorkspaceAssumption DEF AddSite, Stale, Mishaps, WorkspaceTyped, Update
<1>7. Editing(t, w, Stale(t))
  BY <1>1, <1>2, <1>3, <1>4, <1>5, <1>6 DEF Editing, Update
<1> QED
  BY <1>7

\* Starting a run is an edit.
LEMMA StartRunEdits ==
  ASSUME WorkspaceTyped, NEW t \in Tabs, StartRun(t), UNCHANGED browserOf
  PROVE  \E w, what : Editing(t, w, what)
<1> DEFINE v == cache[t]
           w == [v EXCEPT !.runs[t] = "running"]
<1>1. v \in Content /\ Open(t) /\ v.site /\ "running" \in RunStatus
  BY OpenIs DEF StartRun, RunStatus
<1>2. /\ w \in Content /\ w.site /\ w.approvals = v.approvals /\ w.runs[t] = "running"
      /\ \A u \in Tabs : u # t => w.runs[u] = v.runs[u]
  <2> HIDE DEF v
  <2> QED BY <1>1, ContentEdited
<1>3. Update(t, w)
  BY DEF StartRun
<1> HIDE DEF w
<1>4. Within(v, w)
  BY <1>2 DEF Within, Decided
<1>5. running' = [running EXCEPT ![t] = TRUE] /\ running \in [Tabs -> BOOLEAN]
  BY DEF StartRun, WorkspaceTyped
<1>6. /\ mishaps' = Blame(t, Stale(t)) /\ Stale(t) \in SUBSET Mishaps
      /\ UNCHANGED <<revision, pulled, request, account, faults, pushes>>
      /\ updates' \in 0..MaxUpdates /\ pushes \in 0..MaxPushes
  BY <1>3, WorkspaceAssumption DEF StartRun, Stale, Mishaps, WorkspaceTyped, Update
<1>7. Editing(t, w, Stale(t))
  BY <1>1, <1>2, <1>3, <1>4, <1>5, <1>6 DEF Editing, Update
<1> QED
  BY <1>7

\* A run that fails is an edit: it ends the run and nothing else.
LEMMA FailRunEdits ==
  ASSUME WorkspaceTyped, NEW t \in Tabs, running[t] => cache[t].site, FailRun(t),
         UNCHANGED browserOf
  PROVE  \E w, what : Editing(t, w, what)
<1> DEFINE v == cache[t]
           s == IF v.runs[t] = "none" THEN v.runs[t] ELSE "ended"
           w == [v EXCEPT !.runs[t] = s]
<1>1. v \in Content /\ Open(t) /\ v.site
  BY OpenIs DEF FailRun
<1>2. s \in RunStatus /\ s # "running"
  BY <1>1 DEF Content, RunStatus
<1>3. Update(t, w)
  BY <1>1 DEF FailRun
<1> HIDE DEF s
<1>4. /\ w \in Content /\ w.site /\ w.approvals = v.approvals /\ w.runs[t] = s
      /\ \A u \in Tabs : u # t => w.runs[u] = v.runs[u]
  <2> HIDE DEF v
  <2> QED BY <1>1, <1>2, ContentEdited
<1> HIDE DEF w
<1>5. Within(v, w)
  BY <1>4 DEF Within, Decided
<1>6. running' = [running EXCEPT ![t] = FALSE] /\ running \in [Tabs -> BOOLEAN]
  BY DEF FailRun, WorkspaceTyped
<1>7. /\ mishaps' = Blame(t, Stale(t)) /\ Stale(t) \in SUBSET Mishaps
      /\ UNCHANGED <<revision, pulled, request, account, faults, pushes>>
      /\ updates' \in 0..MaxUpdates /\ pushes \in 0..MaxPushes
  BY <1>3, WorkspaceAssumption DEF FailRun, Stale, Mishaps, WorkspaceTyped, Update
<1>8. Editing(t, w, Stale(t))
  BY <1>1, <1>2, <1>3, <1>4, <1>5, <1>6, <1>7 DEF Editing, Update
<1> QED
  BY <1>8

\* A run that completes keeps what was decided: the queue only gains the
\* pending and loses the withdrawn.
LEMMA CompleteRunEdits ==
  ASSUME WorkspaceTyped, NEW t \in Tabs, running[t] => cache[t].site,
         NEW found \in SUBSET Findings, NEW q \in Requests, CompleteRun(t, found, q),
         UNCHANGED browserOf
  PROVE  \E w, what : Editing(t, w, what)
<1> DEFINE v == cache[t]
           s == IF v.runs[t] = "none" THEN v.runs[t] ELSE "ended"
           a == AfterRun(v, found)
           w == [v EXCEPT !.runs[t] = s, !.approvals = a]
           what == Stale(t) \cup Overlap(t)
<1>1. v \in Content /\ Open(t) /\ v.site
  BY OpenIs DEF CompleteRun
<1>2. s \in RunStatus /\ s # "running"
  BY <1>1 DEF Content, RunStatus
<1>3. a \in [Findings -> ApprovalStatus] /\ \A f \in Findings : v.approvals[f] = "decided" => a[f] = "decided"
  <2> HIDE DEF v
  <2> QED BY <1>1 DEF AfterRun, Content, ApprovalStatus
<1>4. Update(t, w) /\ request' = [request EXCEPT ![q] = Sent(t, w)]
  BY <1>1 DEF CompleteRun
<1> HIDE DEF s, a
<1>5. /\ w \in Content /\ w.site /\ w.approvals = a /\ w.runs[t] = s
      /\ \A u \in Tabs : u # t => w.runs[u] = v.runs[u]
  <2> HIDE DEF v
  <2> QED BY <1>1, <1>2, <1>3 DEF Content
<1> HIDE DEF w
<1>6. Within(v, w)
  BY <1>3, <1>5 DEF Within, Decided
<1>7. running' = [running EXCEPT ![t] = FALSE] /\ running \in [Tabs -> BOOLEAN]
  BY DEF CompleteRun, WorkspaceTyped
<1>8. /\ mishaps' = Blame(t, what) /\ what \in SUBSET Mishaps /\ request[q] = Free
      /\ Stale(t) \subseteq what /\ Overlap(t) \subseteq what
      /\ UNCHANGED <<revision, pulled, account, faults>>
      /\ updates' \in 0..MaxUpdates /\ pushes' \in 0..MaxPushes
  BY <1>4, WorkspaceAssumption DEF CompleteRun, Stale, Overlap, Mishaps, WorkspaceTyped, Update
<1> HIDE DEF what
<1>9. Editing(t, w, what)
  BY <1>1, <1>2, <1>4, <1>5, <1>6, <1>7, <1>8 DEF Editing, Update
<1> QED
  BY <1>9

\* A decision is an edit: it adds one and takes none.
LEMMA DecideEdits ==
  ASSUME WorkspaceTyped, NEW t \in Tabs, NEW f \in Findings, SiteFirst(cache[t]), Decide(t, f),
         UNCHANGED browserOf
  PROVE  \E w, what : Editing(t, w, what)
<1> DEFINE v == cache[t]
           w == [v EXCEPT !.approvals[f] = "decided"]
<1>1. v \in Content /\ Open(t) /\ v.site
  BY OpenIs DEF Decide, SiteFirst, Content
<1>2. /\ w \in Content /\ w.site /\ w.runs = v.runs /\ w.approvals[f] = "decided"
      /\ \A g \in Findings : g # f => w.approvals[g] = v.approvals[g]
  <2> HIDE DEF v
  <2> QED BY <1>1 DEF Content, ApprovalStatus
<1>3. Update(t, w)
  BY DEF Decide
<1> HIDE DEF w
<1>4. Within(v, w)
  BY <1>2 DEF Within, Decided
<1>5. running' = running /\ running \in [Tabs -> BOOLEAN]
  BY DEF Decide, WorkspaceTyped
<1>6. /\ mishaps' = Blame(t, Stale(t)) /\ Stale(t) \in SUBSET Mishaps
      /\ UNCHANGED <<revision, pulled, request, account, faults, pushes>>
      /\ updates' \in 0..MaxUpdates /\ pushes \in 0..MaxPushes
  BY <1>3, WorkspaceAssumption DEF Decide, Stale, Mishaps, WorkspaceTyped, Update
<1>7. Editing(t, w, Stale(t))
  BY <1>1, <1>2, <1>3, <1>4, <1>5, <1>6 DEF Editing, Update
<1> QED
  BY <1>7

-----------------------------------------------------------------------------
\* Every copy of the workspace there is.
Copies ==
  {storage[b] : b \in Browsers} \cup {cache[t] : t \in {u \in Tabs : Open(u)}} \cup {account.payload}
  \cup {request[q].body : q \in {p \in Requests : request[p] # Free}}
  \cup {pulled[t].payload : t \in {u \in Tabs : pulled[u].at = "read"}}

\* A tab that is not behind holds what storage holds; a tab with an audit, an
\* armed push or a pull is open, and one with an audit has the site.
InStep ==
  \A t \in Tabs :
    /\ Open(t) /\ ~behind[t] => cache[t] = storage[browserOf[t]]
    /\ running[t] => Open(t) /\ cache[t].site
    /\ timer[t] => Open(t)
    /\ pulled[t].at # "no" => Open(t)

Sited == \A w \in Copies : SiteFirst(w)

\* What a save leaves in each place.
LEMMA SavePlaces ==
  ASSUME WorkspaceTyped, NEW t \in Tabs, NEW w \in Content, save(t, w)
  PROVE  /\ cache' \in [Tabs -> Content \cup {None}] /\ storage' \in [Browsers -> Content]
         /\ timer' \in [Tabs -> BOOLEAN] /\ behind' \in [Tabs -> BOOLEAN]
         /\ cache'[t] = w /\ storage'[browserOf[t]] = w /\ timer'[t] /\ ~behind'[t]
         /\ \A u \in Tabs : u # t => cache'[u] = cache[u] /\ timer'[u] = timer[u]
         /\ \A b \in Browsers : b # browserOf[t] => storage'[b] = storage[b]
         /\ \A u \in Tabs : u # t => behind'[u] = (behind[u] \/ (browserOf[u] = browserOf[t] /\ Open(u)))
<1>1. browserOf[t] \in Browsers
  BY DEF WorkspaceTyped
<1> QED
  BY <1>1 DEF WorkspaceTyped, save, Siblings

\* What is held against a browser.
LEMMA BlameIs ==
  ASSUME WorkspaceTyped, NEW t \in Tabs, NEW what \in SUBSET Mishaps, mishaps' = Blame(t, what)
  PROVE  /\ mishaps' \in [Browsers -> SUBSET Mishaps]
         /\ mishaps'[browserOf[t]] = mishaps[browserOf[t]] \cup what
         /\ \A b \in Browsers : b # browserOf[t] => mishaps'[b] = mishaps[b]
         /\ \A b \in Browsers : mishaps[b] \subseteq mishaps'[b]
<1>1. browserOf[t] \in Browsers
  BY DEF WorkspaceTyped
<1> QED
  BY <1>1 DEF WorkspaceTyped, Blame

\* A push that is sent.
LEMMA SentIs ==
  ASSUME WorkspaceTyped, NEW t \in Tabs, NEW w \in Content
  PROVE  /\ Sent(t, w) \in Pushed /\ Sent(t, w).at = "sent" /\ Sent(t, w).tab = t
         /\ Sent(t, w).body = w /\ Sent(t, w).revision = revision[browserOf[t]]
         /\ Sent(t, w) # Free
<1>1. revision[browserOf[t]] \in Nat
  BY DEF WorkspaceTyped
<1> QED
  BY <1>1 DEF Sent, Pushed, Free

\* A push in flight is one, and free is nothing else.
LEMMA PushedIs ==
  ASSUME WorkspaceTyped, NEW q \in Requests
  PROVE  /\ request[q] # Free => request[q] \in Pushed
         /\ request[q].at \in {"sent", "selected", "written", "refused"} => request[q] # Free
         /\ request[q] \in Pushed => request[q] # Free
  BY DEF WorkspaceTyped, Pushed, Free

\* An edit keeps the types.
LEMMA EditingTyped ==
  ASSUME WorkspaceTyped, NEW t \in Tabs, NEW w, NEW what, Editing(t, w, what)
  PROVE  WorkspaceTyped'
<1>1. w \in Content /\ save(t, w) /\ what \in SUBSET Mishaps /\ mishaps' = Blame(t, what)
  BY DEF Editing
<1>2. /\ cache' \in [Tabs -> Content \cup {None}] /\ storage' \in [Browsers -> Content]
      /\ timer' \in [Tabs -> BOOLEAN] /\ behind' \in [Tabs -> BOOLEAN]
  BY <1>1, SavePlaces
<1>3. mishaps' \in [Browsers -> SUBSET Mishaps]
  BY <1>1, BlameIs
<1>4. request' \in [Requests -> {Free} \cup Pushed]
  <2>1. CASE request' = request
    BY <2>1 DEF WorkspaceTyped
  <2>2. CASE \E q \in Requests : request' = [request EXCEPT ![q] = Sent(t, w)]
    BY <1>1, <2>2, SentIs DEF WorkspaceTyped
  <2> QED BY <2>1, <2>2 DEF Editing
<1> QED
  BY <1>2, <1>3, <1>4 DEF WorkspaceTyped, Editing

\* The only new copy an edit makes is the one it saves.
LEMMA EditingCopies ==
  ASSUME WorkspaceTyped, NEW t \in Tabs, NEW w, NEW what, Editing(t, w, what)
  PROVE  Copies' \subseteq Copies \cup {w}
<1>1. w \in Content /\ save(t, w) /\ pulled' = pulled /\ account' = account
  BY DEF Editing
<1>2. /\ \A u \in Tabs : cache'[u] = cache[u] \/ cache'[u] = w
      /\ \A b \in Browsers : storage'[b] = storage[b] \/ storage'[b] = w
  BY <1>1, SavePlaces
<1>3. \A q \in Requests : request'[q] = request[q] \/ (request'[q] # Free /\ request'[q].body = w)
  BY <1>1, SentIs DEF Editing, WorkspaceTyped
<1> QED
  BY <1>1, <1>2, <1>3 DEF Copies, Open

\* After an edit the tab holds what storage holds, and its siblings are behind.
LEMMA EditingInStep ==
  ASSUME WorkspaceTyped, InStep, Sited, NEW t \in Tabs, NEW w, NEW what, Editing(t, w, what)
  PROVE  InStep' /\ Sited'
<1>1. w \in Content /\ save(t, w) /\ w.site /\ UNCHANGED <<pulled, browserOf>> /\ Open(t)
  BY DEF Editing
<1>2. w # None
  BY <1>1, WorkspaceAssumption
<1>3. Sited'
  BY <1>1, EditingCopies DEF Sited, SiteFirst
<1>4. InStep'
  <2> SUFFICES ASSUME NEW u \in Tabs
               PROVE  /\ Open(u)' /\ ~behind'[u] => cache'[u] = storage'[browserOf[u]]
                      /\ running'[u] => Open(u)' /\ cache'[u].site
                      /\ timer'[u] => Open(u)'
                      /\ pulled[u].at # "no" => Open(u)'
    BY <1>1 DEF InStep
  <2>1. CASE u = t
    BY <1>1, <1>2, <2>1, SavePlaces DEF Open
  <2>2. CASE u # t
    <3>1. /\ cache'[u] = cache[u] /\ timer'[u] = timer[u] /\ running'[u] = running[u]
          /\ behind'[u] = (behind[u] \/ (browserOf[u] = browserOf[t] /\ Open(u)))
      BY <1>1, <2>2, SavePlaces DEF Editing
    <3>2. browserOf[u] # browserOf[t] => storage'[browserOf[u]] = storage[browserOf[u]]
      BY <1>1, SavePlaces DEF WorkspaceTyped
    <3> QED BY <3>1, <3>2 DEF InStep, Open
  <2> QED BY <2>1, <2>2
<1> QED
  BY <1>3, <1>4

-----------------------------------------------------------------------------
\* Replacing(t, w, what): tab t, with no audit under way, gives its copy up
\* for w: an empty one, or the one the account answered a pull with.
Replacing(t, w, what) ==
  /\ Open(t) /\ ~running[t] /\ w \in Content /\ save(t, w)
  /\ what \in SUBSET Mishaps /\ Stale(t) \subseteq what /\ mishaps' = Blame(t, what)
  /\ \/ w = EMPTY /\ "overwrote" \in what /\ UNCHANGED <<pulled, revision>>
     \/ /\ ~cache[t].site /\ pulled[t].at = "read" /\ w = pulled[t].payload
        /\ revision' = [revision EXCEPT ![browserOf[t]] = pulled[t].revision]
        /\ pulled' = [pulled EXCEPT ![t] = [at |-> "done"]]
  /\ faults' \in 0..MaxFaults
  /\ UNCHANGED <<running, request, account, updates, pushes, browserOf>>

\* Adopting(t): a browser that keeps its own sites remembers the revision of
\* the account, or there is nothing to remember.
Adopting(t) ==
  /\ Open(t) /\ pulled[t].at = "read" /\ pulled' = [pulled EXCEPT ![t] = [at |-> "done"]]
  /\ \/ UNCHANGED <<revision, mishaps>>
     \/ /\ revision' = [revision EXCEPT ![browserOf[t]] = pulled[t].revision]
        /\ mishaps' = Blame(t, IF pulled[t].payload = cache[t] /\ storage[browserOf[t]] = cache[t]
                               THEN {} ELSE {"overwrote"})
  /\ UNCHANGED <<cache, storage, timer, behind, running, request, account, updates, faults, pushes,
                 browserOf>>

\* What a pull answered.
LEMMA AnswerIs ==
  ASSUME WorkspaceTyped, NEW t \in Tabs
  PROVE  /\ pulled[t].at = "read" => pulled[t].payload \in Content /\ pulled[t].revision \in Nat
         /\ NotPulled \in Answers /\ [at |-> "done"] \in Answers
  BY DEF WorkspaceTyped, Answers, NotPulled

\* A reset replaces the copy by an empty one, which overwrites.
LEMMA ResetReplaces ==
  ASSUME WorkspaceTyped, NEW t \in Tabs, Reset(t), UNCHANGED browserOf
  PROVE  \E w, what : Replacing(t, w, what)
<1>1. EMPTY \in Content
  BY DEF EMPTY, Content, RunStatus, ApprovalStatus
<1>2. "overwrote" \in {"overwrote"} /\ {"overwrote"} \in SUBSET Mishaps /\ Stale(t) \subseteq {"overwrote"}
  BY DEF Mishaps, Stale
<1>3. faults' \in 0..MaxFaults
  BY WorkspaceAssumption DEF Reset, WorkspaceTyped
<1>4. Replacing(t, EMPTY, {"overwrote"})
  BY <1>1, <1>2, <1>3 DEF Reset, Replacing
<1> QED
  BY <1>4

\* A pull's answer is remembered, or taken in place of a copy without a site.
LEMMA ApplyPullIs ==
  ASSUME WorkspaceTyped, InStep, NEW t \in Tabs, ApplyPull(t), UNCHANGED browserOf
  PROVE  Adopting(t) \/ \E w, what : Replacing(t, w, what)
<1>1. Open(t) /\ pulled[t].at = "read" /\ pulled' = [pulled EXCEPT ![t] = [at |-> "done"]]
      /\ UNCHANGED <<running, request, account, updates, faults, pushes>>
  BY DEF ApplyPull
<1>2. pulled[t].payload \in Content /\ pulled[t].revision \in Nat
  BY <1>1, AnswerIs
<1>3. CASE pulled[t].revision = 0 \/ cache[t].site
  BY <1>1, <1>2, <1>3 DEF ApplyPull, Adopting
<1>4. CASE pulled[t].revision > 0 /\ ~cache[t].site
  <2>1. /\ save(t, pulled[t].payload) /\ mishaps' = Blame(t, Stale(t))
        /\ revision' = [revision EXCEPT ![browserOf[t]] = pulled[t].revision]
    BY <1>2, <1>4 DEF ApplyPull
  <2>2. Stale(t) \in SUBSET Mishaps /\ ~running[t] /\ faults' \in 0..MaxFaults
    BY <1>1, <1>4 DEF Stale, Mishaps, InStep, WorkspaceTyped
  <2>3. Replacing(t, pulled[t].payload, Stale(t))
    BY <1>1, <1>2, <1>4, <2>1, <2>2 DEF Replacing
  <2> QED BY <2>3
<1> QED
  BY <1>2, <1>3, <1>4

\* A replacement brings in no copy that was not there, save the empty one.
LEMMA ReplacingKeeps ==
  ASSUME WorkspaceTyped, InStep, Sited, NEW t \in Tabs, NEW w, NEW what, Replacing(t, w, what)
  PROVE  WorkspaceTyped' /\ Copies' \subseteq Copies \cup {EMPTY} /\ InStep' /\ Sited'
<1>1. w \in Content /\ save(t, w) /\ what \in SUBSET Mishaps /\ mishaps' = Blame(t, what)
      /\ UNCHANGED <<running, request, account, browserOf, updates, pushes>>
      /\ Open(t) /\ ~running[t]
  BY DEF Replacing
<1>2. w # None
  BY <1>1, WorkspaceAssumption
<1>3. /\ pulled' \in [Tabs -> Answers] /\ revision' \in [Browsers -> Nat]
      /\ \A u \in Tabs : pulled'[u] = pulled[u] \/ (u = t /\ pulled'[u].at = "done")
  BY AnswerIs DEF Replacing, WorkspaceTyped
<1>4. WorkspaceTyped'
  BY <1>1, <1>3, SavePlaces, BlameIs DEF WorkspaceTyped, Replacing
<1>5. w \in Copies \cup {EMPTY}
  BY DEF Replacing, Copies
<1>6. Copies' \subseteq Copies \cup {EMPTY}
  <2>1. /\ \A u \in Tabs : cache'[u] = cache[u] \/ cache'[u] = w
        /\ \A b \in Browsers : storage'[b] = storage[b] \/ storage'[b] = w
        /\ \A u \in Tabs : pulled'[u].at = "read" => pulled'[u] = pulled[u]
    BY <1>1, <1>3, SavePlaces
  <2> QED BY <1>1, <1>5, <2>1 DEF Copies, Open
<1>7. Sited'
  BY <1>6 DEF Sited, SiteFirst, EMPTY
<1>8. InStep'
  <2> SUFFICES ASSUME NEW u \in Tabs
               PROVE  /\ Open(u)' /\ ~behind'[u] => cache'[u] = storage'[browserOf[u]]
                      /\ running[u] => Open(u)' /\ cache'[u].site
                      /\ timer'[u] => Open(u)'
                      /\ pulled'[u].at # "no" => Open(u)'
    BY <1>1 DEF InStep
  <2>1. CASE u = t
    BY <1>1, <1>2, <2>1, SavePlaces DEF Open
  <2>2. CASE u # t
    <3>1. /\ cache'[u] = cache[u] /\ timer'[u] = timer[u] /\ pulled'[u] = pulled[u]
          /\ behind'[u] = (behind[u] \/ (browserOf[u] = browserOf[t] /\ Open(u)))
      BY <1>1, <1>3, <2>2, SavePlaces
    <3>2. browserOf[u] # browserOf[t] => storage'[browserOf[u]] = storage[browserOf[u]]
      BY <1>1, SavePlaces DEF WorkspaceTyped
    <3> QED BY <3>1, <3>2 DEF InStep, Open
  <2> QED BY <2>1, <2>2
<1> QED
  BY <1>4, <1>6, <1>7, <1>8

\* Remembering a revision changes no copy.
LEMMA AdoptingKeeps ==
  ASSUME WorkspaceTyped, InStep, NEW t \in Tabs, Adopting(t)
  PROVE  WorkspaceTyped' /\ Copies' \subseteq Copies /\ InStep'
<1>1. /\ Open(t) /\ pulled' = [pulled EXCEPT ![t] = [at |-> "done"]]
      /\ UNCHANGED <<cache, storage, timer, behind, running, request, account, updates, faults,
                     pushes, browserOf>>
  BY DEF Adopting
<1>2. pulled' \in [Tabs -> Answers] /\ \A u \in Tabs : pulled'[u] = pulled[u] \/ (u = t /\ pulled'[u].at = "done")
  BY <1>1, AnswerIs DEF WorkspaceTyped
<1>3. revision' \in [Browsers -> Nat] /\ mishaps' \in [Browsers -> SUBSET Mishaps]
  <2>1. {} \in SUBSET Mishaps /\ {"overwrote"} \in SUBSET Mishaps
    BY DEF Mishaps
  <2> QED BY <2>1, AnswerIs, BlameIs DEF Adopting, WorkspaceTyped
<1>4. WorkspaceTyped'
  BY <1>1, <1>2, <1>3 DEF WorkspaceTyped
<1>5. Copies' \subseteq Copies
  BY <1>1, <1>2 DEF Copies, Open
<1>6. InStep'
  BY <1>1, <1>2 DEF InStep, Open
<1> QED
  BY <1>4, <1>5, <1>6

-----------------------------------------------------------------------------
\* A tab that opens holds what storage holds.
LEMMA OpenTabKeeps ==
  ASSUME WorkspaceTyped, InStep, NEW t \in Tabs, OpenTab(t), UNCHANGED browserOf
  PROVE  WorkspaceTyped' /\ Copies' \subseteq Copies /\ InStep'
<1>1. /\ cache' = [cache EXCEPT ![t] = storage[browserOf[t]]] /\ storage[browserOf[t]] \in Content
      /\ pulled' = [pulled EXCEPT ![t] = NotPulled] /\ behind' = [behind EXCEPT ![t] = FALSE]
      /\ UNCHANGED <<storage, revision, timer, running, request, account, mishaps, updates, faults, pushes>>
      /\ browserOf[t] \in Browsers /\ ~Open(t)
  BY DEF OpenTab, WorkspaceTyped
<1>2. WorkspaceTyped'
  BY <1>1, AnswerIs DEF WorkspaceTyped
<1>3. /\ cache'[t] = storage[browserOf[t]] /\ \A u \in Tabs : u # t => cache'[u] = cache[u]
      /\ pulled'[t] = NotPulled /\ \A u \in Tabs : u # t => pulled'[u] = pulled[u]
      /\ \A u \in Tabs : u # t => behind'[u] = behind[u]
  BY <1>1 DEF WorkspaceTyped
<1>4. Copies' \subseteq Copies
  BY <1>1, <1>3 DEF Copies, Open, NotPulled
<1>5. InStep'
  BY <1>1, <1>3, WorkspaceAssumption DEF InStep, Open, NotPulled
<1> QED
  BY <1>2, <1>4, <1>5

\* A tab that closes leaves its pushes as they are, but will not hear their answers.
LEMMA CloseTabKeeps ==
  ASSUME WorkspaceTyped, InStep, NEW t \in Tabs, CloseTab(t), UNCHANGED browserOf
  PROVE  /\ WorkspaceTyped' /\ Copies' \subseteq Copies /\ InStep'
         /\ \A q \in Requests :
              /\ request'[q] # Free <=> request[q] # Free
              /\ request[q] # Free =>
                   /\ request'[q].at = request[q].at /\ request'[q].tab = request[q].tab
                   /\ request'[q].body = request[q].body
                   /\ request'[q].revision = request[q].revision
                   /\ request'[q].held = request[q].held
<1> DEFINE what == IF timer[t] \/ running[t] THEN {"unsent"} ELSE {}
<1>1. /\ cache' = [cache EXCEPT ![t] = None] /\ timer' = [timer EXCEPT ![t] = FALSE]
      /\ running' = [running EXCEPT ![t] = FALSE] /\ pulled' = [pulled EXCEPT ![t] = NotPulled]
      /\ mishaps' = Blame(t, what) /\ what \in SUBSET Mishaps
      /\ request' = [q \in Requests |-> IF request[q] # Free /\ request[q].tab = t
                                       THEN [request[q] EXCEPT !.heard = FALSE] ELSE request[q]]
      /\ UNCHANGED <<storage, revision, account, behind, updates, pushes>>
      /\ faults' \in 0..MaxFaults
  BY WorkspaceAssumption DEF CloseTab, WorkspaceTyped, Mishaps
<1>2. ASSUME NEW q \in Requests, request[q] # Free
      PROVE  /\ request'[q] \in Pushed /\ request'[q].at = request[q].at
             /\ request'[q].tab = request[q].tab /\ request'[q].body = request[q].body
             /\ request'[q].revision = request[q].revision /\ request'[q].held = request[q].held
  <2>1. request[q] \in Pushed
    BY <1>2, PushedIs
  <2> QED BY <1>1, <2>1 DEF Pushed
<1>3. \A q \in Requests : request[q] = Free => request'[q] = Free
  BY <1>1
<1>4. request' \in [Requests -> {Free} \cup Pushed]
  BY <1>1, <1>2, <1>3
<1>5. WorkspaceTyped'
  BY <1>1, <1>4, AnswerIs, BlameIs DEF WorkspaceTyped
<1>6. \A q \in Requests : request'[q] # Free <=> request[q] # Free
  BY <1>2, <1>3 DEF Pushed, Free
<1>7. /\ cache'[t] = None /\ \A u \in Tabs : u # t => cache'[u] = cache[u]
      /\ pulled'[t] = NotPulled /\ \A u \in Tabs : u # t => pulled'[u] = pulled[u]
      /\ ~timer'[t] /\ ~running'[t]
      /\ \A u \in Tabs : u # t => timer'[u] = timer[u] /\ running'[u] = running[u]
  BY <1>1 DEF WorkspaceTyped
<1>8. Copies' \subseteq Copies
  BY <1>1, <1>2, <1>6, <1>7 DEF Copies, Open, NotPulled
<1>9. InStep'
  BY <1>1, <1>7 DEF InStep, Open, NotPulled
<1> QED
  BY <1>2, <1>5, <1>6, <1>8, <1>9

\* A pull is answered with the account as it is.
LEMMA ReadAccountKeeps ==
  ASSUME WorkspaceTyped, InStep, NEW t \in Tabs, ReadAccount(t), UNCHANGED browserOf
  PROVE  /\ WorkspaceTyped' /\ Copies' \subseteq Copies /\ InStep'
         /\ pulled'[t].revision = account.revision /\ pulled'[t].payload = account.payload
         /\ \A u \in Tabs : u # t => pulled'[u] = pulled[u]
<1> DEFINE got == [at |-> "read", revision |-> account.revision, payload |-> account.payload]
<1>1. /\ pulled' = [pulled EXCEPT ![t] = got] /\ Open(t)
      /\ UNCHANGED <<cache, storage, revision, timer, running, request, account, behind,
                     mishaps, updates, faults, pushes>>
  BY DEF ReadAccount
<1>2. got \in Answers
  BY DEF WorkspaceTyped, Answers
<1>3. pulled'[t] = got /\ \A u \in Tabs : u # t => pulled'[u] = pulled[u]
  BY <1>1 DEF WorkspaceTyped
<1>4. WorkspaceTyped'
  BY <1>1, <1>2 DEF WorkspaceTyped
<1>5. Copies' \subseteq Copies
  BY <1>1, <1>3 DEF Copies, Open
<1>6. InStep'
  BY <1>1, <1>3 DEF InStep, Open
<1> QED
  BY <1>3, <1>4, <1>5, <1>6

\* The push sends the tab's copy, which is none that was not there.
LEMMA PushKeeps ==
  ASSUME WorkspaceTyped, InStep, NEW t \in Tabs, NEW q \in Requests, Push(t, q), UNCHANGED browserOf
  PROVE  /\ WorkspaceTyped' /\ Copies' \subseteq Copies /\ InStep'
         /\ request'[q] = Sent(t, cache[t]) /\ cache[t] \in Content
         /\ \A p \in Requests : p # q => request'[p] = request[p]
<1> DEFINE what == Stale(t) \cup Overlap(t)
<1>1. /\ request' = [request EXCEPT ![q] = Sent(t, cache[t])] /\ timer' = [timer EXCEPT ![t] = FALSE]
      /\ mishaps' = Blame(t, what) /\ what \in SUBSET Mishaps /\ pushes' \in 0..MaxPushes
      /\ UNCHANGED <<cache, storage, revision, pulled, running, account, behind, updates, faults>>
      /\ cache[t] \in Content /\ Open(t)
  BY OpenIs, WorkspaceAssumption DEF Push, Stale, Overlap, Mishaps, WorkspaceTyped
<1>2. Sent(t, cache[t]) \in Pushed /\ Sent(t, cache[t]).body = cache[t]
  BY <1>1, SentIs
<1>3. WorkspaceTyped'
  BY <1>1, <1>2, BlameIs DEF WorkspaceTyped
<1>4. request'[q] = Sent(t, cache[t]) /\ \A p \in Requests : p # q => request'[p] = request[p]
  BY <1>1 DEF WorkspaceTyped
<1>5. Copies' \subseteq Copies
  BY <1>1, <1>2, <1>4 DEF Copies, Open
<1>6. InStep'
  BY <1>1 DEF InStep, Open, WorkspaceTyped
<1> QED
  BY <1>1, <1>3, <1>4, <1>5, <1>6

\* The first statement of PUT changes nothing but the push it lets through or refuses.
LEMMA SelectRevisionKeeps ==
  ASSUME WorkspaceTyped, InStep, NEW q \in Requests, SelectRevision(q), UNCHANGED browserOf
  PROVE  /\ WorkspaceTyped' /\ Copies' \subseteq Copies /\ InStep'
         /\ \A p \in Requests : p # q => request'[p] = request[p]
         /\ request'[q] # Free /\ request'[q].tab = request[q].tab /\ request'[q].body = request[q].body
         /\ request'[q].revision = request[q].revision /\ request'[q].held = account.revision
         /\ request'[q].at = IF request[q].revision < account.revision THEN "refused" ELSE "selected"
<1> DEFINE at == IF request[q].revision < account.revision THEN "refused" ELSE "selected"
           new == [request[q] EXCEPT !.at = at, !.held = account.revision]
<1>1. request[q] \in Pushed /\ account.revision \in Nat
  BY PushedIs DEF SelectRevision, WorkspaceTyped
<1>2. at \in {"refused", "selected"}
  OBVIOUS
<1>3. request' = [request EXCEPT ![q] = new]
      /\ UNCHANGED <<cache, storage, revision, timer, pulled, running, account, behind, mishaps,
                     updates, faults, pushes>>
  BY DEF SelectRevision, WorkspaceTyped
<1> HIDE DEF at
<1>4. /\ new \in Pushed /\ new.tab = request[q].tab /\ new.body = request[q].body
      /\ new.revision = request[q].revision /\ new.held = account.revision /\ new.at = at
  BY <1>1, <1>2 DEF Pushed
<1> HIDE DEF new
<1>5. request'[q] = new /\ (\A p \in Requests : p # q => request'[p] = request[p]) /\ new # Free
  BY <1>3, <1>4 DEF WorkspaceTyped, Pushed, Free
<1>6. WorkspaceTyped'
  BY <1>3, <1>4 DEF WorkspaceTyped
<1>7. Copies' \subseteq Copies
  BY <1>1, <1>3, <1>4, <1>5, PushedIs DEF Copies, Open
<1>8. InStep'
  BY <1>3 DEF InStep, Open
<1> QED
  BY <1>4, <1>5, <1>6, <1>7, <1>8 DEF at

\* The second writes the push's copy; when the account has moved since the first
\* it is held against every browser.
LEMMA WriteAccountKeeps ==
  ASSUME WorkspaceTyped, InStep, NEW q \in Requests, WriteAccount(q), UNCHANGED browserOf
  PROVE  /\ WorkspaceTyped' /\ Copies' \subseteq Copies /\ InStep'
         /\ \A p \in Requests : p # q => request'[p] = request[p]
         /\ request[q] # Free /\ request'[q] # Free /\ request'[q].tab = request[q].tab
         /\ request'[q].body = request[q].body /\ request'[q].revision = request[q].revision
         /\ request'[q].held = request[q].held /\ request'[q].at = "written"
         /\ account'.revision = request[q].held + 1 /\ account'.payload = request[q].body
         /\ \A b \in Browsers : mishaps[b] \subseteq mishaps'[b]
         /\ account.revision = request[q].held \/ \A b \in Browsers : "overwrote" \in mishaps'[b]
<1> DEFINE new == [request[q] EXCEPT !.at = "written"]
<1>1. request[q] \in Pushed /\ request[q] # Free /\ request[q].held \in Nat /\ request[q].body \in Content
  BY PushedIs DEF WriteAccount, Pushed
<1>2. /\ request' = [request EXCEPT ![q] = new]
      /\ account' = [revision |-> request[q].held + 1, payload |-> request[q].body]
      /\ UNCHANGED <<cache, storage, revision, timer, pulled, running, behind, updates, faults, pushes>>
      /\ mishaps' = IF account.revision = request[q].held THEN mishaps
                    ELSE [b \in Browsers |-> mishaps[b] \cup {"overwrote"}]
  BY DEF WriteAccount, WorkspaceTyped
<1>3. /\ new \in Pushed /\ new.tab = request[q].tab /\ new.body = request[q].body
      /\ new.revision = request[q].revision /\ new.held = request[q].held /\ new.at = "written"
  BY <1>1 DEF Pushed
<1> HIDE DEF new
<1>4. request'[q] = new /\ (\A p \in Requests : p # q => request'[p] = request[p]) /\ new # Free
  BY <1>2, <1>3 DEF WorkspaceTyped, Pushed, Free
<1>5. /\ mishaps' \in [Browsers -> SUBSET Mishaps] /\ \A b \in Browsers : mishaps[b] \subseteq mishaps'[b]
      /\ account.revision = request[q].held \/ \A b \in Browsers : "overwrote" \in mishaps'[b]
  BY <1>2 DEF WorkspaceTyped, Mishaps
<1>6. WorkspaceTyped'
  BY <1>1, <1>2, <1>3, <1>5 DEF WorkspaceTyped
<1>7. Copies' \subseteq Copies
  BY <1>1, <1>2, <1>3, <1>4 DEF Copies, Open
<1>8. InStep'
  BY <1>2 DEF InStep, Open
<1>9. account'.revision = request[q].held + 1 /\ account'.payload = request[q].body
  BY <1>2
<1> QED
  BY <1>1, <1>3, <1>4, <1>5, <1>6, <1>7, <1>8, <1>9

\* A push that is over, answered or lost.
LEMMA EndPushKeeps ==
  ASSUME WorkspaceTyped, InStep, NEW q \in Requests, AnswerPush(q) \/ LosePush(q), UNCHANGED browserOf
  PROVE  /\ WorkspaceTyped' /\ Copies' \subseteq Copies /\ InStep'
         /\ \A p \in Requests : p # q => request'[p] = request[p]
         /\ request[q] # Free /\ request'[q] = Free
         /\ \A b \in Browsers : mishaps[b] \subseteq mishaps'[b]
<1>1. request[q] \in Pushed /\ request[q] # Free /\ request[q].held + 1 \in Nat /\ request[q].tab \in Tabs
  BY PushedIs DEF AnswerPush, LosePush, Pushed
<1>2. /\ request' = [request EXCEPT ![q] = Free] /\ faults' \in 0..MaxFaults
      /\ UNCHANGED <<cache, storage, timer, pulled, running, account, behind, updates, pushes>>
  BY WorkspaceAssumption DEF AnswerPush, LosePush, WorkspaceTyped
<1>3. revision' \in [Browsers -> Nat]
  BY <1>1 DEF AnswerPush, LosePush, WorkspaceTyped
<1>4. mishaps' \in [Browsers -> SUBSET Mishaps] /\ \A b \in Browsers : mishaps[b] \subseteq mishaps'[b]
  <2>1. {"unsent"} \in SUBSET Mishaps
    BY DEF Mishaps
  <2>2. CASE AnswerPush(q)
    BY <2>2 DEF AnswerPush, WorkspaceTyped
  <2>3. CASE LosePush(q)
    <3>1. mishaps' = Blame(request[q].tab, {"unsent"})
      BY <2>3 DEF LosePush
    <3> QED BY <1>1, <2>1, <3>1, BlameIs
  <2> QED BY <2>2, <2>3
<1>5. WorkspaceTyped'
  BY <1>2, <1>3, <1>4 DEF WorkspaceTyped
<1>6. request'[q] = Free /\ \A p \in Requests : p # q => request'[p] = request[p]
  BY <1>2 DEF WorkspaceTyped
<1>7. Copies' \subseteq Copies
  BY <1>2, <1>6 DEF Copies, Open
<1>8. InStep'
  BY <1>2 DEF InStep, Open
<1> QED
  BY <1>1, <1>4, <1>5, <1>6, <1>7, <1>8

-----------------------------------------------------------------------------
\* The forms a step can take.
TabStep(t) ==
  \/ (OpenTab(t) \/ CloseTab(t) \/ ReadAccount(t)) /\ UNCHANGED browserOf
  \/ Adopting(t)
  \/ \E q \in Requests : Push(t, q) /\ UNCHANGED browserOf
  \/ \E w, what : Editing(t, w, what) \/ Replacing(t, w, what)
RequestStep(q) ==
  (SelectRevision(q) \/ WriteAccount(q) \/ AnswerPush(q) \/ LosePush(q)) /\ UNCHANGED browserOf

\* Every step has one of the forms: the operations of a tab come down to edits,
\* replacements and a few that write nothing.
LEMMA WorkspaceStep ==
  ASSUME WorkspaceTyped, InStep, Sited, [WorkspaceNext /\ UNCHANGED browserOf]_workspaceVars
  PROVE  (\E t \in Tabs : TabStep(t)) \/ (\E q \in Requests : RequestStep(q)) \/ UNCHANGED workspaceVars
<1>1. \A t \in Tabs : (running[t] => cache[t].site) /\ (Open(t) => SiteFirst(cache[t]))
  BY DEF InStep, Sited, Copies
<1> SUFFICES ASSUME WorkspaceNext, UNCHANGED browserOf
             PROVE  (\E t \in Tabs : TabStep(t)) \/ (\E q \in Requests : RequestStep(q))
  OBVIOUS
<1>2. ASSUME NEW t \in Tabs, AddSite(t) PROVE TabStep(t)
  BY <1>2, AddSiteEdits DEF TabStep
<1>3. ASSUME NEW t \in Tabs, StartRun(t) PROVE TabStep(t)
  BY <1>3, StartRunEdits DEF TabStep
<1>4. ASSUME NEW t \in Tabs, FailRun(t) PROVE TabStep(t)
  BY <1>1, <1>4, FailRunEdits DEF TabStep
<1>5. ASSUME NEW t \in Tabs, NEW found \in SUBSET Findings, NEW q \in Requests, CompleteRun(t, found, q)
      PROVE  TabStep(t)
  BY <1>1, <1>5, CompleteRunEdits DEF TabStep
<1>6. ASSUME NEW t \in Tabs, NEW f \in Findings, Decide(t, f) PROVE TabStep(t)
  <2>1. Open(t)
    BY <1>6 DEF Decide
  <2> QED BY <1>1, <1>6, <2>1, DecideEdits DEF TabStep
<1>7. ASSUME NEW t \in Tabs, Reset(t) PROVE TabStep(t)
  BY <1>7, ResetReplaces DEF TabStep
<1>8. ASSUME NEW t \in Tabs, ApplyPull(t) PROVE TabStep(t)
  BY <1>8, ApplyPullIs DEF TabStep
<1>9. ASSUME NEW t \in Tabs, OpenTab(t) \/ CloseTab(t) \/ ReadAccount(t) \/ \E q \in Requests : Push(t, q)
      PROVE  TabStep(t)
  BY <1>9 DEF TabStep
<1>10. ASSUME NEW q \in Requests, SelectRevision(q) \/ WriteAccount(q) \/ AnswerPush(q) \/ LosePush(q)
       PROVE  RequestStep(q)
  BY <1>10 DEF RequestStep
<1> QED
  BY <1>2, <1>3, <1>4, <1>5, <1>6, <1>7, <1>8, <1>9, <1>10 DEF WorkspaceNext

\* The first part of the invariant.
Base == WorkspaceTyped /\ InStep /\ Sited

\* It holds at first.
LEMMA BaseInit == WorkspaceInit => Base
<1> SUFFICES ASSUME WorkspaceInit PROVE Base
  OBVIOUS
<1>1. EMPTY \in Content /\ Audited \in Content /\ SiteFirst(EMPTY) /\ SiteFirst(Audited)
  BY DEF EMPTY, Audited, Content, RunStatus, ApprovalStatus, SiteFirst
<1>2. /\ browserOf \in [Tabs -> Browsers]
      /\ storage \in [Browsers -> {EMPTY, Audited}] /\ revision \in [Browsers -> Nat]
      /\ account \in [revision : Nat, payload : {EMPTY, Audited}]
  BY DEF WorkspaceInit
<1>3. cache \in [Tabs -> {EMPTY, Audited}]
  BY <1>2 DEF WorkspaceInit
<1>4. WorkspaceTyped
  BY <1>1, <1>2, <1>3, WorkspaceAssumption DEF WorkspaceInit, WorkspaceTyped, Answers, NotPulled
<1>5. InStep
  BY <1>2 DEF WorkspaceInit, InStep, NotPulled
<1>6. Copies \subseteq {EMPTY, Audited}
  BY <1>2, <1>3 DEF WorkspaceInit, Copies, NotPulled
<1>7. Sited
  BY <1>1, <1>6 DEF Sited
<1> QED
  BY <1>4, <1>5, <1>7 DEF Base

\* Every step keeps it.
LEMMA BaseStep ==
  ASSUME Base, [WorkspaceNext /\ UNCHANGED browserOf]_workspaceVars
  PROVE  Base'
<1>0. WorkspaceTyped /\ InStep /\ Sited
  BY DEF Base
<1>1. ASSUME WorkspaceTyped', InStep', Copies' \subseteq Copies PROVE Base'
  BY <1>0, <1>1 DEF Base, Sited
<1>2. ASSUME NEW t \in Tabs, TabStep(t) PROVE Base'
  <2>1. CASE (OpenTab(t) \/ CloseTab(t) \/ ReadAccount(t)) /\ UNCHANGED browserOf
    BY <1>0, <1>1, <2>1, OpenTabKeeps, CloseTabKeeps, ReadAccountKeeps
  <2>2. CASE Adopting(t)
    BY <1>0, <1>1, <2>2, AdoptingKeeps
  <2>3. CASE \E q \in Requests : Push(t, q) /\ UNCHANGED browserOf
    BY <1>0, <1>1, <2>3, PushKeeps
  <2>4. ASSUME NEW w, NEW what, Editing(t, w, what) PROVE Base'
    BY <1>0, <2>4, EditingTyped, EditingInStep DEF Base
  <2>5. ASSUME NEW w, NEW what, Replacing(t, w, what) PROVE Base'
    BY <1>0, <2>5, ReplacingKeeps DEF Base
  <2> QED BY <1>2, <2>1, <2>2, <2>3, <2>4, <2>5 DEF TabStep
<1>3. ASSUME NEW q \in Requests, RequestStep(q) PROVE Base'
  BY <1>0, <1>1, <1>3, SelectRevisionKeeps, WriteAccountKeeps, EndPushKeeps DEF RequestStep
<1>4. CASE UNCHANGED workspaceVars
  BY <1>4 DEF workspaceVars, Base, WorkspaceTyped, InStep, Sited, Copies, Open
<1> QED
  BY <1>0, <1>2, <1>3, <1>4, WorkspaceStep

\* It holds in every state.
THEOREM WorkspaceBase == WorkspaceSpec => []Base
  BY BaseInit, BaseStep, PTL DEF WorkspaceSpec

\* The workspace, its tabs' copies and the account keep their types.
THEOREM WorkspaceTypeCorrect == WorkspaceSpec => []WorkspaceTypeOK
<1>1. Base => WorkspaceTypeOK
  BY DEF Base, WorkspaceTyped, WorkspaceTypeOK
<1> QED
  BY <1>1, WorkspaceBase, PTL

-----------------------------------------------------------------------------
\* A decision leaves a browser's storage only in the write of a tab that is
\* behind or in a reset: the queue a completed run leaves, a pull and the other
\* decisions (lib/runner.ts, lib/sync.ts, lib/store.ts) all keep it.
THEOREM DecisionsAreKept == WorkspaceSpec => DecisionsSurvive
<1> DEFINE Kept == \A b \in Browsers, f \in Findings :
       (Decided(storage[b], f) /\ storage'[b].approvals[f] # storage[b].approvals[f])
         => \E t \in Tabs : /\ browserOf[t] = b /\ Open(t)
                            /\ behind[t] \/ cache'[t] = EMPTY
<1>1. ASSUME Base, [WorkspaceNext /\ UNCHANGED browserOf]_workspaceVars
      PROVE  Kept
  <2>0. WorkspaceTyped /\ InStep /\ Sited
    BY <1>1 DEF Base
  <2>1. CASE storage' = storage
    BY <2>1
  <2>2. ASSUME NEW t \in Tabs, NEW w, NEW what, Editing(t, w, what) PROVE Kept
    <3>1. w \in Content /\ save(t, w) /\ Open(t) /\ Within(cache[t], w)
      BY <2>2 DEF Editing
    <3>2. ~behind[t] => cache[t] = storage[browserOf[t]]
      BY <2>0, <3>1 DEF InStep
    <3> QED BY <2>0, <3>1, <3>2, SavePlaces DEF Within, Decided
  <2>3. ASSUME NEW t \in Tabs, NEW w, NEW what, Replacing(t, w, what) PROVE Kept
    <3>1. w \in Content /\ save(t, w) /\ Open(t) /\ (w = EMPTY \/ ~cache[t].site)
      BY <2>3 DEF Replacing
    <3>2. ~behind[t] => cache[t] = storage[browserOf[t]]
      BY <2>0, <3>1 DEF InStep
    <3>3. ~cache[t].site => \A f \in Findings : ~Decided(cache[t], f)
      BY <2>0, <3>1 DEF Sited, Copies, SiteFirst, Decided
    <3> QED BY <2>0, <3>1, <3>2, <3>3, SavePlaces
  <2>4. ASSUME NEW t \in Tabs, TabStep(t) PROVE Kept
    BY <2>1, <2>2, <2>3, <2>4 DEF TabStep, OpenTab, CloseTab, ReadAccount, Adopting, Push
  <2>5. ASSUME NEW q \in Requests, RequestStep(q) PROVE Kept
    BY <2>1, <2>5 DEF RequestStep, SelectRevision, WriteAccount, AnswerPush, LosePush
  <2>6. CASE UNCHANGED workspaceVars
    BY <2>1, <2>6 DEF workspaceVars
  <2> QED BY <1>1, <2>0, <2>4, <2>5, <2>6, WorkspaceStep
<1>2. Base /\ [WorkspaceNext /\ UNCHANGED browserOf]_workspaceVars => [Kept]_workspaceVars
  BY <1>1
<1> QED
  BY <1>2, WorkspaceBase, PTL DEF WorkspaceSpec, DecisionsSurvive

-----------------------------------------------------------------------------
\* A copy that shows a run of a tab comes from a site in the tab's browser.
Rooted ==
  \A w \in Copies, t \in Tabs :
    w.runs[t] # "none" /\ mishaps[browserOf[t]] = {} => storage[browserOf[t]].site

\* Nothing new is written, and an audit that ends is held against its browser.
Quiet ==
  /\ Copies' \subseteq Copies /\ UNCHANGED <<storage, browserOf>>
  /\ \A b \in Browsers : mishaps[b] \subseteq mishaps'[b]
  /\ \A t \in Tabs : Open(t) /\ running[t] =>
       (Open(t)' /\ running'[t]) \/ mishaps'[browserOf[t]] # {}

\* Every step is quiet, an edit or a replacement.
LEMMA QuietOrSave ==
  ASSUME Base, [WorkspaceNext /\ UNCHANGED browserOf]_workspaceVars
  PROVE  Quiet \/ \E t \in Tabs : \E w, what : Editing(t, w, what) \/ Replacing(t, w, what)
<1>0. WorkspaceTyped /\ InStep /\ Sited
  BY DEF Base
<1>1. ASSUME NEW t \in Tabs, TabStep(t)
      PROVE  Quiet \/ \E w, what : Editing(t, w, what) \/ Replacing(t, w, what)
  <2>1. CASE OpenTab(t) /\ UNCHANGED browserOf
    <3>1. /\ Copies' \subseteq Copies /\ cache' = [cache EXCEPT ![t] = storage[browserOf[t]]]
          /\ UNCHANGED <<storage, running, mishaps>> /\ ~Open(t)
      BY <1>0, <2>1, OpenTabKeeps DEF OpenTab
    <3>2. \A u \in Tabs : u # t => Open(u)' = Open(u)
      BY <1>0, <3>1 DEF Open, WorkspaceTyped
    <3> QED BY <2>1, <3>1, <3>2 DEF Quiet
  <2>2. CASE CloseTab(t) /\ UNCHANGED browserOf
    <3> DEFINE what == IF timer[t] \/ running[t] THEN {"unsent"} ELSE {}
    <3>1. /\ Copies' \subseteq Copies /\ cache' = [cache EXCEPT ![t] = None]
          /\ running' = [running EXCEPT ![t] = FALSE] /\ UNCHANGED storage
          /\ what \in SUBSET Mishaps /\ mishaps' = Blame(t, what)
      BY <1>0, <2>2, CloseTabKeeps DEF CloseTab, Mishaps
    <3>2. \A u \in Tabs : u # t => Open(u)' = Open(u) /\ running'[u] = running[u]
      BY <1>0, <3>1 DEF Open, WorkspaceTyped
    <3>3. running[t] => what # {}
      OBVIOUS
    <3>4. /\ mishaps'[browserOf[t]] = mishaps[browserOf[t]] \cup what
          /\ \A b \in Browsers : mishaps[b] \subseteq mishaps'[b]
      BY <1>0, <3>1, BlameIs
    <3> HIDE DEF what
    <3> QED BY <2>2, <3>1, <3>2, <3>3, <3>4 DEF Quiet
  <2>3. CASE ReadAccount(t) /\ UNCHANGED browserOf
    BY <1>0, <2>3, ReadAccountKeeps DEF ReadAccount, Quiet, Open
  <2>4. CASE Adopting(t)
    <3>1. {} \in SUBSET Mishaps /\ {"overwrote"} \in SUBSET Mishaps
      BY DEF Mishaps
    <3>2. \A b \in Browsers : mishaps[b] \subseteq mishaps'[b]
      BY <1>0, <2>4, <3>1, BlameIs DEF Adopting
    <3> QED BY <1>0, <2>4, <3>2, AdoptingKeeps DEF Adopting, Quiet, Open
  <2>5. CASE \E q \in Requests : Push(t, q) /\ UNCHANGED browserOf
    <3>1. PICK q \in Requests : Push(t, q) /\ UNCHANGED browserOf
      BY <2>5
    <3>2. Stale(t) \cup Overlap(t) \in SUBSET Mishaps /\ mishaps' = Blame(t, Stale(t) \cup Overlap(t))
      BY <3>1 DEF Push, Stale, Overlap, Mishaps
    <3>3. \A b \in Browsers : mishaps[b] \subseteq mishaps'[b]
      BY <1>0, <3>2, BlameIs
    <3> QED BY <1>0, <3>1, <3>3, PushKeeps DEF Push, Quiet, Open
  <2> QED BY <1>1, <2>1, <2>2, <2>3, <2>4, <2>5 DEF TabStep
<1>2. ASSUME NEW q \in Requests, RequestStep(q) PROVE Quiet
  <2>1. CASE SelectRevision(q)
    BY <1>0, <1>2, <2>1, SelectRevisionKeeps DEF RequestStep, SelectRevision, Quiet, Open
  <2>2. CASE WriteAccount(q)
    BY <1>0, <1>2, <2>2, WriteAccountKeeps DEF RequestStep, WriteAccount, Quiet, Open
  <2>3. CASE AnswerPush(q) \/ LosePush(q)
    BY <1>0, <1>2, <2>3, EndPushKeeps DEF RequestStep, AnswerPush, LosePush, Quiet, Open
  <2> QED BY <1>2, <2>1, <2>2, <2>3 DEF RequestStep
<1>3. CASE UNCHANGED workspaceVars
  BY <1>3 DEF workspaceVars, Quiet, Copies, Open
<1> QED
  BY <1>0, <1>1, <1>2, <1>3, WorkspaceStep

\* Every step keeps Rooted: a replacement of the copy of a browser without a site
\* finds, by Rooted itself, that no copy shows a run of it.
LEMMA RootedStep ==
  ASSUME Base, Rooted, [WorkspaceNext /\ UNCHANGED browserOf]_workspaceVars
  PROVE  Rooted'
<1>0. WorkspaceTyped /\ InStep /\ Sited /\ \A t \in Tabs : browserOf[t] \in Browsers
  BY DEF Base, WorkspaceTyped
<1>1. CASE Quiet
  BY <1>0, <1>1 DEF Rooted, Quiet
<1>2. ASSUME NEW t \in Tabs, NEW w, NEW what, Editing(t, w, what) PROVE Rooted'
  <2>1. /\ w \in Content /\ save(t, w) /\ w.site /\ browserOf' = browserOf /\ Open(t)
        /\ \A u \in Tabs : u # t => w.runs[u] = cache[t].runs[u]
        /\ what \in SUBSET Mishaps /\ mishaps' = Blame(t, what)
    BY <1>2 DEF Editing
  <2>2. cache[t] \in Copies /\ Copies' \subseteq Copies \cup {w}
    BY <1>0, <1>2, <2>1, EditingCopies DEF Copies
  <2>3. \A b \in Browsers : mishaps[b] \subseteq mishaps'[b] /\ (storage[b].site => storage'[b].site)
    BY <1>0, <2>1, BlameIs, SavePlaces
  <2>4. storage'[browserOf[t]].site
    BY <1>0, <2>1, SavePlaces
  <2> SUFFICES ASSUME NEW v \in Copies \cup {w}, NEW u \in Tabs, v.runs[u] # "none",
                      mishaps'[browserOf[u]] = {}
               PROVE  storage'[browserOf[u]].site
    BY <2>1, <2>2 DEF Rooted
  <2>5. mishaps[browserOf[u]] = {} /\ (storage[browserOf[u]].site => storage'[browserOf[u]].site)
    BY <1>0, <2>3
  <2>6. CASE u # t
    <3>1. \E x \in Copies : x.runs[u] # "none"
      BY <2>1, <2>2, <2>6
    <3> QED BY <2>5, <3>1 DEF Rooted
  <2> QED BY <2>4, <2>6
<1>3. ASSUME NEW t \in Tabs, NEW w, NEW what, Replacing(t, w, what) PROVE Rooted'
  <2>1. /\ w \in Content /\ save(t, w) /\ browserOf' = browserOf /\ Open(t)
        /\ what \in SUBSET Mishaps /\ mishaps' = Blame(t, what) /\ Stale(t) \subseteq what
        /\ what # {} \/ ~cache[t].site
    BY <1>3 DEF Replacing
  <2>2. Copies' \subseteq Copies \cup {EMPTY}
    BY <1>0, <1>3, ReplacingKeeps
  <2>3. \A b \in Browsers : mishaps[b] \subseteq mishaps'[b]
    BY <1>0, <2>1, BlameIs
  <2>4. mishaps'[browserOf[t]] = {} => ~storage[browserOf[t]].site
    <3>1. mishaps'[browserOf[t]] = {} => what = {}
      BY <1>0, <2>1, BlameIs
    <3>2. what = {} => ~behind[t]
      BY <2>1 DEF Stale
    <3> QED BY <1>0, <2>1, <3>1, <3>2 DEF InStep
  <2> SUFFICES ASSUME NEW v \in Copies \cup {EMPTY}, NEW u \in Tabs, v.runs[u] # "none",
                      mishaps'[browserOf[u]] = {}
               PROVE  storage'[browserOf[u]].site
    BY <2>1, <2>2 DEF Rooted
  <2>5. v \in Copies /\ mishaps[browserOf[u]] = {}
    BY <1>0, <2>3 DEF EMPTY
  <2>6. storage[browserOf[u]].site
    BY <2>5 DEF Rooted
  <2>7. browserOf[u] # browserOf[t]
    BY <2>4, <2>6
  <2> QED BY <1>0, <2>1, <2>6, <2>7, SavePlaces
<1> QED
  BY <1>1, <1>2, <1>3, QuietOrSave

\* Every step keeps RunningHasATab: the edit that shows a run as running starts it,
\* and a copy that is pulled shows no run of the browser that pulls it.
LEMMA RunningStep ==
  ASSUME Base, Rooted, RunningHasATab, [WorkspaceNext /\ UNCHANGED browserOf]_workspaceVars
  PROVE  RunningHasATab'
<1>0. WorkspaceTyped /\ InStep /\ Sited /\ \A t \in Tabs : browserOf[t] \in Browsers
  BY DEF Base, WorkspaceTyped
<1>1. CASE Quiet
  BY <1>0, <1>1 DEF RunningHasATab, Quiet
<1>2. ASSUME NEW t \in Tabs, NEW w, NEW what, w \in Content, save(t, w), UNCHANGED browserOf, Open(t),
             what \in SUBSET Mishaps, mishaps' = Blame(t, what), Stale(t) \subseteq what,
             \A u \in Tabs : u # t => running'[u] = running[u],
             what = {} => \A u \in Tabs : browserOf[u] = browserOf[t] /\ w.runs[u] = "running" =>
                            running'[u] \/ (storage[browserOf[t]].runs[u] = "running" /\ running'[u] = running[u])
      PROVE  RunningHasATab'
  <2>1. /\ \A b \in Browsers : mishaps[b] \subseteq mishaps'[b]
        /\ mishaps'[browserOf[t]] = {} => what = {}
    BY <1>0, <1>2, BlameIs
  <2>2. \A u \in Tabs : Open(u) => Open(u)'
    BY <1>0, <1>2, SavePlaces, WorkspaceAssumption DEF Open
  <2> SUFFICES ASSUME NEW b \in Browsers, NEW u \in Tabs, storage'[b].runs[u] = "running",
                      mishaps'[b] = {}, browserOf[u] = b
               PROVE  Open(u)' /\ running'[u]
    BY <1>2 DEF RunningHasATab
  <2>3. CASE b # browserOf[t]
    <3>1. storage'[b] = storage[b] /\ running'[u] = running[u] /\ mishaps[b] = {}
      BY <1>0, <1>2, <2>1, <2>3, SavePlaces
    <3> QED BY <2>2, <3>1 DEF RunningHasATab
  <2>4. CASE b = browserOf[t]
    <3>1. storage'[b] = w /\ what = {} /\ mishaps[b] = {}
      BY <1>0, <1>2, <2>1, <2>4, SavePlaces
    <3>2. storage[b].runs[u] = "running" => running[u]
      BY <3>1 DEF RunningHasATab
    <3>3. running'[u]
      BY <1>2, <2>4, <3>1, <3>2
    <3>4. Open(u)
      BY <1>0, <1>2, <3>3 DEF InStep
    <3> QED BY <2>2, <3>3, <3>4
  <2> QED BY <2>3, <2>4
<1>3. ASSUME NEW t \in Tabs, NEW w, NEW what, Editing(t, w, what) PROVE RunningHasATab'
  <2>1. /\ w \in Content /\ save(t, w) /\ browserOf' = browserOf /\ Open(t)
        /\ what \in SUBSET Mishaps /\ mishaps' = Blame(t, what) /\ Stale(t) \subseteq what
        /\ \A u \in Tabs : u # t => w.runs[u] = cache[t].runs[u] /\ running'[u] = running[u]
        /\ w.runs[t] = "running" => running'[t] \/ (cache[t].runs[t] = "running" /\ running'[t] = running[t])
    BY <1>3 DEF Editing
  <2>2. what = {} => cache[t] = storage[browserOf[t]]
    BY <1>0, <2>1 DEF Stale, InStep
  <2> QED BY <1>2, <2>1, <2>2
<1>4. ASSUME NEW t \in Tabs, NEW w, NEW what, Replacing(t, w, what) PROVE RunningHasATab'
  <2>1. /\ w \in Content /\ save(t, w) /\ browserOf' = browserOf /\ Open(t) /\ running' = running
        /\ what \in SUBSET Mishaps /\ mishaps' = Blame(t, what) /\ Stale(t) \subseteq what
        /\ what = {} => ~cache[t].site /\ pulled[t].at = "read" /\ w = pulled[t].payload
    BY <1>4 DEF Replacing
  <2>2. CASE what # {}
    BY <1>2, <2>1, <2>2
  <2>3. CASE what = {} /\ mishaps[browserOf[t]] # {}
    <3>1. mishaps'[browserOf[t]] # {} /\ \A b \in Browsers : b # browserOf[t] => mishaps'[b] = mishaps[b]
      BY <1>0, <2>1, <2>3, BlameIs
    <3>2. /\ \A b \in Browsers : b # browserOf[t] => storage'[b] = storage[b]
          /\ \A u \in Tabs : u # t => cache'[u] = cache[u]
      BY <1>0, <2>1, SavePlaces
    <3> QED BY <1>0, <2>1, <3>1, <3>2 DEF RunningHasATab, Open
  <2>4. CASE what = {} /\ mishaps[browserOf[t]] = {}
    <3>1. w \in Copies /\ ~storage[browserOf[t]].site
      BY <1>0, <2>1, <2>4 DEF Copies, Stale, InStep
    <3>2. \A u \in Tabs : browserOf[u] = browserOf[t] => w.runs[u] = "none"
      BY <2>4, <3>1 DEF Rooted
    <3> QED BY <1>2, <2>1, <3>2
  <2> QED BY <2>2, <2>3, <2>4
<1> QED
  BY <1>1, <1>3, <1>4, QuietOrSave

\* A run that storage shows as running has a tab that runs it (startRun in
\* lib/runner.ts records the run and its end in the tab that audits), unless the
\* tab was closed under it or a stale tab brought the word back.
THEOREM RunsHaveTabs == WorkspaceSpec => []RunningHasATab
<1>1. WorkspaceInit => Rooted /\ RunningHasATab
  <2> SUFFICES ASSUME WorkspaceInit PROVE Rooted /\ RunningHasATab
    OBVIOUS
  <2>1. /\ browserOf \in [Tabs -> Browsers]
        /\ storage \in [Browsers -> {EMPTY, Audited}] /\ account.payload \in {EMPTY, Audited}
    BY DEF WorkspaceInit
  <2>2. \A w \in {EMPTY, Audited}, t \in Tabs : w.runs[t] = "none"
    BY DEF EMPTY, Audited
  <2>3. Copies \subseteq {EMPTY, Audited}
    BY <2>1 DEF WorkspaceInit, Copies, NotPulled
  <2> QED BY <2>1, <2>2, <2>3 DEF Rooted, RunningHasATab
<1>2. Base /\ Rooted /\ RunningHasATab /\ [WorkspaceNext /\ UNCHANGED browserOf]_workspaceVars
        => Rooted' /\ RunningHasATab'
  BY RootedStep, RunningStep
<1> QED
  BY <1>1, <1>2, WorkspaceBase, PTL DEF WorkspaceSpec

-----------------------------------------------------------------------------
\* A browser that wrote over nothing it had not seen.
Careful(b) == "overwrote" \notin mishaps[b]

\* Revision r is not ahead of the account, and if it is the account's, then w
\* has every decision the account has.
SeenUpTo(r, w) == r <= account.revision /\ (r = account.revision => Within(account.payload, w))

\* What a careful browser remembers, was answered and has sent.
OrderedPull(t) ==
  /\ pulled[t].revision <= account.revision
  /\ pulled[t].revision = account.revision => pulled[t].payload = account.payload
OrderedPush(q) ==
  /\ Within(request[q].body, storage[browserOf[request[q].tab]])
  /\ request[q].at = "sent" => SeenUpTo(request[q].revision, request[q].body)
  /\ request[q].at = "selected" => SeenUpTo(request[q].held, request[q].body)
  /\ request[q].at = "written" =>
       /\ request[q].held + 1 <= account.revision
       /\ request[q].held + 1 = account.revision => account.payload = request[q].body
Ordered ==
  /\ \A b \in Browsers : Careful(b) => SeenUpTo(revision[b], storage[b])
  /\ \A t \in Tabs : Careful(browserOf[t]) /\ pulled[t].at = "read" => OrderedPull(t)
  /\ \A q \in Requests : request[q] # Free /\ Careful(browserOf[request[q].tab]) => OrderedPush(q)

\* A step that leaves the account alone keeps the order if what it changes of
\* a browser, a pull or a push is in order.
LEMMA OrderedKept ==
  ASSUME Base, Ordered, UNCHANGED <<account, browserOf>>,
         \A b \in Browsers : mishaps[b] \subseteq mishaps'[b],
         \A b \in Browsers : Careful(b)' =>
           \/ storage'[b] = storage[b] /\ revision'[b] = revision[b]
           \/ SeenUpTo(revision'[b], storage'[b]),
         \A b \in Browsers : Careful(b)' =>
           \A q \in InFlight(b) : Within(request[q].body, storage[b]) => Within(request[q].body, storage'[b]),
         \A t \in Tabs : pulled'[t].at = "read" => pulled'[t] = pulled[t] \/ OrderedPull(t)',
         \A q \in Requests : request'[q] # Free =>
           \/ /\ request[q] # Free /\ request'[q].at = request[q].at /\ request'[q].tab = request[q].tab
              /\ request'[q].body = request[q].body /\ request'[q].revision = request[q].revision
              /\ request'[q].held = request[q].held
           \/ "overwrote" \notin mishaps'[browserOf[request'[q].tab]] => OrderedPush(q)'
  PROVE  Ordered'
<1>0. WorkspaceTyped /\ \A t \in Tabs : browserOf[t] \in Browsers
  BY DEF Base, WorkspaceTyped
<1>1. \A b \in Browsers : Careful(b)' => Careful(b)
  BY DEF Careful
<1>2. ASSUME NEW b \in Browsers, Careful(b)' PROVE SeenUpTo(revision[b], storage[b])'
  BY <1>1, <1>2 DEF Ordered, SeenUpTo, Within
<1>3. ASSUME NEW t \in Tabs, "overwrote" \notin mishaps'[browserOf[t]], pulled'[t].at = "read"
      PROVE  OrderedPull(t)'
  BY <1>0, <1>1, <1>3 DEF Ordered, OrderedPull, Careful
<1>4. ASSUME NEW q \in Requests, request'[q] # Free, "overwrote" \notin mishaps'[browserOf[request'[q].tab]]
      PROVE  OrderedPush(q)'
  <2>1. SUFFICES ASSUME request[q] # Free, request'[q].at = request[q].at, request'[q].tab = request[q].tab,
                        request'[q].body = request[q].body, request'[q].revision = request[q].revision,
                        request'[q].held = request[q].held
                 PROVE  OrderedPush(q)'
    BY <1>4
  <2> DEFINE b == browserOf[request[q].tab]
  <2>2. b \in Browsers /\ q \in InFlight(b)
    BY <1>0, <2>1, PushedIs DEF Pushed, InFlight
  <2>3. Careful(b) /\ "overwrote" \notin mishaps'[b]
    BY <1>1, <1>4, <2>1, <2>2 DEF Careful
  <2>4. OrderedPush(q)
    BY <2>1, <2>3 DEF Ordered
  <2>5. Within(request[q].body, storage'[b])
    BY <2>2, <2>3, <2>4 DEF OrderedPush, Careful
  <2> QED BY <2>1, <2>4, <2>5 DEF OrderedPush, SeenUpTo, Within
<1>5. \A b \in Browsers : (Careful(b) => SeenUpTo(revision[b], storage[b]))'
  BY <1>2 DEF Careful
<1>6. \A t \in Tabs : (Careful(browserOf[t]) /\ pulled[t].at = "read" => OrderedPull(t))'
  BY <1>3 DEF Careful
<1>7. \A q \in Requests : (request[q] # Free /\ Careful(browserOf[request[q].tab]) => OrderedPush(q))'
  BY <1>4 DEF Careful
<1> QED
  BY <1>5, <1>6, <1>7 DEF Ordered

\* What an edit and a replacement by a careful browser start from.
LEMMA CarefulSave ==
  ASSUME Base, Ordered, NEW t \in Tabs, NEW what \in SUBSET Mishaps, Open(t), Stale(t) \subseteq what,
         mishaps' = Blame(t, what), "overwrote" \notin mishaps'[browserOf[t]]
  PROVE  /\ cache[t] = storage[browserOf[t]] /\ Careful(browserOf[t]) /\ "overwrote" \notin what
         /\ SeenUpTo(revision[browserOf[t]], storage[browserOf[t]])
<1>0. WorkspaceTyped /\ InStep /\ browserOf[t] \in Browsers
  BY DEF Base, WorkspaceTyped
<1>1. mishaps'[browserOf[t]] = mishaps[browserOf[t]] \cup what
  BY <1>0, BlameIs
<1>2. Careful(browserOf[t]) /\ "overwrote" \notin what
  BY <1>1 DEF Careful
<1> QED
  BY <1>0, <1>2 DEF Stale, InStep, Ordered

\* An edit by a careful browser keeps every decision it has seen.
LEMMA EditingOrdered ==
  ASSUME Base, Ordered, NEW t \in Tabs, NEW w, NEW what, Editing(t, w, what)
  PROVE  Ordered'
<1>0. WorkspaceTyped /\ browserOf[t] \in Browsers /\ revision[browserOf[t]] \in Nat /\ account.revision \in Nat
  BY DEF Base, WorkspaceTyped
<1>1. /\ w \in Content /\ save(t, w) /\ Open(t) /\ Within(cache[t], w)
      /\ what \in SUBSET Mishaps /\ mishaps' = Blame(t, what) /\ Stale(t) \subseteq what
      /\ UNCHANGED <<revision, pulled, account, browserOf>>
  BY DEF Editing
<1>2. "overwrote" \notin mishaps'[browserOf[t]] =>
        /\ Within(storage[browserOf[t]], w)
        /\ SeenUpTo(revision[browserOf[t]], w)
  BY <1>1, CarefulSave DEF SeenUpTo, Within
<1>3. storage'[browserOf[t]] = w /\ \A b \in Browsers : b # browserOf[t] => storage'[b] = storage[b]
  BY <1>0, <1>1, SavePlaces
<1>4. \A b \in Browsers : mishaps[b] \subseteq mishaps'[b]
  BY <1>0, <1>1, BlameIs
<1>5. \A b \in Browsers : Careful(b)' =>
        \A q \in InFlight(b) : Within(request[q].body, storage[b]) => Within(request[q].body, storage'[b])
  BY <1>2, <1>3 DEF Within, Careful
<1>6. ASSUME NEW q \in Requests, request'[q] # Free
      PROVE  request'[q] = request[q] \/ ("overwrote" \notin mishaps'[browserOf[request'[q].tab]] => OrderedPush(q)')
  <2>1. CASE request' = request
    BY <2>1
  <2>2. CASE \E p \in Requests : request' = [request EXCEPT ![p] = Sent(t, w)]
    <3>1. request'[q] = request[q] \/ request'[q] = Sent(t, w)
      BY <1>0, <2>2 DEF WorkspaceTyped
    <3>2. ASSUME request'[q] = Sent(t, w), "overwrote" \notin mishaps'[browserOf[t]] PROVE OrderedPush(q)'
      <4>1. /\ request'[q].at = "sent" /\ request'[q].tab = t /\ request'[q].body = w
            /\ request'[q].revision = revision[browserOf[t]]
        BY <1>0, <1>1, <3>2, SentIs
      <4>2. Within(w, w) /\ SeenUpTo(revision[browserOf[t]], w)
        BY <1>2, <3>2 DEF Within
      <4> QED BY <1>1, <1>3, <4>1, <4>2 DEF OrderedPush, SeenUpTo, Within
    <3>3. request'[q] = Sent(t, w) => request'[q].tab = t
      BY <1>0, <1>1, SentIs
    <3> QED BY <1>1, <3>1, <3>2, <3>3
  <2> QED BY <2>1, <2>2 DEF Editing
<1> QED
  BY <1>1, <1>2, <1>3, <1>4, <1>5, <1>6, OrderedKept DEF Careful

\* A careful browser gives up only a copy without decisions, for the account's.
LEMMA ReplacingOrdered ==
  ASSUME Base, Ordered, NEW t \in Tabs, NEW w, NEW what, Replacing(t, w, what)
  PROVE  Ordered'
<1>0. WorkspaceTyped /\ Sited /\ browserOf[t] \in Browsers
  BY DEF Base, WorkspaceTyped
<1>1. /\ w \in Content /\ save(t, w) /\ Open(t)
      /\ what \in SUBSET Mishaps /\ mishaps' = Blame(t, what) /\ Stale(t) \subseteq what
      /\ UNCHANGED <<request, account, browserOf>>
      /\ "overwrote" \in what \/
           /\ ~cache[t].site /\ pulled[t].at = "read" /\ w = pulled[t].payload
           /\ revision' = [revision EXCEPT ![browserOf[t]] = pulled[t].revision]
  BY DEF Replacing
<1>2. ASSUME "overwrote" \notin mishaps'[browserOf[t]]
      PROVE  /\ \A f \in Findings : ~Decided(storage[browserOf[t]], f)
             /\ SeenUpTo(revision'[browserOf[t]], w)
  <2>1. /\ cache[t] = storage[browserOf[t]] /\ Careful(browserOf[t]) /\ "overwrote" \notin what
    BY <1>1, <1>2, CarefulSave
  <2>2. /\ ~cache[t].site /\ pulled[t].at = "read" /\ w = pulled[t].payload
        /\ revision'[browserOf[t]] = pulled[t].revision
    BY <1>0, <1>1, <2>1 DEF WorkspaceTyped
  <2>3. SiteFirst(cache[t])
    BY <1>0, <1>1 DEF Sited, Copies
  <2>4. OrderedPull(t)
    BY <2>1, <2>2 DEF Ordered
  <2> QED BY <2>1, <2>2, <2>3, <2>4 DEF SiteFirst, Decided, OrderedPull, SeenUpTo, Within
<1>3. storage'[browserOf[t]] = w /\ \A b \in Browsers : b # browserOf[t] => storage'[b] = storage[b]
  BY <1>0, <1>1, SavePlaces
<1>4. \A b \in Browsers : b # browserOf[t] => revision'[b] = revision[b]
  BY DEF Replacing, Base, WorkspaceTyped
<1>5. \A b \in Browsers : mishaps[b] \subseteq mishaps'[b]
  BY <1>0, <1>1, BlameIs
<1>6. \A b \in Browsers : Careful(b)' =>
        \A q \in InFlight(b) : Within(request[q].body, storage[b]) => Within(request[q].body, storage'[b])
  BY <1>2, <1>3 DEF Within, Careful
<1>7. \A u \in Tabs : pulled'[u].at = "read" => pulled'[u] = pulled[u]
  BY <1>0 DEF Replacing, WorkspaceTyped
<1> QED
  BY <1>1, <1>2, <1>3, <1>4, <1>5, <1>6, <1>7, OrderedKept DEF Careful

\* What a tab remembers, was answered or sends stays in order.
LEMMA TabOrdered ==
  ASSUME Base, Ordered, NEW t \in Tabs, TabStep(t)
  PROVE  Ordered'
<1>0. WorkspaceTyped /\ InStep /\ browserOf[t] \in Browsers /\ account.revision \in Nat
  BY DEF Base, WorkspaceTyped
<1>1. CASE OpenTab(t) /\ UNCHANGED browserOf
  <2>1. /\ UNCHANGED <<storage, revision, request, account, mishaps>>
        /\ \A u \in Tabs : pulled'[u] = pulled[u] \/ pulled'[u].at = "no"
    BY <1>0, <1>1 DEF OpenTab, WorkspaceTyped, NotPulled
  <2> QED BY <1>1, <2>1, OrderedKept
<1>2. CASE CloseTab(t) /\ UNCHANGED browserOf
  <2> DEFINE what == IF timer[t] \/ running[t] THEN {"unsent"} ELSE {}
  <2>1. /\ UNCHANGED <<storage, revision, account>> /\ mishaps' = Blame(t, what) /\ what \in SUBSET Mishaps
        /\ \A u \in Tabs : pulled'[u] = pulled[u] \/ pulled'[u].at = "no"
    BY <1>0, <1>2 DEF CloseTab, WorkspaceTyped, NotPulled, Mishaps
  <2>2. \A b \in Browsers : mishaps[b] \subseteq mishaps'[b]
    BY <1>0, <2>1, BlameIs
  <2>3. \A q \in Requests : request'[q] # Free =>
          /\ request[q] # Free /\ request'[q].at = request[q].at /\ request'[q].tab = request[q].tab
          /\ request'[q].body = request[q].body /\ request'[q].revision = request[q].revision
          /\ request'[q].held = request[q].held
    BY <1>0, <1>2, CloseTabKeeps
  <2> QED BY <1>2, <2>1, <2>2, <2>3, OrderedKept
<1>3. CASE ReadAccount(t) /\ UNCHANGED browserOf
  <2>1. /\ UNCHANGED <<storage, revision, request, account, mishaps>>
        /\ pulled'[t].revision = account.revision /\ pulled'[t].payload = account.payload
        /\ \A u \in Tabs : u # t => pulled'[u] = pulled[u]
    BY <1>0, <1>3, ReadAccountKeeps DEF ReadAccount
  <2>2. OrderedPull(t)'
    BY <1>0, <2>1 DEF OrderedPull
  <2> QED BY <1>3, <2>1, <2>2, OrderedKept
<1>4. CASE Adopting(t)
  <2>1. /\ pulled[t].at = "read" /\ UNCHANGED <<storage, request, account, browserOf>>
        /\ \A u \in Tabs : pulled'[u] = pulled[u] \/ pulled'[u].at = "done"
    BY <1>0, <1>4 DEF Adopting, WorkspaceTyped
  <2>2. CASE UNCHANGED <<revision, mishaps>>
    BY <2>1, <2>2, OrderedKept
  <2>3. CASE ~UNCHANGED <<revision, mishaps>>
    <3> DEFINE same == pulled[t].payload = cache[t] /\ storage[browserOf[t]] = cache[t]
               what == IF same THEN {} ELSE {"overwrote"}
    <3>1. /\ revision' = [revision EXCEPT ![browserOf[t]] = pulled[t].revision]
          /\ mishaps' = Blame(t, what) /\ what \in SUBSET Mishaps
      BY <1>4, <2>3 DEF Adopting, Mishaps
    <3>2. /\ \A b \in Browsers : mishaps[b] \subseteq mishaps'[b]
          /\ mishaps'[browserOf[t]] = mishaps[browserOf[t]] \cup what
      BY <1>0, <3>1, BlameIs
    <3>3. ASSUME "overwrote" \notin mishaps'[browserOf[t]]
          PROVE  SeenUpTo(pulled[t].revision, storage[browserOf[t]])
      <4>1. pulled[t].payload = storage[browserOf[t]] /\ Careful(browserOf[t])
        BY <3>2, <3>3 DEF Careful
      <4> QED BY <2>1, <4>1 DEF Ordered, OrderedPull, SeenUpTo, Within
    <3>4. /\ revision'[browserOf[t]] = pulled[t].revision
          /\ \A b \in Browsers : b # browserOf[t] => revision'[b] = revision[b]
      BY <1>0, <3>1 DEF WorkspaceTyped
    <3> HIDE DEF what
    <3> QED BY <1>0, <2>1, <3>1, <3>2, <3>3, <3>4, OrderedKept DEF Careful
  <2> QED BY <2>2, <2>3
<1>5. ASSUME NEW q \in Requests, Push(t, q), UNCHANGED browserOf PROVE Ordered'
  <2> DEFINE what == Stale(t) \cup Overlap(t)
  <2>1. /\ UNCHANGED <<storage, revision, pulled, account>> /\ Open(t)
        /\ mishaps' = Blame(t, what) /\ what \in SUBSET Mishaps /\ Stale(t) \subseteq what
    BY <1>5 DEF Push, Stale, Overlap, Mishaps
  <2>2. /\ request'[q] = Sent(t, cache[t]) /\ cache[t] \in Content
        /\ \A p \in Requests : p # q => request'[p] = request[p]
    BY <1>0, <1>5, PushKeeps
  <2>3. \A b \in Browsers : mishaps[b] \subseteq mishaps'[b]
    BY <1>0, <2>1, BlameIs
  <2>4. /\ request'[q].at = "sent" /\ request'[q].tab = t /\ request'[q].body = cache[t]
        /\ request'[q].revision = revision[browserOf[t]]
    BY <1>0, <2>2, SentIs
  <2> HIDE DEF what
  <2>5. ASSUME "overwrote" \notin mishaps'[browserOf[t]] PROVE OrderedPush(q)'
    <3>1. cache[t] = storage[browserOf[t]] /\ SeenUpTo(revision[browserOf[t]], storage[browserOf[t]])
      BY <2>1, <2>5, CarefulSave
    <3> QED BY <1>5, <2>1, <2>4, <3>1 DEF OrderedPush, SeenUpTo, Within
  <2> QED BY <1>5, <2>1, <2>2, <2>3, <2>4, <2>5, OrderedKept
<1> QED
  BY <1>1, <1>2, <1>3, <1>4, <1>5, EditingOrdered, ReplacingOrdered, TabStep(t) DEF TabStep

\* The route lets a push through only when its browser has seen what it
\* writes over; the answer is what the browser has seen next.
LEMMA RequestOrdered ==
  ASSUME Base, Ordered, NEW q \in Requests, RequestStep(q)
  PROVE  Ordered'
<1>0. /\ WorkspaceTyped /\ InStep /\ account.revision \in Nat /\ UNCHANGED browserOf
      /\ \A t \in Tabs : browserOf[t] \in Browsers
  BY DEF Base, WorkspaceTyped, RequestStep
<1> DEFINE b == browserOf[request[q].tab]
<1>1. /\ request[q] \in Pushed /\ request[q] # Free /\ request[q].revision \in Nat
      /\ request[q].held \in Nat /\ b \in Browsers
  BY <1>0, PushedIs DEF RequestStep, SelectRevision, WriteAccount, AnswerPush, LosePush, Pushed
<1>2. CASE SelectRevision(q)
  <2>1. /\ UNCHANGED <<storage, revision, pulled, account, mishaps>> /\ request[q].at = "sent"
    BY <1>2 DEF SelectRevision
  <2>2. /\ \A p \in Requests : p # q => request'[p] = request[p]
        /\ request'[q].tab = request[q].tab /\ request'[q].body = request[q].body
        /\ request'[q].held = account.revision
        /\ request'[q].at = IF request[q].revision < account.revision THEN "refused" ELSE "selected"
    BY <1>0, <1>2, SelectRevisionKeeps
  <2>3. ASSUME "overwrote" \notin mishaps[b] PROVE OrderedPush(q)'
    <3>1. OrderedPush(q)
      BY <1>1, <2>3 DEF Ordered, Careful
    <3> QED BY <1>0, <1>1, <2>1, <2>2, <3>1 DEF OrderedPush, SeenUpTo, Within
  <2> QED BY <1>0, <2>1, <2>2, <2>3, OrderedKept
<1>3. CASE WriteAccount(q)
  <2>1. /\ UNCHANGED <<storage, revision, pulled>> /\ request[q].at = "selected"
    BY <1>3 DEF WriteAccount
  <2>2. /\ \A p \in Requests : p # q => request'[p] = request[p]
        /\ request'[q].tab = request[q].tab /\ request'[q].body = request[q].body
        /\ request'[q].held = request[q].held /\ request'[q].at = "written"
        /\ account'.revision = request[q].held + 1 /\ account'.payload = request[q].body
        /\ \A c \in Browsers : mishaps[c] \subseteq mishaps'[c]
        /\ account.revision = request[q].held \/ \A c \in Browsers : "overwrote" \in mishaps'[c]
    BY <1>0, <1>3, WriteAccountKeeps
  <2>3. \A p \in Requests : request'[p] # Free => browserOf[request'[p].tab] \in Browsers
    BY <1>0, <1>1, <2>2, PushedIs DEF Pushed
  <2>4. CASE \A c \in Browsers : "overwrote" \in mishaps'[c]
    BY <1>0, <2>3, <2>4 DEF Ordered, Careful
  <2>5. CASE account.revision = request[q].held
    <3>1. account'.revision = account.revision + 1
      BY <2>2, <2>5
    <3>2. \A c \in Browsers : "overwrote" \notin mishaps'[c] => Careful(c)
      BY <2>2 DEF Careful
    <3>3. ASSUME NEW c \in Browsers, "overwrote" \notin mishaps'[c] PROVE SeenUpTo(revision[c], storage[c])'
      <4>1. revision[c] \in Nat /\ revision[c] <= account.revision
        BY <1>0, <3>2, <3>3 DEF Ordered, SeenUpTo, WorkspaceTyped
      <4> QED BY <1>0, <2>1, <3>1, <4>1 DEF SeenUpTo
    <3>4. ASSUME NEW t \in Tabs, "overwrote" \notin mishaps'[browserOf[t]], pulled[t].at = "read"
          PROVE  OrderedPull(t)'
      <4>1. pulled[t].revision \in Nat /\ pulled[t].revision <= account.revision
        BY <1>0, <3>2, <3>4, AnswerIs DEF Ordered, OrderedPull
      <4> QED BY <1>0, <2>1, <3>1, <4>1 DEF OrderedPull
    <3>5. ASSUME NEW p \in Requests, request'[p] # Free, "overwrote" \notin mishaps'[browserOf[request'[p].tab]]
          PROVE  OrderedPush(p)'
      <4>1. /\ request[p] \in Pushed /\ request[p] # Free /\ request'[p].tab = request[p].tab
            /\ browserOf[request[p].tab] \in Browsers
        BY <1>0, <1>1, <2>2, <2>3, <3>5, PushedIs
      <4>2. OrderedPush(p)
        BY <3>2, <3>5, <4>1 DEF Ordered
      <4>3. CASE p = q
        BY <1>0, <1>1, <2>1, <2>2, <4>2, <4>3 DEF OrderedPush
      <4>4. CASE p # q
        <5>1. request'[p] = request[p] /\ request[p].revision \in Nat /\ request[p].held \in Nat
          BY <2>2, <4>1, <4>4 DEF Pushed
        <5> QED BY <1>0, <2>1, <3>1, <4>2, <5>1 DEF OrderedPush, SeenUpTo
      <4> QED BY <4>3, <4>4
    <3> QED BY <1>0, <2>1, <3>3, <3>4, <3>5 DEF Ordered, Careful
  <2> QED BY <2>2, <2>4, <2>5
<1>4. CASE AnswerPush(q) \/ LosePush(q)
  <2>1. /\ UNCHANGED <<storage, pulled, account>>
        /\ \A p \in Requests : p # q => request'[p] = request[p]
        /\ request'[q] = Free
        /\ \A c \in Browsers : mishaps[c] \subseteq mishaps'[c]
    BY <1>0, <1>4, EndPushKeeps DEF AnswerPush, LosePush
  <2>2. /\ \A c \in Browsers : c # b => revision'[c] = revision[c]
        /\ revision'[b] = revision[b] \/ (request[q].at = "written" /\ revision'[b] = request[q].held + 1)
    BY <1>0, <1>1, <1>4 DEF AnswerPush, LosePush, WorkspaceTyped
  <2>3. ASSUME "overwrote" \notin mishaps'[b] PROVE SeenUpTo(revision'[b], storage[b])
    <3>1. OrderedPush(q) /\ SeenUpTo(revision[b], storage[b])
      BY <1>1, <2>1, <2>3 DEF Ordered, Careful
    <3> QED BY <2>2, <3>1 DEF OrderedPush, SeenUpTo
  <2> QED BY <1>0, <2>1, <2>2, <2>3, OrderedKept DEF Careful
<1> QED
  BY <1>2, <1>3, <1>4 DEF RequestStep

\* Every step keeps the order.
LEMMA OrderedStep ==
  ASSUME Base, Ordered, [WorkspaceNext /\ UNCHANGED browserOf]_workspaceVars
  PROVE  Ordered'
<1>1. CASE UNCHANGED workspaceVars
  BY <1>1 DEF workspaceVars, Ordered, OrderedPull, OrderedPush, Careful, SeenUpTo
<1> QED
  BY <1>1, WorkspaceStep, TabOrdered, RequestOrdered DEF Base

\* At first a browser is new or remembers the account's first revision.
LEMMA OrderedInit == WorkspaceInit => Ordered
<1> SUFFICES ASSUME WorkspaceInit PROVE Ordered
  OBVIOUS
<1>1. PICK synced \in SUBSET Browsers :
       /\ storage = [b \in Browsers |-> IF b \in synced THEN Audited ELSE EMPTY]
       /\ revision = [b \in Browsers |-> IF b \in synced THEN 1 ELSE 0]
       /\ account = IF synced = {} THEN [revision |-> 0, payload |-> EMPTY]
                    ELSE [revision |-> 1, payload |-> Audited]
  BY DEF WorkspaceInit
<1>2. ASSUME NEW b \in Browsers PROVE SeenUpTo(revision[b], storage[b])
  <2>1. CASE synced = {}
    BY <1>1, <2>1 DEF SeenUpTo, Within
  <2>2. CASE synced # {}
    <3>1. account.revision = 1 /\ account.payload = Audited
      BY <1>1, <2>2
    <3> QED BY <1>1, <3>1 DEF SeenUpTo, Within
  <2> QED BY <2>1, <2>2
<1>3. /\ \A t \in Tabs : pulled[t].at # "read"
      /\ \A q \in Requests : request[q] = Free
  BY DEF WorkspaceInit, NotPulled
<1> QED
  BY <1>2, <1>3 DEF Ordered

\* A decision leaves the account only by the push of a browser that overwrote
\* something: only the second statement of the route's PUT changes the account,
\* and the first lets no other browser's push through that has not seen it.
THEOREM AccountLosses == WorkspaceSpec => AccountLossExplained
<1> DEFINE Explained == \A f \in Findings :
       (Decided(account.payload, f) /\ ~Decided(account'.payload, f))
         => \E q \in Requests : /\ request[q].at = "selected" /\ request'[q].at = "written"
                                /\ "overwrote" \in mishaps'[browserOf[request[q].tab]]
<1>1. ASSUME Base, Ordered, [WorkspaceNext /\ UNCHANGED browserOf]_workspaceVars
      PROVE  Explained
  <2>0. WorkspaceTyped /\ InStep /\ Sited /\ account.revision \in Nat
    BY <1>1 DEF Base, WorkspaceTyped
  <2>1. CASE account' = account
    BY <2>1
  <2>2. ASSUME NEW q \in Requests, WriteAccount(q), UNCHANGED browserOf PROVE Explained
    <3> DEFINE b == browserOf[request[q].tab]
    <3>1. /\ request[q].at = "selected" /\ request'[q].at = "written" /\ request[q] # Free
          /\ account'.payload = request[q].body /\ \A c \in Browsers : mishaps[c] \subseteq mishaps'[c]
          /\ account.revision = request[q].held \/ \A c \in Browsers : "overwrote" \in mishaps'[c]
      BY <2>0, <2>2, WriteAccountKeeps DEF WriteAccount
    <3>2. b \in Browsers
      BY <2>0, <3>1, PushedIs DEF Pushed, WorkspaceTyped
    <3>3. ASSUME "overwrote" \notin mishaps'[b] PROVE Within(account.payload, account'.payload)
      <4>1. OrderedPush(q) /\ account.revision = request[q].held
        BY <1>1, <3>1, <3>2, <3>3 DEF Ordered, Careful
      <4> QED BY <3>1, <4>1 DEF OrderedPush, SeenUpTo
    <3> QED BY <3>1, <3>3 DEF Within
  <2>3. ASSUME NEW t \in Tabs, TabStep(t) PROVE Explained
    BY <2>1, <2>3 DEF TabStep, OpenTab, CloseTab, ReadAccount, Adopting, Push, Editing, Replacing
  <2>4. ASSUME NEW q \in Requests, RequestStep(q) PROVE Explained
    BY <2>1, <2>2, <2>4 DEF RequestStep, SelectRevision, AnswerPush, LosePush
  <2>5. CASE UNCHANGED workspaceVars
    BY <2>1, <2>5 DEF workspaceVars
  <2> QED BY <1>1, <2>0, <2>3, <2>4, <2>5, WorkspaceStep
<1>2. Base /\ Ordered /\ [WorkspaceNext /\ UNCHANGED browserOf]_workspaceVars
        => Ordered' /\ [Explained]_workspaceVars
  BY <1>1, OrderedStep
<1> QED
  BY <1>2, OrderedInit, WorkspaceBase, PTL DEF WorkspaceSpec, AccountLossExplained

-----------------------------------------------------------------------------
\* Nothing untoward has happened to the browser and it has nothing to send.
Still(b) == mishaps[b] = {} /\ \A t \in Tabs : browserOf[t] = b => ~timer[t]

\* Then every push in flight carries its copy, and if it remembers the
\* account's revision it has the account's copy or is about to send its own.
SettledAt(b) ==
  Still(b) =>
    /\ \A q \in InFlight(b) : request[q].body = storage[b]
    /\ revision[b] = account.revision =>
         \/ storage[b] = account.payload
         \/ \E q \in InFlight(b) : request[q].at \in {"sent", "selected"} /\ request[q].revision = revision[b]
Settled == \A b \in Browsers : SettledAt(b)

\* A browser whose copy, revision and pushes a step leaves alone.
LEMMA SettledKept ==
  ASSUME NEW b \in Browsers, SettledAt(b), Still(b)' => Still(b), UNCHANGED <<account, browserOf>>,
         storage'[b] = storage[b], revision'[b] = revision[b],
         \A q \in Requests : request'[q] # Free /\ browserOf[request'[q].tab] = b =>
           request[q] # Free /\ request'[q].tab = request[q].tab /\ request'[q].body = request[q].body,
         \A q \in InFlight(b) : request[q].at \in {"sent", "selected"} /\ request[q].revision = account.revision =>
           /\ request'[q] # Free /\ request'[q].tab = request[q].tab
           /\ request'[q].revision = request[q].revision /\ request'[q].at \in {"sent", "selected"}
  PROVE  SettledAt(b)'
<1> SUFFICES ASSUME Still(b)'
             PROVE  /\ \A q \in InFlight(b)' : request'[q].body = storage'[b]
                    /\ revision'[b] = account'.revision =>
                         \/ storage'[b] = account'.payload
                         \/ \E q \in InFlight(b)' : request'[q].at \in {"sent", "selected"}
                                                    /\ request'[q].revision = revision'[b]
  BY DEF SettledAt
<1>1. /\ \A q \in InFlight(b) : request[q].body = storage[b]
      /\ revision[b] = account.revision =>
           \/ storage[b] = account.payload
           \/ \E q \in InFlight(b) : request[q].at \in {"sent", "selected"} /\ request[q].revision = revision[b]
  BY DEF SettledAt
<1>2. \A q \in InFlight(b)' : q \in InFlight(b) /\ request'[q].body = request[q].body
  BY DEF InFlight
<1>3. ASSUME NEW q \in InFlight(b), request[q].at \in {"sent", "selected"}, request[q].revision = account.revision
      PROVE  q \in InFlight(b)' /\ request'[q].at \in {"sent", "selected"} /\ request'[q].revision = request[q].revision
  BY <1>3 DEF InFlight
<1> QED
  BY <1>1, <1>2, <1>3

\* A tab that pushes with nothing else in flight sends what storage holds.
LEMMA TabSettled ==
  ASSUME Base, Ordered, Settled, NEW t \in Tabs, TabStep(t)
  PROVE  Settled'
<1>0. WorkspaceTyped /\ InStep /\ browserOf[t] \in Browsers /\ account.revision \in Nat
  BY DEF Base, WorkspaceTyped
<1> SUFFICES ASSUME NEW b \in Browsers PROVE SettledAt(b)'
  BY DEF Settled
<1>s. SettledAt(b)
  BY DEF Settled
<1>1. CASE (OpenTab(t) \/ ReadAccount(t)) /\ UNCHANGED browserOf
  BY <1>s, <1>1, SettledKept DEF OpenTab, ReadAccount, Still, InFlight
<1>2. CASE CloseTab(t) /\ UNCHANGED browserOf
  <2> DEFINE what == IF timer[t] \/ running[t] THEN {"unsent"} ELSE {}
  <2>1. /\ UNCHANGED <<storage, revision, account>> /\ mishaps' = Blame(t, what) /\ what \in SUBSET Mishaps
        /\ \A u \in Tabs : u # t => timer'[u] = timer[u]
    BY <1>0, <1>2 DEF CloseTab, WorkspaceTyped, Mishaps
  <2>2. /\ mishaps[b] \subseteq mishaps'[b]
        /\ browserOf[t] = b /\ mishaps'[b] = {} => ~timer[t]
    BY <1>0, <2>1, BlameIs
  <2>3. Still(b)' => Still(b)
    BY <1>2, <2>1, <2>2 DEF Still
  <2>4. \A q \in Requests :
          /\ request'[q] # Free <=> request[q] # Free
          /\ request[q] # Free =>
               /\ request'[q].at = request[q].at /\ request'[q].tab = request[q].tab
               /\ request'[q].body = request[q].body
               /\ request'[q].revision = request[q].revision
    BY <1>0, <1>2, CloseTabKeeps
  <2> HIDE DEF what
  <2> QED BY <1>s, <1>2, <2>1, <2>3, <2>4, SettledKept DEF InFlight
<1>3. CASE Adopting(t)
  <2>1. /\ pulled[t].at = "read" /\ Open(t)
        /\ UNCHANGED <<storage, request, account, browserOf, timer>>
    BY <1>3 DEF Adopting
  <2>2. CASE UNCHANGED <<revision, mishaps>>
    BY <1>s, <2>1, <2>2, SettledKept DEF Still, InFlight
  <2>3. CASE ~UNCHANGED <<revision, mishaps>>
    <3> DEFINE same == pulled[t].payload = cache[t] /\ storage[browserOf[t]] = cache[t]
               what == IF same THEN {} ELSE {"overwrote"}
    <3>1. /\ revision' = [revision EXCEPT ![browserOf[t]] = pulled[t].revision]
          /\ mishaps' = Blame(t, what) /\ what \in SUBSET Mishaps
      BY <1>3, <2>3 DEF Adopting, Mishaps
    <3>2. /\ mishaps[b] \subseteq mishaps'[b]
          /\ mishaps'[browserOf[t]] = mishaps[browserOf[t]] \cup what
      BY <1>0, <3>1, BlameIs
    <3>3. revision'[browserOf[t]] = pulled[t].revision /\ (b # browserOf[t] => revision'[b] = revision[b])
      BY <1>0, <3>1 DEF WorkspaceTyped
    <3>4. Still(b)' => Still(b)
      BY <2>1, <3>2 DEF Still
    <3>5. CASE b # browserOf[t]
      BY <1>s, <2>1, <3>3, <3>4, <3>5, SettledKept DEF InFlight
    <3>6. CASE b = browserOf[t]
      <4> SUFFICES ASSUME Still(b)' PROVE SettledAt(b)'
        BY DEF SettledAt
      <4>1. what = {} /\ mishaps[b] = {}
        BY <2>1, <3>2, <3>6 DEF Still
      <4>2. pulled[t].payload = storage[b]
        BY <3>6, <4>1
      <4>3. pulled[t].revision = account.revision => storage[b] = account.payload
        BY <2>1, <3>6, <4>1, <4>2 DEF Ordered, Careful, OrderedPull
      <4>4. \A q \in InFlight(b) : request[q].body = storage[b]
        BY <1>s, <3>4 DEF SettledAt
      <4>5. InFlight(b)' = InFlight(b)
        BY <2>1 DEF InFlight
      <4> QED BY <2>1, <3>3, <3>6, <4>3, <4>4, <4>5 DEF SettledAt
    <3> QED BY <3>5, <3>6
  <2> QED BY <2>2, <2>3
<1>4. ASSUME NEW q \in Requests, Push(t, q), UNCHANGED browserOf PROVE SettledAt(b)'
  <2> DEFINE what == Stale(t) \cup Overlap(t)
  <2>1. /\ UNCHANGED <<storage, revision, account>> /\ Open(t) /\ request[q] = Free
        /\ mishaps' = Blame(t, what) /\ what \in SUBSET Mishaps
        /\ \A u \in Tabs : u # t => timer'[u] = timer[u]
    BY <1>0, <1>4 DEF Push, Stale, Overlap, Mishaps, WorkspaceTyped
  <2>2. /\ request'[q] = Sent(t, cache[t]) /\ cache[t] \in Content
        /\ \A p \in Requests : p # q => request'[p] = request[p]
    BY <1>0, <1>4, PushKeeps
  <2>3. /\ request'[q].at = "sent" /\ request'[q].tab = t /\ request'[q].body = cache[t]
        /\ request'[q].revision = revision[browserOf[t]] /\ request'[q] # Free
    BY <1>0, <2>2, SentIs
  <2>4. /\ mishaps[b] \subseteq mishaps'[b]
        /\ mishaps'[browserOf[t]] = mishaps[browserOf[t]] \cup what
    BY <1>0, <2>1, BlameIs
  <2>5. CASE b # browserOf[t]
    <3>1. Still(b)' => Still(b)
      BY <1>4, <2>1, <2>4, <2>5 DEF Still
    <3> QED BY <1>s, <1>4, <2>1, <2>2, <2>3, <2>5, <3>1, SettledKept DEF InFlight
  <2>6. CASE b = browserOf[t]
    <3> SUFFICES ASSUME Still(b)' PROVE SettledAt(b)'
      BY DEF SettledAt
    <3>1. Stale(t) = {} /\ Overlap(t) = {}
      BY <2>4, <2>6 DEF Still
    <3>2. InFlight(b) = {} /\ cache[t] = storage[b]
      BY <1>0, <2>1, <2>6, <3>1 DEF Stale, Overlap, InStep
    <3>3. InFlight(b)' = {q}
      BY <1>4, <2>2, <2>3, <2>6, <3>2 DEF InFlight
    <3> QED BY <2>1, <2>3, <2>6, <3>2, <3>3 DEF SettledAt
  <2> QED BY <2>5, <2>6
<1>5. ASSUME NEW w \in Content, NEW what \in SUBSET Mishaps, save(t, w), mishaps' = Blame(t, what),
             UNCHANGED <<account, browserOf>>, \A c \in Browsers : c # browserOf[t] => revision'[c] = revision[c],
             \A p \in Requests : request'[p] = request[p] \/ (request[p] = Free /\ request'[p].tab = t)
      PROVE  SettledAt(b)'
  <2>1. CASE b = browserOf[t]
    BY <1>0, <1>5, <2>1, SavePlaces DEF SettledAt, Still
  <2>2. CASE b # browserOf[t]
    <3>1. storage'[b] = storage[b] /\ mishaps'[b] = mishaps[b] /\ \A u \in Tabs : u # t => timer'[u] = timer[u]
      BY <1>0, <1>5, <2>2, SavePlaces, BlameIs
    <3>2. Still(b)' => Still(b)
      BY <1>5, <2>2, <3>1 DEF Still
    <3> QED BY <1>s, <1>5, <2>2, <3>1, <3>2, SettledKept DEF InFlight
  <2> QED BY <2>1, <2>2
<1>6. ASSUME NEW w, NEW what, Editing(t, w, what) PROVE SettledAt(b)'
  <2>1. w \in Content /\ what \in SUBSET Mishaps /\ save(t, w) /\ mishaps' = Blame(t, what)
        /\ UNCHANGED <<account, browserOf, revision>>
    BY <1>6 DEF Editing
  <2>2. \A p \in Requests : request'[p] = request[p] \/ (request[p] = Free /\ request'[p].tab = t)
    BY <1>0, <1>6, <2>1, SentIs DEF Editing, WorkspaceTyped
  <2> QED BY <1>5, <2>1, <2>2
<1>7. ASSUME NEW w, NEW what, Replacing(t, w, what) PROVE SettledAt(b)'
  <2>1. w \in Content /\ what \in SUBSET Mishaps /\ save(t, w) /\ mishaps' = Blame(t, what)
        /\ UNCHANGED <<account, browserOf, request>>
    BY <1>7 DEF Replacing
  <2>2. \A c \in Browsers : c # browserOf[t] => revision'[c] = revision[c]
    BY <1>0, <1>7 DEF Replacing, WorkspaceTyped
  <2> QED BY <1>5, <2>1, <2>2
<1> QED
  BY <1>1, <1>2, <1>3, <1>4, <1>6, <1>7, TabStep(t) DEF TabStep

\* A push that is written raises the account's revision above what any browser
\* remembers, until the answer tells the browser it is its own copy.
LEMMA RequestSettled ==
  ASSUME Base, Ordered, Settled, NEW q \in Requests, RequestStep(q)
  PROVE  Settled'
<1>0. /\ WorkspaceTyped /\ InStep /\ account.revision \in Nat /\ UNCHANGED browserOf
      /\ \A t \in Tabs : browserOf[t] \in Browsers
  BY DEF Base, WorkspaceTyped, RequestStep
<1> DEFINE c == browserOf[request[q].tab]
<1>1. /\ request[q] \in Pushed /\ request[q] # Free /\ request[q].revision \in Nat
      /\ request[q].held \in Nat /\ c \in Browsers /\ request[q].tab \in Tabs
  BY <1>0, PushedIs DEF RequestStep, SelectRevision, WriteAccount, AnswerPush, LosePush, Pushed
<1> SUFFICES ASSUME NEW b \in Browsers PROVE SettledAt(b)'
  BY DEF Settled
<1>s. SettledAt(b)
  BY DEF Settled
<1>2. CASE SelectRevision(q)
  <2>1. UNCHANGED <<storage, revision, timer, account, mishaps>>
    BY <1>2 DEF SelectRevision
  <2>2. /\ \A p \in Requests : p # q => request'[p] = request[p]
        /\ request'[q].tab = request[q].tab /\ request'[q].body = request[q].body
        /\ request'[q].revision = request[q].revision /\ request'[q] # Free
        /\ request'[q].at = IF request[q].revision < account.revision THEN "refused" ELSE "selected"
    BY <1>0, <1>2, SelectRevisionKeeps
  <2>3. Still(b)' => Still(b)
    BY <1>0, <2>1 DEF Still
  <2>4. request[q].revision = account.revision => request'[q].at = "selected"
    BY <1>0, <2>2
  <2> QED BY <1>0, <1>1, <1>s, <2>1, <2>2, <2>3, <2>4, SettledKept DEF InFlight
<1>3. CASE WriteAccount(q)
  <2>1. UNCHANGED <<storage, revision, timer>>
    BY <1>3 DEF WriteAccount
  <2>2. /\ \A p \in Requests : p # q => request'[p] = request[p]
        /\ request'[q].tab = request[q].tab /\ request'[q].body = request[q].body
        /\ request'[q] # Free
        /\ account'.revision = request[q].held + 1
        /\ mishaps[b] \subseteq mishaps'[b]
        /\ account.revision = request[q].held \/ "overwrote" \in mishaps'[b]
    BY <1>0, <1>3, WriteAccountKeeps
  <2> SUFFICES ASSUME Still(b)' PROVE SettledAt(b)'
    BY DEF SettledAt
  <2>3. Still(b) /\ Careful(b) /\ account.revision = request[q].held
    BY <1>0, <2>1, <2>2 DEF Still, Careful
  <2>4. revision[b] \in Nat /\ revision[b] <= account.revision
    BY <1>0, <2>3 DEF Ordered, SeenUpTo, WorkspaceTyped
  <2>5. revision'[b] # account'.revision
    BY <1>0, <2>1, <2>2, <2>3, <2>4
  <2>6. \A p \in InFlight(b)' : p \in InFlight(b) /\ request'[p].body = request[p].body
    BY <1>0, <1>1, <2>2 DEF InFlight
  <2>7. \A p \in InFlight(b)' : request'[p].body = storage'[b]
    BY <1>s, <2>1, <2>3, <2>6 DEF SettledAt
  <2> QED BY <2>5, <2>7 DEF SettledAt
<1>4. CASE AnswerPush(q)
  <2>1. /\ UNCHANGED <<storage, timer, account, mishaps>> /\ request[q].at \in {"written", "refused"}
        /\ \A p \in Requests : p # q => request'[p] = request[p]
        /\ request'[q] = Free
    BY <1>0, <1>4, EndPushKeeps DEF AnswerPush
  <2>2. Still(b)' => Still(b)
    BY <1>0, <2>1 DEF Still
  <2>3. CASE revision'[b] = revision[b]
    BY <1>0, <1>1, <1>s, <2>1, <2>2, <2>3, SettledKept DEF InFlight
  <2>4. CASE revision'[b] # revision[b]
    <3>1. b = c /\ request[q].at = "written" /\ revision'[b] = request[q].held + 1
      BY <1>0, <1>1, <1>4, <2>4 DEF AnswerPush, WorkspaceTyped
    <3> SUFFICES ASSUME Still(b)' PROVE SettledAt(b)'
      BY DEF SettledAt
    <3>2. q \in InFlight(b) /\ Still(b) /\ Careful(b)
      BY <1>1, <2>2, <3>1 DEF InFlight, Still, Careful
    <3>3. \A p \in InFlight(b) : request[p].body = storage[b]
      BY <1>s, <3>2 DEF SettledAt
    <3>4. revision'[b] = account.revision => account.payload = storage[b]
      BY <1>1, <3>1, <3>2, <3>3 DEF Ordered, OrderedPush
    <3>5. \A p \in InFlight(b)' : p \in InFlight(b) /\ request'[p].body = request[p].body
      BY <1>0, <2>1 DEF InFlight
    <3>6. \A p \in InFlight(b)' : request'[p].body = storage'[b]
      BY <2>1, <3>3, <3>5
    <3> QED BY <2>1, <3>4, <3>6 DEF SettledAt
  <2> QED BY <2>3, <2>4
<1>5. CASE LosePush(q)
  <2>1. /\ UNCHANGED <<storage, revision, timer, account>> /\ mishaps' = Blame(request[q].tab, {"unsent"})
        /\ \A p \in Requests : p # q => request'[p] = request[p]
        /\ request'[q] = Free
    BY <1>0, <1>5, EndPushKeeps DEF LosePush
  <2>2. "unsent" \in mishaps'[c] /\ mishaps[b] \subseteq mishaps'[b]
    <3>1. {"unsent"} \in SUBSET Mishaps
      BY DEF Mishaps
    <3> QED BY <1>0, <1>1, <2>1, <3>1, BlameIs
  <2>3. CASE b = c
    BY <2>2, <2>3 DEF SettledAt, Still
  <2>4. CASE b # c
    <3>1. Still(b)' => Still(b)
      BY <1>0, <2>1, <2>2 DEF Still
    <3> QED BY <1>0, <1>1, <1>s, <2>1, <2>4, <3>1, SettledKept DEF InFlight
  <2> QED BY <2>3, <2>4
<1> QED
  BY <1>2, <1>3, <1>4, <1>5 DEF RequestStep

\* Every step keeps Settled.
LEMMA SettledStep ==
  ASSUME Base, Ordered, Settled, [WorkspaceNext /\ UNCHANGED browserOf]_workspaceVars
  PROVE  Settled'
<1>1. CASE UNCHANGED workspaceVars
  BY <1>1 DEF workspaceVars, Settled, SettledAt, Still, InFlight
<1> QED
  BY <1>1, WorkspaceStep, TabSettled, RequestSettled DEF Base

\* At first no push is in flight.
LEMMA SettledInit == WorkspaceInit => Settled
<1> SUFFICES ASSUME WorkspaceInit, NEW b \in Browsers PROVE SettledAt(b)
  BY DEF Settled
<1>1. PICK synced \in SUBSET Browsers :
       /\ storage = [c \in Browsers |-> IF c \in synced THEN Audited ELSE EMPTY]
       /\ revision = [c \in Browsers |-> IF c \in synced THEN 1 ELSE 0]
       /\ account = IF synced = {} THEN [revision |-> 0, payload |-> EMPTY]
                    ELSE [revision |-> 1, payload |-> Audited]
  BY DEF WorkspaceInit
<1>2. revision[b] = account.revision => storage[b] = account.payload
  <2>1. CASE synced = {}
    BY <1>1, <2>1
  <2>2. CASE synced # {}
    <3>1. account.revision = 1 /\ account.payload = Audited
      BY <1>1, <2>2
    <3> QED BY <1>1, <3>1
  <2> QED BY <2>1, <2>2
<1>3. InFlight(b) = {}
  BY DEF WorkspaceInit, InFlight
<1> QED
  BY <1>2, <1>3 DEF SettledAt

\* The revision a browser remembers tells it what the account holds: once
\* nothing is armed or in flight and nothing untoward has happened to it,
\* remembering the account's revision (lib/sync.ts) means holding its copy.
THEOREM RevisionsTell == WorkspaceSpec => []RevisionMeansContent
<1>1. Settled => RevisionMeansContent
  BY DEF Settled, SettledAt, Still, RevisionMeansContent
<1>2. Base /\ Ordered /\ Settled /\ [WorkspaceNext /\ UNCHANGED browserOf]_workspaceVars
        => Ordered' /\ Settled'
  BY OrderedStep, SettledStep
<1> QED
  BY <1>1, <1>2, OrderedInit, SettledInit, WorkspaceBase, PTL DEF WorkspaceSpec
=============================================================================
