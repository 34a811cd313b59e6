--------------------------- MODULE LinkProgramme ---------------------------
(***************************************************************************)
(* The link programme of one site: the panel that pulls claimed links from *)
(* a provider and verifies them, and the outreach desk beside it, both     *)
(* working on one record of the browser's storage (lib/links.ts).          *)
(*                                                                         *)
(* A panel is one mounting of the page, in any tab.  It reads storage once *)
(* and keeps a copy; a pull or a verification works on the copy it started *)
(* with, goes on when the page is left, and writes that whole copy back.   *)
(* The desk reads storage afresh each time it records an approach.         *)
(***************************************************************************)
EXTENDS Integers, FiniteSets, Functions

CONSTANTS
  Panels,         \* mountings of the page
  Sources,        \* addresses of pages a provider may report
  DomainOf,       \* the domain of each source
  PageText,       \* the scheme phrases and sensitive words each source page carries
  Prospects,      \* what the site's last run put forward for outreach
  VerifyLimit,    \* links one verification checks, 60 in the code
  BatchSize,      \* links one request of it carries, 10 in the code
  MaxOps,         \* pulls and verifications started
  MaxApproaches   \* approaches recorded

ASSUME LinkAssumption ==
  /\ VerifyLimit \in Nat \ {0} /\ BatchSize \in Nat \ {0}
  /\ MaxOps \in Nat /\ MaxApproaches \in Nat

VARIABLES
  stored,     \* the record of the site in the browser's storage
  panels,     \* each mounting: its copy, its desk's pipeline and its operation
  seen,       \* history: the links fetches have found, <<source, followed>>
  started,    \* operations started
  approached  \* approaches recorded

vars == <<stored, panels, seen, started, approached>>

(***************************************************************************)
(* Data.  What a fetch of a source page may find: a lookalike is a link to *)
(* a host whose name merely ends in the site's, an asset an answer that is *)
(* not HTML.  Pages change between fetches, so any fetch may find any.     *)
(***************************************************************************)
Carries == {"followed", "nofollow", "absent", "lookalike", "unreachable", "asset"}

LinkStatuses == {"confirmed", "not_found", "unreachable", "unconfirmed"}

\* lastVerified is 0 for null, else the number of the operation that saved it.
PortfolioLink ==
  [status : LinkStatuses, followed : BOOLEAN, placed : BOOLEAN, lastVerified : 0..MaxOps]

\* A portfolio holds each source once; its order decides nothing but ties.
Portfolios == UNION {[known -> PortfolioLink] : known \in SUBSET Sources}

Candidates ==
  LET Tactical == {"broken_inbound", "broken_replacement", "relationship", "partner",
                   "resource_page", "directory", "journalist", "podcast"}
  IN {p.domain : p \in {q \in Prospects : q.kind \in Tactical /\ q.proven}}

LinkState == [portfolio : Portfolios, pipeline : [Candidates -> 0..MaxApproaches]]

\* What loadLinks answers when nothing is stored; no approaches is no entry.
EmptyLinks == [portfolio |-> [s \in {} |-> {}], pipeline |-> [d \in Candidates |-> 0]]

(***************************************************************************)
(* The verifier.                                                           *)
(***************************************************************************)
\* The host of an anchor is compared by its ending, so a lookalike matches.
verifyFrom(carried) ==
  [status |-> CASE carried \in {"followed", "nofollow", "lookalike"} -> "confirmed"
                [] carried = "absent" -> "not_found"
                [] carried = "unreachable" -> "unreachable"
                [] carried = "asset" -> "unconfirmed",
   followed |-> carried \in {"followed", "lookalike"},
   placed |-> carried \in {"followed", "nofollow", "lookalike"}]

\* The links never verified come first, then those verified longest ago.
Queues(portfolio) ==
  LET known == DOMAIN portfolio
      size == IF Cardinality(known) < VerifyLimit THEN Cardinality(known) ELSE VerifyLimit
  IN {q \in SUBSET known :
        /\ Cardinality(q) = size
        /\ \A s \in q, t \in known \ q :
             portfolio[s].lastVerified <= portfolio[t].lastVerified}

applyVerdicts(portfolio, verdicts, now) ==
  [s \in DOMAIN portfolio |->
     IF s \in DOMAIN verdicts
     THEN [status |-> verdicts[s].status, followed |-> verdicts[s].followed,
           placed |-> verdicts[s].placed, lastVerified |-> now]
     ELSE portfolio[s]]

(***************************************************************************)
(* The provider's rows.                                                    *)
(***************************************************************************)
\* A version that takes the provider's word.
portfolioFromConfirmed(rows) ==
  [s \in DOMAIN rows |->
     [status |-> "confirmed", followed |-> rows[s], placed |-> FALSE, lastVerified |-> 0]]

\* A row is a claim, whatever the provider says: rows gives, for each source
\* reported, whether the provider calls its link followed.
portfolioFrom(rows) ==
  [s \in DOMAIN rows |->
     [status |-> "unconfirmed", followed |-> rows[s], placed |-> FALSE, lastVerified |-> 0]]

\* A version in which a row replaces what was known of its source.
WithClaimsReplacing(portfolio, rows) ==
  [s \in DOMAIN portfolio \cup DOMAIN rows |->
     IF s \in DOMAIN rows THEN portfolioFrom(rows)[s] ELSE portfolio[s]]

\* Links already known stay as they are.
WithClaims(portfolio, rows) ==
  [s \in DOMAIN portfolio \cup DOMAIN rows |->
     IF s \in DOMAIN portfolio THEN portfolio[s] ELSE portfolioFrom(rows)[s]]

(***************************************************************************)
(* The risk review.                                                        *)
(***************************************************************************)
SCHEME_WEIGHTS ==
  [sells_placements |-> 65, link_network |-> 65, sells_links_outright |-> 70,
   article_spinning |-> 35]

\* A version that hands the text of the source page over.
reviewableFromWithText(portfolio) ==
  [s \in DOMAIN portfolio |->
     [followed |-> portfolio[s].followed, placed |-> portfolio[s].placed,
      text |-> PageText[s], linkDump |-> FALSE, noindex |-> FALSE, sitewideFooter |-> FALSE]]

\* What the panel hands to the review: neither the page's text nor its counts.
reviewableFrom(portfolio) ==
  [s \in DOMAIN portfolio |->
     [followed |-> portfolio[s].followed, placed |-> portfolio[s].placed, text |-> {},
      linkDump |-> FALSE, noindex |-> FALSE, sitewideFooter |-> FALSE]]

\* The signals of one link, each with its two weights.
Signals(link) ==
  {[code |-> c, action |-> SCHEME_WEIGHTS[c], waste |-> 20] :
     c \in link.text \cap DOMAIN SCHEME_WEIGHTS}
  \cup {s \in {[code |-> "unrelated_sensitive_neighbourhood", action |-> 25, waste |-> 40]} :
          "sensitive" \in link.text}
  \cup {s \in {[code |-> "link_dump", action |-> 5, waste |-> 55]} : link.linkDump}
  \cup {s \in {[code |-> "noindexed_source", action |-> 0, waste |-> 90]} : link.noindex}
  \cup {s \in {[code |-> "sitewide_footer", action |-> 20, waste |-> 60]} : link.sitewideFooter}
  \cup {s \in {[code |-> "nofollow", action |-> 0, waste |-> 45]} :
          ~link.followed /\ link.placed}

\* The sums are capped at 100, above every threshold.
assessLink(link) ==
  LET signals == Signals(link)
      actionRisk == SumFunctionOnSet([s \in signals |-> s.action], signals)
      wasteRisk == SumFunctionOnSet([s \in signals |-> s.waste], signals)
  IN CASE actionRisk >= 60 -> "disavow_candidate"
       [] actionRisk \in 25..59 -> "investigate"
       [] actionRisk < 25 /\ wasteRisk >= 50 -> "ignore_it"
       [] actionRisk < 25 /\ wasteRisk < 50 -> "leave_it"

\* The domains of the disavow file, none when it is not warranted.
buildDisavowFile(portfolio, manualAction) ==
  {DomainOf[s] : s \in {t \in DOMAIN portfolio :
                          /\ manualAction
                          /\ assessLink(reviewableFrom(portfolio)[t]) = "disavow_candidate"}}

(***************************************************************************)
(* The page and its operations.                                            *)
(***************************************************************************)
\* An operation: what it is, the state it started from, what it has left to
\* check, the verdicts so far and its number.
Idle == [kind |-> "none", base |-> EmptyLinks, queue |-> {}, verdicts |-> [s \in {} |-> {}], number |-> 0]

Unmounted == [mounted |-> FALSE, copy |-> EmptyLinks, desk |-> EmptyLinks.pipeline, op |-> Idle]

Init ==
  /\ stored = EmptyLinks
  /\ panels = [p \in Panels |-> Unmounted]
  /\ seen = {}
  /\ started = 0
  /\ approached = 0

\* The page opens: panel and desk each load storage.
Mount(p) ==
  /\ ~panels[p].mounted /\ panels[p].op = Idle
  /\ panels' = [panels EXCEPT ![p] = [mounted |-> TRUE, copy |-> stored,
                                      desk |-> stored.pipeline, op |-> Idle]]
  /\ UNCHANGED <<stored, seen, started, approached>>

\* The page is left: what it was doing goes on without it.
Unmount(p) ==
  /\ panels[p].mounted
  /\ panels' = [panels EXCEPT ![p].mounted = FALSE, ![p].copy = EmptyLinks,
                              ![p].desk = EmptyLinks.pipeline]
  /\ UNCHANGED <<stored, seen, started, approached>>

\* The tab is closed: what it was doing ends there.
ClosePanel(p) ==
  /\ panels[p].mounted \/ panels[p].op # Idle
  /\ panels' = [panels EXCEPT ![p] = Unmounted]
  /\ UNCHANGED <<stored, seen, started, approached>>

\* A button of the panel, disabled while the panel is busy.
Start(p, kind, queue) ==
  /\ panels[p].mounted /\ panels[p].op = Idle
  /\ kind = "verify" => DOMAIN panels[p].copy.portfolio # {}
  /\ queue \in IF kind = "verify" THEN Queues(panels[p].copy.portfolio) ELSE {{}}
  /\ started < MaxOps
  /\ started' = started + 1
  /\ panels' = [panels EXCEPT ![p].op =
                  [kind |-> kind, base |-> panels[p].copy,
                   queue |-> queue, verdicts |-> Idle.verdicts, number |-> started + 1]]
  /\ UNCHANGED <<stored, seen, approached>>

\* update: the panel's copy, when it is still there, and all of storage.
Save(p, next) ==
  /\ stored' = next
  /\ panels' = [panels EXCEPT ![p].op = Idle,
                              ![p].copy = IF panels[p].mounted THEN next ELSE EmptyLinks]

\* The provider answers a pull of links with rows.
FinishPull(p, rows) ==
  /\ panels[p].op.kind = "pull"
  /\ LET base == panels[p].op.base
     IN Save(p, [base EXCEPT !.portfolio = WithClaims(base.portfolio, rows)])
  /\ UNCHANGED <<seen, started, approached>>

\* The gap report names rivals' links; it is shown and never saved.
FinishGap(p) ==
  /\ panels[p].op.kind = "competitors"
  /\ panels' = [panels EXCEPT ![p].op = Idle]
  /\ UNCHANGED <<stored, seen, started, approached>>

\* One request of a verification: each page of the batch is fetched and read.
VerifyBatch(p, batch, found) ==
  LET op == panels[p].op
  IN /\ op.kind = "verify" /\ batch # {} /\ batch \subseteq op.queue
     /\ \/ Cardinality(batch) = BatchSize
        \/ batch = op.queue /\ Cardinality(batch) < BatchSize
     /\ panels' = [panels EXCEPT
          ![p].op.queue = @ \ batch,
          ![p].op.verdicts = [s \in DOMAIN op.verdicts \cup batch |->
                                IF s \in batch THEN verifyFrom(found[s]) ELSE op.verdicts[s]]]
     /\ seen' = seen \cup {<<s, found[s] # "nofollow">> :
                          s \in {t \in batch : found[t] \in {"followed", "nofollow", "lookalike"}}}
     /\ UNCHANGED <<stored, started, approached>>

\* The last batch is in: the verdicts are folded into the copy it started from.
FinishVerify(p) ==
  LET op == panels[p].op
  IN /\ op.kind = "verify" /\ op.queue = {}
     /\ Save(p, [op.base EXCEPT !.portfolio =
                   applyVerdicts(op.base.portfolio, op.verdicts, op.number)])
     /\ UNCHANGED <<seen, started, approached>>

\* A request fails: nothing of the operation is saved, earlier batches included.
FailOp(p) ==
  /\ panels[p].op # Idle
  /\ panels' = [panels EXCEPT ![p].op = Idle]
  /\ UNCHANGED <<stored, seen, started, approached>>

\* canApproach over the desk's entries, of which a domain has at most one.
canApproach(desk, d) == Cardinality({e \in {d} : desk[e] > 0}) < 2

\* recordApproach: storage is read again, one domain counted, all of it saved.
RecordApproach(p, d) ==
  LET next == [stored EXCEPT !.pipeline[d] = @ + 1]
  IN /\ panels[p].mounted /\ canApproach(panels[p].desk, d)
     /\ approached < MaxApproaches
     /\ approached' = approached + 1
     /\ stored' = next
     /\ panels' = [panels EXCEPT ![p].desk = next.pipeline]
     /\ UNCHANGED <<seen, started>>

Next ==
  \/ \E p \in Panels :
       \/ Mount(p)
       \/ Unmount(p)
       \/ ClosePanel(p)
       \/ \E kind \in {"pull", "competitors", "verify"}, queue \in SUBSET Sources :
            Start(p, kind, queue)
       \/ \E sources \in SUBSET Sources : \E rows \in [sources -> BOOLEAN] : FinishPull(p, rows)
       \/ FinishGap(p)
       \/ \E batch \in SUBSET Sources : \E found \in [batch -> Carries] :
            VerifyBatch(p, batch, found)
       \/ FinishVerify(p)
       \/ FailOp(p)
       \/ \E d \in Candidates : RecordApproach(p, d)

Spec == Init /\ [][Next]_vars

(***************************************************************************)
(* Properties.                                                             *)
(***************************************************************************)
TypeOK ==
  /\ stored \in LinkState
  /\ panels \in [Panels -> [mounted : BOOLEAN, copy : LinkState,
                            desk : [Candidates -> 0..MaxApproaches],
                            op : [kind : {"none", "pull", "competitors", "verify"},
                                  base : LinkState, queue : SUBSET Sources,
                                  verdicts : UNION {[known -> [status : LinkStatuses,
                                                               followed : BOOLEAN,
                                                               placed : BOOLEAN]] :
                                                      known \in SUBSET Sources},
                                  number : 0..MaxOps]]]
  /\ seen \subseteq Sources \X BOOLEAN
  /\ started \in 0..MaxOps
  /\ approached \in 0..MaxApproaches

\* Nothing of old is missing from new: no link, no later verification, no approach.
Keeps(old, new) ==
  /\ DOMAIN old.portfolio \subseteq DOMAIN new.portfolio
  /\ \A s \in DOMAIN old.portfolio :
       old.portfolio[s].lastVerified <= new.portfolio[s].lastVerified
  /\ \A d \in Candidates : old.pipeline[d] <= new.pipeline[d]

(***************************************************************************)
(* Storage loses a link, a verification or a recorded approach only to a   *)
(* pull or a verification that ends, and only to one that had started from *)
(* something other than what storage holds when it ends: another mounting  *)
(* saved, or the desk recorded an approach, in between (update in          *)
(* components/link-programme.tsx writes the state the operation captured). *)
(***************************************************************************)
LossExplained ==
  [][~Keeps(stored, stored') =>
       \E p \in Panels : /\ panels[p].op # Idle /\ panels'[p].op = Idle
                         /\ panels[p].op.base # stored]_vars

(***************************************************************************)
(* No link is called confirmed, in storage or on any screen, unless a      *)
(* fetch of its page found a link to the site or to a lookalike of it, and *)
(* none is called followed and confirmed unless such a fetch found it so   *)
(* (portfolioFrom, verifyFrom, applyVerdicts).                             *)
(***************************************************************************)
ConfirmedWasRead ==
  \A state \in {stored} \cup {panels[p].copy : p \in Panels} :
    \A s \in DOMAIN state.portfolio :
      LET link == state.portfolio[s]
      IN link.status = "confirmed" =>
           /\ link.lastVerified > 0
           /\ <<s, link.followed>> \in seen

(***************************************************************************)
(* The review the panel shows judges nothing: whatever the source pages    *)
(* say, every link is left alone, and no disavow file is offered even with *)
(* a manual action reported, since the panel passes none of what assessLink*)
(* weighs (reviewableFrom).                                                *)
(***************************************************************************)
NothingIsJudged ==
  \A p \in Panels :
    LET portfolio == panels[p].copy.portfolio
    IN /\ \A s \in DOMAIN portfolio : assessLink(reviewableFrom(portfolio)[s]) = "leave_it"
       /\ buildDisavowFile(portfolio, TRUE) = {}
=============================================================================
