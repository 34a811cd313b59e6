--------------------------- MODULE ContentLifecycle ---------------------------
(***************************************************************************)
(* One content item from idea to published page: services/content.py, the  *)
(* tools of tools/content_tools.py and publish.content, and the client's   *)
(* requests of api/routes/content.py.                                      *)
(*                                                                         *)
(* Every operation reads the item, works for a while, and writes back the  *)
(* columns it changed by primary key; the UPDATE takes the row's lock, and *)
(* holds it until the session of the step or request commits.  Nothing     *)
(* compares what was read with what is there, but one thing: a snapshot    *)
(* inserts the version it counted to, and uq_content_version refuses a     *)
(* number that exists.  What does not take a snapshot is not protected.    *)
(*                                                                         *)
(* A draft stands for the body with its meta data.                         *)
(***************************************************************************)
EXTENDS Naturals, Sequences, FiniteSets

CONSTANTS
  Agents,      \* sessions of mission steps and of replayed approvals
  Clients,     \* sessions of the client's requests
  Drafts,      \* texts
  Sound,       \* the drafts whose scores pass the thresholds
  Complete,    \* the drafts that are long enough and have their meta data
  Null,        \* no text
  MaxCalls,    \* bound: operations, after which only publications begin
  MaxOps,      \* bound: operations begun
  MaxFaults    \* bound: sessions that die, answers lost, gates that raise

ASSUME ContentAssumption ==
  /\ Null \notin Drafts /\ Sound \subseteq Drafts /\ Complete \subseteq Drafts
  /\ Agents \cap Clients = {}
  /\ MaxOps \in Nat /\ MaxCalls \in 0..MaxOps /\ MaxFaults \in Nat

VARIABLES
  item,      \* the committed row
  tx,        \* what each session has read and written
  cms,       \* external: the posts of the CMS, their texts by id
  ops,       \* operations begun so far
  faults,    \* faults so far
  looked,    \* history: texts a client saw in the review queue
  loose,     \* history: texts stored without being scored
  late,      \* history: texts stored when the item was already in review or past it
  orphans,   \* history: posts whose creator rolled back or never heard of them
  overtaken  \* history: a status was written by who had read an older one

vars == <<item, tx, cms, ops, faults, looked, loose, late, orphans, overtaken>>

Sessions == Agents \cup Clients

-----------------------------------------------------------------------------
TRANSITIONS ==
  [idea |-> {"briefed", "rejected", "archived"},
   briefed |-> {"drafting", "idea", "rejected", "archived"},
   drafting |-> {"editing", "briefed", "rejected"},
   editing |-> {"qa", "drafting", "rejected"},
   qa |-> {"review", "editing", "rejected"},
   review |-> {"approved", "changes_requested", "rejected"},
   changes_requested |-> {"drafting", "editing", "rejected", "archived"},
   approved |-> {"scheduled", "publishing", "changes_requested"},
   scheduled |-> {"publishing", "approved", "changes_requested"},
   publishing |-> {"published", "approved"},
   published |-> {"updating", "archived"},
   updating |-> {"editing", "published"},
   rejected |-> {"idea", "archived"},
   archived |-> {"idea"}]

Items == [status : DOMAIN TRANSITIONS,
          body : Drafts \cup {Null},
          scored : Drafts \cup {Null},   \* the text the stored scores are of
          version : Nat,
          ref : Nat]                     \* cms_ref, 0 when there is none

\* _run_gates against QA_THRESHOLDS: the scores of a text pass; scores that
\* were never computed do not fail.
run_gates(d) == d \in Sound \cup {Null}

failing_gates(i) == i.body \notin Complete \/ ~run_gates(i.scored)

\* The transition table refuses, and so do the gates on the way into review.
Refused(i, to) ==
  to \notin TRANSITIONS[i.status] \/ (to = "review" /\ failing_gates(i))

snapshot(i) == [i EXCEPT !.version = @ + 1]

\* Mutants: going into review, or going live, takes no snapshot.
transitionSilentReview(i, to) ==
  IF Refused(i, to) THEN i
  ELSE LET moved == [i EXCEPT !.status = to]
       IN IF to = "review" THEN moved ELSE snapshot(moved)
transitionSilentLive(i, to) ==
  IF Refused(i, to) THEN i
  ELSE LET moved == [i EXCEPT !.status = to]
       IN IF to = "published" THEN moved ELSE snapshot(moved)

\* transition with its snapshot; a Conflict leaves the item as it is.
transition(i, to) == IF Refused(i, to) THEN i ELSE snapshot([i EXCEPT !.status = to])

\* content.save_brief
save_brief(i) == IF i.status = "idea" THEN transition(i, "briefed") ELSE i

\* content.save_draft stores a text with its scores whatever the status, and
\* advances the item only from the statuses before editing.
save_draft(i, d, advance) ==
  LET saved == [i EXCEPT !.body = d, !.scored = d]
  IN IF advance /\ i.status \in {"briefed", "drafting"}
     THEN transition([saved EXCEPT !.status = "drafting"], "editing")
     ELSE snapshot(saved)

\* content.submit_for_review: the move to qa stays when the gates then refuse.
submit_for_review(i) ==
  transition(IF i.status = "editing" THEN [i EXCEPT !.status = "qa"] ELSE i, "review")

\* The client's decision; an approval may carry a date.
Decided(i, to) ==
  CASE i.status # "review" -> i
    [] i.status = "review" /\ to = "scheduled" ->
         [transition(i, "approved") EXCEPT !.status = "scheduled"]
    [] OTHER -> transition(i, to)
Decisions == {"approved", "scheduled", "rejected", "changes_requested"}

\* edit_content: the text changes, in any status; its scores do not.
edit_content(i, d) == snapshot([i EXCEPT !.body = d])

\* What a save whose gates raise leaves in the session: the text alone.
Unscored(i, d) == [i EXCEPT !.body = d]

\* The statuses publish.content takes.
Publishable == {"approved", "scheduled", "publishing"}

\* What the two kinds of session may ask for, as the item each would leave.
AgentWrites(i) ==
  {save_brief(i), submit_for_review(i)} \cup
  {save_draft(i, d, a) : d \in Drafts, a \in BOOLEAN}
ClientWrites(i) ==
  (IF looked = {} THEN {} ELSE {Decided(i, to) : to \in Decisions}) \cup
  {edit_content(i, d) : d \in Drafts}

-----------------------------------------------------------------------------
NoItem == [status |-> "idea", body |-> Null, scored |-> Null, version |-> 1, ref |-> 0]
Idle == [stage |-> "idle", read |-> NoItem, will |-> NoItem, mine |-> NoItem,
         holds |-> FALSE, made |-> 0]

\* read is the object as it was loaded or last flushed, will as the operation
\* leaves it, mine the row with this session's writes, made a post it created.
Txs == [stage : {"idle", "open", "writing", "claiming", "posting", "recording"},
        read : Items, will : Items, mine : Items, holds : BOOLEAN, made : Nat]

TypeOK ==
  /\ item \in Items
  /\ tx \in [Sessions -> Txs]
  /\ cms \in Seq(Drafts \cup {Null})
  /\ ops \in 0..MaxOps /\ faults \in 0..MaxFaults
  /\ looked \subseteq Drafts \cup {Null}
  /\ loose \subseteq Drafts /\ late \subseteq Drafts
  /\ orphans \subseteq 1..Len(cms)
  /\ overtaken \in BOOLEAN

Init ==
  /\ item = NoItem
  /\ tx = [s \in Sessions |-> Idle]
  /\ cms = <<>>
  /\ ops = 0 /\ faults = 0
  /\ looked = {} /\ loose = {} /\ late = {} /\ orphans = {}
  /\ overtaken = FALSE

\* What a SELECT of the session returns.
Visible(s) == IF tx[s].holds THEN tx[s].mine ELSE item

\* A request carries one operation, an agent's step any number.
Ready(s) ==
  tx[s].stage = "idle" \/ (s \in Agents /\ tx[s].stage = "open")

\* Only the columns that changed are written, onto whatever is there.
Onto(base, old, new) == [c \in DOMAIN base |-> IF new[c] = old[c] THEN base[c] ELSE new[c]]

\* The version counted to has been stored by another session meanwhile.
Taken(base, old, new) == new.version > old.version /\ new.version <= base.version

Decisive == {"review", "approved", "scheduled", "publishing", "published"}

RollBack(s) ==
  /\ tx' = [tx EXCEPT ![s] = Idle]
  /\ orphans' = orphans \cup ({tx[s].made} \ {0})
  /\ UNCHANGED <<loose, late, overtaken>>

\* flush: it waits for the row's lock, and fails the session on the constraint.
\* r is what the session is left with.
Flush(s, r) ==
  LET old == tx[s].read
      new == r.will
      base == Visible(s)
  IN /\ \A t \in Sessions \ {s} : ~tx[t].holds
     /\ IF Taken(base, old, new) THEN RollBack(s)
        ELSE /\ tx' = [tx EXCEPT ![s] = [r EXCEPT !.read = new, !.mine = Onto(base, old, new),
                                                  !.holds = TRUE]]
             /\ late' = IF new.body # old.body /\ base.status \in Decisive
                        THEN late \cup {new.body} ELSE late
             /\ loose' = IF new.body # old.body
                           /\ (new.version = old.version \/ new.scored # new.body)
                         THEN loose \cup {new.body} ELSE loose
             /\ overtaken' = (overtaken \/ (new.status # old.status /\ base.status # old.status))
             /\ UNCHANGED orphans

-----------------------------------------------------------------------------
\* A tool or a request loads the item and works out what to write.
Call(s) ==
  /\ Ready(s) /\ ops < MaxCalls
  /\ \E will \in IF s \in Agents THEN AgentWrites(Visible(s)) ELSE ClientWrites(Visible(s)) :
       tx' = [tx EXCEPT ![s].stage = "writing", ![s].read = Visible(s), ![s].will = will]
  /\ ops' = ops + 1
  /\ UNCHANGED <<item, cms, faults, looked, loose, late, orphans, overtaken>>

\* content.save_draft, whose gates raise or time out: the executor reports the
\* error, and the text assigned before stays in the session.
CallRaises(s) ==
  /\ Ready(s) /\ ops < MaxCalls /\ s \in Agents /\ faults < MaxFaults
  /\ \E d \in Drafts :
       tx' = [tx EXCEPT ![s].stage = "writing", ![s].read = Visible(s),
                        ![s].will = Unscored(Visible(s), d)]
  /\ ops' = ops + 1 /\ faults' = faults + 1
  /\ UNCHANGED <<item, cms, looked, loose, late, orphans, overtaken>>

\* An operation that changed nothing sends nothing.
Write(s) ==
  /\ tx[s].stage = "writing"
  /\ IF tx[s].will = tx[s].read
     THEN /\ tx' = [tx EXCEPT ![s].stage = "open"]
          /\ UNCHANGED <<loose, late, orphans, overtaken>>
     ELSE Flush(s, [tx[s] EXCEPT !.stage = "open"])
  /\ UNCHANGED <<item, cms, ops, faults, looked>>

\* The client opens the review queue.
Look ==
  /\ item.status = "review" /\ item.body \notin looked
  /\ looked' = looked \cup {item.body}
  /\ UNCHANGED <<item, tx, cms, ops, faults, loose, late, orphans, overtaken>>

-----------------------------------------------------------------------------
\* Mutant: an item in review may be published.
PublishAnyway(s) ==
  /\ Ready(s) /\ ops < MaxOps /\ s \in Agents /\ Visible(s).status \in Publishable \cup {"review"}
  /\ tx' = [tx EXCEPT ![s].read = Visible(s), ![s].stage = "claiming",
                      ![s].will = [Visible(s) EXCEPT !.status = "publishing"]]
  /\ ops' = ops + 1
  /\ UNCHANGED <<item, cms, faults, looked, loose, late, orphans, overtaken>>

\* publish.content loads the item; one of another status is refused.
Publish(s) ==
  /\ Ready(s) /\ ops < MaxOps /\ s \in Agents /\ Visible(s).status \in Publishable
  /\ tx' = [tx EXCEPT ![s].read = Visible(s),
                      ![s].will = [Visible(s) EXCEPT !.status = "publishing"],
                      ![s].stage = IF Visible(s).status = "publishing" THEN "posting" ELSE "claiming"]
  /\ ops' = ops + 1
  /\ UNCHANGED <<item, cms, faults, looked, loose, late, orphans, overtaken>>

\* ... moves it to publishing, with no snapshot,
Claim(s) ==
  /\ tx[s].stage = "claiming"
  /\ Flush(s, [tx[s] EXCEPT !.stage = "posting"])
  /\ UNCHANGED <<item, cms, ops, faults, looked>>

\* What the CMS has after the text is created, or put over the post referred to.
Sent(i) == IF i.ref = 0 THEN Append(cms, i.body) ELSE [cms EXCEPT ![i.ref] = i.body]

\* ... and calls the CMS, with what was loaded before.
Post(s) ==
  /\ tx[s].stage = "posting"
  /\ cms' = Sent(tx[s].read)
  /\ LET ref == IF tx[s].read.ref = 0 THEN Len(cms') ELSE tx[s].read.ref
     IN tx' = [tx EXCEPT ![s].stage = "recording",
                         ![s].will = transition([tx[s].read EXCEPT !.ref = ref], "published"),
                         ![s].made = IF tx[s].read.ref = 0 THEN ref ELSE @]
  /\ UNCHANGED <<item, ops, faults, looked, loose, late, orphans, overtaken>>

\* The CMS refuses: the item is approved again.
PostRefused(s) ==
  /\ tx[s].stage = "posting"
  /\ tx' = [tx EXCEPT ![s].stage = "recording", ![s].will.status = "approved"]
  /\ UNCHANGED <<item, cms, ops, faults, looked, loose, late, orphans, overtaken>>

\* The call raises or times out, with or without having had its effect: the
\* executor reports the error and the item stays at publishing.
PostRaises(s) ==
  /\ tx[s].stage = "posting" /\ faults < MaxFaults
  /\ cms' \in {cms, Sent(tx[s].read)}
  /\ orphans' = orphans \cup ((DOMAIN cms') \ (DOMAIN cms))
  /\ tx' = [tx EXCEPT ![s].stage = "open"]
  /\ faults' = faults + 1
  /\ UNCHANGED <<item, ops, looked, loose, late, overtaken>>

\* The outcome is written: the reference, published, and the live version; or
\* that it is approved.
Record(s) ==
  /\ tx[s].stage = "recording"
  /\ Flush(s, [tx[s] EXCEPT !.stage = "open"])
  /\ UNCHANGED <<item, cms, ops, faults, looked>>

-----------------------------------------------------------------------------
Commit(s) ==
  /\ tx[s].stage = "open"
  /\ item' = Visible(s)
  /\ tx' = [tx EXCEPT ![s] = Idle]
  /\ UNCHANGED <<cms, ops, faults, looked, loose, late, orphans, overtaken>>

\* The process dies, or the session fails for another reason.
Abort(s) ==
  /\ tx[s].stage # "idle" /\ faults < MaxFaults
  /\ faults' = faults + 1
  /\ RollBack(s)
  /\ UNCHANGED <<item, cms, ops, looked>>

Next ==
  \/ Look
  \/ \E s \in Sessions :
       Call(s) \/ CallRaises(s) \/ Write(s) \/ Publish(s) \/ Claim(s) \/ Post(s)
       \/ PostRefused(s) \/ PostRaises(s) \/ Record(s) \/ Commit(s) \/ Abort(s)

Spec == Init /\ [][Next]_vars

-----------------------------------------------------------------------------
\* "Nothing reaches review with a failing gate": the text in the queue is one
\* that passes every gate, unless it was stored without being scored, or when
\* the item was in the queue already.
ReviewedPassed ==
  item.status = "review" =>
    item.body \in (Sound \cap Complete) \cup loose \cup late

\* The CMS has one post of the item, the one the row refers to, but for posts
\* whose session rolled back, never heard of them or is still at work: of two
\* publications that overlap, at most one is recorded.
PostedOnceUnlessUnrecorded ==
  DOMAIN cms \subseteq {item.ref} \cup orphans \cup {tx[s].made : s \in Sessions}

\* No text is live that the client was not shown in review, unless it was
\* stored when the item was in review or past it, where neither save_draft nor
\* edit_content asks for another look, or a status was overtaken.
LiveWasShown == overtaken \/ \A p \in DOMAIN cms : cms[p] \in looked \cup late

=============================================================================
