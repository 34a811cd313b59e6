------------------------ MODULE ContentLifecycleProofs ------------------------
(***************************************************************************)
(* Proofs about ContentLifecycle, for any number of sessions, operations,  *)
(* texts and faults: what is in review passed its gates, an item is posted *)
(* once, and what is live was shown, each but for the cases it names.      *)
(*                                                                         *)
(* All three rest on what the constraint on version numbers is worth.  A   *)
(* session writes what it worked out from an item it read earlier, onto a  *)
(* row that may have changed since.  The invariant says of every session   *)
(* that the row it would write to is no older than what it read, and, when *)
(* it has the same version, differs from it at most by its status and by a *)
(* text stored without a snapshot; a write that takes a snapshot therefore *)
(* lands on the row it was worked out from, or is refused.                 *)
(***************************************************************************)
EXTENDS ContentLifecycle, TLAPS

\* The statuses from the first review on; none of them is left for an earlier one.
After == Decisive \cup {"rejected", "changes_requested"}

\* The status changes the operations make.
Moves(a, b) ==
  \/ a = "idea" /\ b = "briefed"
  \/ a \in {"briefed", "drafting"} /\ b = "editing"
  \/ a = "editing" /\ b = "qa"
  \/ a \in {"editing", "qa"} /\ b = "review"
  \/ a = "review" /\ b \in {"approved", "scheduled", "rejected", "changes_requested"}
  \/ a \in Publishable /\ b = "publishing"
  \/ a = "publishing" /\ b \in {"published", "approved"}

\* What an operation may make of the item it read.
Worked(old, new) ==
  /\ new.version \in {old.version, old.version + 1}
  /\ new.body # old.body => new.body \in Drafts
  /\ new.scored # old.scored => new.scored = new.body /\ new.version = old.version + 1
  /\ new.ref # old.ref => old.ref = 0 /\ new.version = old.version + 1
  /\ new.status # old.status =>
       /\ Moves(old.status, new.status)
       /\ new.status \in Decisive => new.body = old.body
       /\ new.status = "review" =>
            /\ new.version = old.version + 1
            /\ new.body \in Complete /\ run_gates(new.scored)
            /\ new.scored = old.scored

\* How a row may have changed since it was read.
Grown(free, old, new) ==
  /\ old.version <= new.version
  /\ new.version = old.version =>
       /\ new.scored = old.scored /\ new.ref = old.ref
       /\ new.body = old.body \/ new.body \in free

\* The scores of a row are of its text, or it was stored without them.
Scored(free, i) == i.body = i.scored \/ i.body \in free

Gated(free, past, i) ==
  i.status = "review" => i.body \in (Sound \cap Complete) \cup free \cup past

\* Nothing was looked at before the review, and what is past it was.
Shown(seen, past, i) ==
  /\ seen # {} => i.status \in After
  /\ i.status \in Decisive => seen = {} \/ i.body \in seen \cup past
  /\ i.status \in Decisive \ {"review"} => seen # {}

Rows == {item} \cup {tx[s].mine : s \in {t \in Sessions : tx[t].holds}}

OneHolder == \A s, t \in Sessions : tx[s].holds /\ tx[t].holds => s = t

\* What each session has in hand.
InHand ==
  \A s \in Sessions :
    /\ Worked(tx[s].read, tx[s].will)
    /\ tx[s].stage \in {"idle", "open", "posting"} => tx[s].will = tx[s].read
    /\ tx[s].stage # "recording" => tx[s].will.ref = tx[s].read.ref
    /\ tx[s].stage = "claiming" => tx[s].will.body = tx[s].read.body
    /\ tx[s].stage = "claiming" => tx[s].will.status = "publishing"
    /\ tx[s].stage \in {"posting", "recording"} => tx[s].read.status = "publishing"
    /\ tx[s].stage = "idle" => ~tx[s].holds /\ tx[s].made = 0

Coherent ==
  /\ Grown(loose, NoItem, item)
  /\ \A s \in Sessions :
       /\ Scored(loose, tx[s].read)
       /\ Grown(loose, tx[s].read, Visible(s))
       /\ tx[s].holds => Grown(loose, item, tx[s].mine)

ScoresKept == \A i \in Rows : Scored(loose, i) /\ Gated(loose, late, i)

\* A post is in the row, on its way there, or an orphan; the row keeps it.
PostsKept ==
  /\ PostedOnceUnlessUnrecorded
  /\ \A s \in Sessions :
       /\ tx[s].made \in 0..Len(cms)
       /\ tx[s].holds /\ item.ref # 0 => tx[s].mine.ref = item.ref
       /\ tx[s].stage = "recording" /\ tx[s].will.ref # tx[s].read.ref =>
            tx[s].made = tx[s].will.ref
       /\ tx[s].made # 0 =>
            \/ /\ tx[s].holds /\ tx[s].mine.ref = tx[s].made
               /\ tx[s].stage \in {"claiming", "posting"} => tx[s].read.ref = tx[s].made
            \/ tx[s].stage = "recording" /\ tx[s].will.ref # tx[s].read.ref

ShownKept ==
  /\ \A i \in Rows : Shown(looked, late, i)
  /\ \A s \in Sessions :
       /\ tx[s].holds /\ item.status \in Decisive /\ tx[s].mine.status \in Decisive =>
            tx[s].mine.body \in {item.body} \cup late
       /\ tx[s].holds /\ item.status \in After => tx[s].mine.status \in After
       /\ tx[s].stage \in {"claiming", "posting"} => tx[s].read.body \in looked \cup late
       /\ /\ tx[s].stage = "writing" /\ tx[s].will.status # tx[s].read.status
          /\ tx[s].will.status \in Decisive \ {"review"}
          => looked # {}
  /\ \A p \in DOMAIN cms : cms[p] \in looked \cup late

IInv ==
  /\ TypeOK /\ OneHolder /\ InHand /\ Coherent /\ ScoresKept /\ PostsKept
  /\ overtaken \/ ShownKept

-----------------------------------------------------------------------------
\* The columns of a write.
LEMMA OntoColumns ==
  ASSUME NEW base \in Items, NEW old \in Items, NEW new \in Items
  PROVE  /\ Onto(base, old, new) \in Items
         /\ Onto(base, old, new).status = IF new.status = old.status THEN base.status ELSE new.status
         /\ Onto(base, old, new).body = IF new.body = old.body THEN base.body ELSE new.body
         /\ Onto(base, old, new).scored = IF new.scored = old.scored THEN base.scored ELSE new.scored
         /\ Onto(base, old, new).version = IF new.version = old.version THEN base.version ELSE new.version
         /\ Onto(base, old, new).ref = IF new.ref = old.ref THEN base.ref ELSE new.ref
BY DEF Onto, Items

\* A text in a new write is in the history of the unscored ones, unless its
\* scores were stored with it.
Loosened(old, new) ==
  IF new.body # old.body /\ (new.version = old.version \/ new.scored # new.body)
  THEN loose \cup {new.body} ELSE loose

Delayed(base, old, new) ==
  IF new.body # old.body /\ base.status \in Decisive THEN late \cup {new.body} ELSE late

\* A write with a snapshot that is not refused lands on the version it was
\* worked out from.
LEMMA SnapshotOnWhatWasRead ==
  ASSUME NEW base \in Items, NEW old \in Items, NEW new \in Items,
         Worked(old, new), Grown(loose, old, base), ~Taken(base, old, new),
         new.version # old.version
  PROVE  /\ base.version = old.version /\ new.version = old.version + 1
         /\ base.scored = old.scored /\ base.ref = old.ref
         /\ base.body = old.body \/ base.body \in loose
<1>1. base.version \in Nat /\ old.version \in Nat /\ new.version = old.version + 1
  BY DEF Items, Worked
<1>2. old.version <= base.version /\ ~(new.version <= base.version)
  BY <1>1 DEF Grown, Taken
<1>3. base.version = old.version
  BY <1>1, <1>2
<1> QED BY <1>1, <1>3 DEF Grown

\* A write worked out from a row that has only grown since makes it grow again,
\* unless the version number refuses it.
LEMMA WriteGrows ==
  ASSUME NEW base \in Items, NEW old \in Items, NEW new \in Items,
         Worked(old, new), Grown(loose, old, base), ~Taken(base, old, new),
         loose' = Loosened(old, new)
  PROVE  /\ Grown(loose', base, Onto(base, old, new))
         /\ Grown(loose', new, Onto(base, old, new))
<1> DEFINE m == Onto(base, old, new)
<1>1. CASE new.version # old.version
  <2>1. /\ base.version = old.version /\ new.version = old.version + 1
        /\ base.scored = old.scored /\ base.ref = old.ref
        /\ base.body = old.body \/ base.body \in loose
    BY <1>1, SnapshotOnWhatWasRead
  <2>2. m.version = new.version /\ m.version \in Nat /\ old.version \in Nat
    BY <1>1, OntoColumns DEF Items
  <2>3. Grown(loose', base, m)
    BY <2>1, <2>2 DEF Grown
  <2>4. m.scored = new.scored /\ m.ref = new.ref /\ (m.body = new.body \/ m.body \in loose)
    BY <2>1, OntoColumns
  <2> QED BY <2>2, <2>3, <2>4 DEF Grown, Loosened
<1>2. CASE new.version = old.version
  <2>1. m.version = base.version /\ base.version \in Nat /\ old.version \in Nat
    BY <1>2, OntoColumns DEF Items
  <2>2. new.scored = old.scored /\ new.ref = old.ref
    BY <1>2, <2>1 DEF Worked
  <2>3. m.scored = base.scored /\ m.ref = base.ref
        /\ (m.body = base.body \/ (new.body # old.body /\ m.body = new.body))
        /\ (m.body = new.body \/ (new.body = old.body /\ m.body = base.body))
    BY <2>2, OntoColumns
  <2>4. Grown(loose', base, m)
    BY <1>2, <2>1, <2>3 DEF Grown, Loosened
  <2>5. Grown(loose', new, m)
    BY <1>2, <2>1, <2>2, <2>3 DEF Grown, Loosened
  <2> QED BY <2>4, <2>5
<1> QED BY <1>1, <1>2

\* What a write leaves has its scores, and in review it passed.
LEMMA WriteKeepsScores ==
  ASSUME NEW base \in Items, NEW old \in Items, NEW new \in Items,
         Worked(old, new), Grown(loose, old, base), ~Taken(base, old, new),
         Scored(loose, old), Scored(loose, base), Gated(loose, late, base),
         loose' = Loosened(old, new), late' = Delayed(base, old, new)
  PROVE  /\ Scored(loose', new)
         /\ Scored(loose', Onto(base, old, new)) /\ Gated(loose', late', Onto(base, old, new))
<1> DEFINE m == Onto(base, old, new)
<1>0. loose \subseteq loose' /\ late \subseteq late' /\ old.version \in Nat
  BY DEF Loosened, Delayed, Items
<1>1. Scored(loose', new)
  BY <1>0 DEF Scored, Loosened, Worked
<1>2. Scored(loose', m)
  <2>1. CASE new.body # old.body
    <3>1. m.body = new.body
      BY <2>1, OntoColumns
    <3>2. CASE new.version = old.version \/ new.scored # new.body
      BY <2>1, <3>1, <3>2 DEF Scored, Loosened
    <3>3. CASE new.version # old.version /\ new.scored = new.body
      <4>1. base.scored = old.scored
        BY <3>3, SnapshotOnWhatWasRead
      <4>2. m.scored = new.scored
        BY <4>1, OntoColumns
      <4> QED BY <3>1, <3>3, <4>2 DEF Scored
    <3> QED BY <3>2, <3>3
  <2>2. CASE new.body = old.body
    <3>1. m.body = base.body
      BY <2>2, OntoColumns
    <3>2. CASE new.scored = old.scored
      <4>1. m.scored = base.scored
        BY <3>2, OntoColumns
      <4> QED BY <1>0, <3>1, <4>1 DEF Scored
    <3>3. CASE new.scored # old.scored
      <4>1. new.scored = new.body /\ new.version # old.version
        BY <1>0, <3>3 DEF Worked
      <4>2. m.scored = new.scored /\ (base.body = old.body \/ base.body \in loose)
        BY <3>3, <4>1, SnapshotOnWhatWasRead, OntoColumns
      <4> QED BY <1>0, <2>2, <3>1, <4>1, <4>2 DEF Scored
    <3> QED BY <3>2, <3>3
  <2> QED BY <2>1, <2>2
<1>3. Gated(loose', late', m)
  <2> SUFFICES ASSUME m.status = "review"
               PROVE  m.body \in (Sound \cap Complete) \cup loose' \cup late'
    BY DEF Gated
  <2>1. CASE new.status = old.status
    <3>1. base.status = "review"
      BY <2>1, OntoColumns
    <3>2. CASE new.body = old.body
      <4>1. m.body = base.body
        BY <3>2, OntoColumns
      <4> QED BY <1>0, <3>1, <4>1 DEF Gated
    <3>3. CASE new.body # old.body
      <4>1. m.body = new.body /\ new.body \in late'
        BY <3>1, <3>3, OntoColumns DEF Delayed, Decisive
      <4> QED BY <4>1
    <3> QED BY <3>2, <3>3
  <2>2. CASE new.status # old.status
    <3>1. new.status = "review"
      BY <2>2, OntoColumns
    <3>2. /\ new.version # old.version /\ new.body = old.body
          /\ new.body \in Complete /\ run_gates(new.scored) /\ new.scored = old.scored
      BY <1>0, <2>2, <3>1 DEF Worked, Decisive
    <3>3. m.body = base.body /\ (base.body = old.body \/ base.body \in loose)
      BY <3>2, SnapshotOnWhatWasRead, OntoColumns
    <3>4. CASE base.body = old.body /\ old.body = old.scored
      BY <3>2, <3>3, <3>4, ContentAssumption DEF run_gates
    <3> QED BY <1>0, <3>3, <3>4 DEF Scored
  <2> QED BY <2>1, <2>2
<1> QED BY <1>1, <1>2, <1>3

\* What a write leaves is before the review, or was shown when it is past it.
LEMMA WriteKeepsShown ==
  ASSUME NEW base \in Items, NEW old \in Items, NEW new \in Items,
         Worked(old, new), Shown(looked, late, base),
         new.status # old.status => base.status = old.status,
         new.status # old.status /\ old.status = "review" /\ new.status \in Decisive => looked # {},
         late' = Delayed(base, old, new), looked' = looked
  PROVE  /\ Shown(looked', late', Onto(base, old, new))
         /\ base.status \in After => Onto(base, old, new).status \in After
         /\ base.status \in After /\ Onto(base, old, new).status \in Decisive =>
              base.status \in Decisive /\ Onto(base, old, new).body \in {base.body} \cup late'
<1> DEFINE m == Onto(base, old, new)
<1>0. late \subseteq late'
  BY DEF Delayed
<1>1. CASE new.status = old.status
  <2>1. m.status = base.status
    BY <1>1, OntoColumns
  <2>2. CASE new.body = old.body
    <3>1. m.body = base.body
      BY <2>2, OntoColumns
    <3> QED BY <1>0, <2>1, <3>1 DEF Shown
  <2>3. CASE new.body # old.body
    <3>1. m.body = new.body /\ (base.status \in Decisive => new.body \in late')
      BY <2>3, OntoColumns DEF Delayed
    <3> QED BY <1>0, <2>1, <3>1 DEF Shown
  <2> QED BY <2>2, <2>3
<1>2. CASE new.status # old.status
  <2>1. /\ m.status = new.status /\ base.status = old.status
        /\ Moves(base.status, m.status)
        /\ m.status \in Decisive => m.body = base.body
    BY <1>2, OntoColumns DEF Worked
  <2>2. base.status \in After => m.status \in After
    BY <2>1 DEF Moves, After, Decisive, Publishable
  <2>3. base.status \in After /\ m.status \in Decisive => base.status \in Decisive
    BY <2>1 DEF Moves, After, Decisive, Publishable
  <2>4. m.status \in Decisive => looked = {} \/ m.body \in looked \cup late
    BY <2>1, <2>3 DEF Shown
  <2>5. m.status \in Decisive \ {"review"} => looked # {}
    <3> SUFFICES ASSUME m.status \in Decisive \ {"review"}
                 PROVE  looked # {}
      OBVIOUS
    <3>1. old.status = "review" \/ base.status \in Decisive \ {"review"}
      BY <2>1 DEF Moves, Decisive, Publishable
    <3> QED BY <1>2, <2>1, <3>1 DEF Shown
  <2> QED BY <1>0, <2>1, <2>2, <2>3, <2>4, <2>5 DEF Shown
<1> QED BY <1>1, <1>2

-----------------------------------------------------------------------------
\* What the operations make of an item.
LEMMA Statuses ==
  DOMAIN TRANSITIONS =
    {"idea", "briefed", "drafting", "editing", "qa", "review", "changes_requested", "approved",
     "scheduled", "publishing", "published", "updating", "rejected", "archived"}
BY DEF TRANSITIONS

\* A change of status keeps the other columns.
LEMMA StatusColumns ==
  ASSUME NEW i \in Items, NEW st \in DOMAIN TRANSITIONS
  PROVE  LET j == [i EXCEPT !.status = st]
         IN /\ j \in Items /\ j.status = st /\ j.body = i.body /\ j.scored = i.scored
            /\ j.version = i.version /\ j.ref = i.ref
BY DEF Items

\* A snapshot keeps the columns and counts the version on.
LEMMA SnapshotColumns ==
  ASSUME NEW i \in Items
  PROVE  /\ snapshot(i) \in Items /\ snapshot(i).status = i.status /\ snapshot(i).body = i.body
         /\ snapshot(i).scored = i.scored /\ snapshot(i).version = i.version + 1
         /\ snapshot(i).ref = i.ref
BY DEF Items, snapshot

\* A transition is both.
LEMMA MovedColumns ==
  ASSUME NEW i \in Items, NEW st \in DOMAIN TRANSITIONS
  PROVE  LET j == snapshot([i EXCEPT !.status = st])
         IN /\ j \in Items /\ j.status = st /\ j.body = i.body /\ j.scored = i.scored
            /\ j.version = i.version + 1 /\ j.ref = i.ref
<1> DEFINE k == [i EXCEPT !.status = st]
<1>1. /\ k \in Items /\ k.status = st /\ k.body = i.body /\ k.scored = i.scored
      /\ k.version = i.version /\ k.ref = i.ref
  BY StatusColumns
<1> HIDE DEF k
<1>2. /\ snapshot(k) \in Items /\ snapshot(k).status = st /\ snapshot(k).body = i.body
      /\ snapshot(k).scored = i.scored /\ snapshot(k).version = i.version + 1
      /\ snapshot(k).ref = i.ref
  BY <1>1, SnapshotColumns
<1> QED BY <1>2 DEF k

\* A transition is refused, or it changes the status and takes a snapshot.
LEMMA TransitionColumns ==
  ASSUME NEW i \in Items, NEW to \in DOMAIN TRANSITIONS, NEW j, j = transition(i, to), j # i
  PROVE  /\ j \in Items /\ j.status = to /\ j.body = i.body /\ j.scored = i.scored
         /\ j.version = i.version + 1 /\ j.ref = i.ref
         /\ to = "review" => j.body \in Complete /\ run_gates(j.scored)
<1>1. j = snapshot([i EXCEPT !.status = to]) /\ ~Refused(i, to)
  BY DEF transition
<1>2. /\ j \in Items /\ j.status = to /\ j.body = i.body /\ j.scored = i.scored
      /\ j.version = i.version + 1 /\ j.ref = i.ref
  BY <1>1, MovedColumns
<1>3. to = "review" => i.body \in Complete /\ run_gates(i.scored)
  BY <1>1 DEF Refused, failing_gates
<1> QED BY <1>2, <1>3

\* Leaving an item as it is counts as working on it.
LEMMA StayingWorks ==
  ASSUME NEW i \in Items
  PROVE  Worked(i, i)
BY DEF Worked

\* So does a permitted transition.
LEMMA transitionWorks ==
  ASSUME NEW i \in Items, NEW to \in DOMAIN TRANSITIONS, Moves(i.status, to)
  PROVE  transition(i, to) \in Items /\ Worked(i, transition(i, to))
         /\ transition(i, to).ref = i.ref
<1>1. i.version \in Nat
  BY DEF Items
<1> QED BY <1>1, TransitionColumns DEF Worked

\* So does whatever an agent writes; of the decisive statuses it gives only review.
LEMMA AgentWritesWork ==
  ASSUME NEW i \in Items, NEW w \in AgentWrites(i)
  PROVE  /\ w \in Items /\ Worked(i, w) /\ w.ref = i.ref
         /\ w.status # i.status => w.status \notin Decisive \ {"review"}
<1>0. i.version \in Nat
  BY DEF Items
<1>1. CASE w = save_brief(i)
  <2>1. w = i \/ (i.status = "idea" /\ w = transition(i, "briefed"))
    BY <1>1 DEF save_brief
  <2>2. CASE w = i
    BY <2>2, StayingWorks
  <2>3. CASE i.status = "idea" /\ w = transition(i, "briefed")
    <3>1. "briefed" \in DOMAIN TRANSITIONS /\ Moves(i.status, "briefed")
      BY <2>3, Statuses DEF Moves
    <3>2. w.status \in {i.status, "briefed"}
      BY <2>3, <3>1, TransitionColumns
    <3> QED BY <2>3, <3>1, <3>2, transitionWorks DEF Decisive
  <2> QED BY <2>1, <2>2, <2>3
<1>2. CASE w = submit_for_review(i)
  <2> DEFINE q == IF i.status = "editing" THEN [i EXCEPT !.status = "qa"] ELSE i
  <2>0. {"qa", "review"} \subseteq DOMAIN TRANSITIONS
    BY Statuses
  <2>1. /\ q \in Items /\ q.body = i.body /\ q.scored = i.scored /\ q.version = i.version
        /\ q.ref = i.ref /\ q.status = IF i.status = "editing" THEN "qa" ELSE i.status
    BY <2>0, StatusColumns
  <2>2. w = transition(q, "review")
    BY <1>2 DEF submit_for_review
  <2> HIDE DEF q
  <2>3. CASE w = q
    BY <1>0, <2>1, <2>3 DEF Worked, Moves, Decisive
  <2>4. CASE w # q
    <3>1. /\ w \in Items /\ w.status = "review" /\ w.body = q.body /\ w.scored = q.scored
          /\ w.version = q.version + 1 /\ w.ref = q.ref
          /\ w.body \in Complete /\ run_gates(w.scored)
      BY <2>0, <2>1, <2>2, <2>4, TransitionColumns
    <3>2. "review" \in TRANSITIONS[q.status]
      BY <2>2, <2>4 DEF transition, Refused
    <3>3. q.status = "qa"
      BY <2>1, <3>2, Statuses DEF Items, TRANSITIONS
    <3>4. i.status = "editing" \/ i.status = "qa"
      BY <2>1, <3>3
    <3> QED BY <1>0, <2>1, <3>1, <3>4 DEF Worked, Moves, Decisive
  <2> QED BY <2>3, <2>4
<1>3. ASSUME NEW d \in Drafts, NEW a \in BOOLEAN, w = save_draft(i, d, a)
      PROVE  /\ w \in Items /\ Worked(i, w) /\ w.ref = i.ref
             /\ w.status # i.status => w.status \notin Decisive \ {"review"}
  <2> DEFINE saved == [i EXCEPT !.body = d, !.scored = d]
             begun == [saved EXCEPT !.status = "drafting"]
  <2>0. {"drafting", "editing"} \subseteq DOMAIN TRANSITIONS
    BY Statuses
  <2>1. /\ saved \in Items /\ saved.body = d /\ saved.scored = d /\ saved.status = i.status
        /\ saved.version = i.version /\ saved.ref = i.ref
    BY DEF Items
  <2>2. /\ begun \in Items /\ begun.body = d /\ begun.scored = d /\ begun.status = "drafting"
        /\ begun.version = i.version /\ begun.ref = i.ref
    BY <2>0, <2>1, StatusColumns
  <2>3. w = IF a /\ i.status \in {"briefed", "drafting"} THEN transition(begun, "editing")
            ELSE snapshot(saved)
    BY <1>3 DEF save_draft
  <2> HIDE DEF saved, begun
  <2>4. CASE ~(a /\ i.status \in {"briefed", "drafting"})
    <3>1. /\ w \in Items /\ w.status = i.status /\ w.body = d /\ w.scored = d
          /\ w.version = i.version + 1 /\ w.ref = i.ref
      BY <2>1, <2>3, <2>4, SnapshotColumns
    <3> QED BY <1>0, <3>1 DEF Worked
  <2>5. CASE a /\ i.status \in {"briefed", "drafting"}
    <3>1. w = snapshot([begun EXCEPT !.status = "editing"])
      <4>1. "editing" \in TRANSITIONS["drafting"]
        BY DEF TRANSITIONS
      <4> QED BY <2>2, <2>3, <2>5, <4>1 DEF transition, Refused
    <3>2. /\ w \in Items /\ w.status = "editing" /\ w.body = d /\ w.scored = d
          /\ w.version = i.version + 1 /\ w.ref = i.ref
      BY <2>0, <2>2, <3>1, MovedColumns
    <3> QED BY <1>0, <2>5, <3>2 DEF Worked, Moves, Decisive
  <2> QED BY <2>4, <2>5
<1> QED BY <1>1, <1>2, <1>3 DEF AgentWrites

\* So does whatever a client writes; its status moves only once somebody has looked.
LEMMA ClientWritesWork ==
  ASSUME NEW i \in Items, NEW w \in ClientWrites(i)
  PROVE  /\ w \in Items /\ Worked(i, w) /\ w.ref = i.ref
         /\ w.status # i.status => looked # {}
<1>0. i.version \in Nat
  BY DEF Items
<1>1. ASSUME NEW to \in Decisions, w = Decided(i, to)
      PROVE  w \in Items /\ Worked(i, w) /\ w.ref = i.ref
  <2>0. Decisions \subseteq DOMAIN TRANSITIONS
    BY Statuses DEF Decisions
  <2>1. CASE i.status # "review"
    <3>1. w = i
      BY <1>1, <2>1 DEF Decided
    <3> QED BY <3>1, StayingWorks
  <2>2. CASE i.status = "review" /\ to # "scheduled"
    <3>1. w = transition(i, to)
      BY <1>1, <2>2 DEF Decided
    <3> QED BY <2>0, <2>2, <3>1, transitionWorks DEF Moves, Decisions
  <2>3. CASE i.status = "review" /\ to = "scheduled"
    <3> DEFINE j == transition(i, "approved")
    <3>1. w = [j EXCEPT !.status = "scheduled"]
      BY <1>1, <2>3 DEF Decided
    <3>2. /\ j \in Items /\ j.body = i.body /\ j.scored = i.scored
          /\ j.version = i.version + 1 /\ j.ref = i.ref
      <4>1. "approved" \in TRANSITIONS["review"]
        BY DEF TRANSITIONS
      <4>2. j = snapshot([i EXCEPT !.status = "approved"])
        BY <2>3, <4>1 DEF transition, Refused
      <4> QED BY <2>0, <4>2, MovedColumns DEF Decisions
    <3> HIDE DEF j
    <3>3. /\ w \in Items /\ w.status = "scheduled" /\ w.body = i.body /\ w.scored = i.scored
          /\ w.version = i.version + 1 /\ w.ref = i.ref
      BY <2>0, <3>1, <3>2, StatusColumns DEF Decisions
    <3> QED BY <1>0, <2>3, <3>3 DEF Worked, Moves
  <2> QED BY <2>1, <2>2, <2>3
<1>2. ASSUME NEW d \in Drafts, w = edit_content(i, d)
      PROVE  w \in Items /\ Worked(i, w) /\ w.ref = i.ref /\ w.status = i.status
  <2> DEFINE j == [i EXCEPT !.body = d]
  <2>1. /\ j \in Items /\ j.status = i.status /\ j.body = d /\ j.scored = i.scored
        /\ j.version = i.version /\ j.ref = i.ref
    BY DEF Items
  <2>2. w = snapshot(j)
    BY <1>2 DEF edit_content
  <2> HIDE DEF j
  <2> QED BY <1>0, <2>1, <2>2, SnapshotColumns DEF Worked
<1> QED BY <1>1, <1>2 DEF ClientWrites

\* So does a text stored without its scores.
LEMMA UnscoredWorks ==
  ASSUME NEW i \in Items, NEW d \in Drafts
  PROVE  /\ Unscored(i, d) \in Items /\ Worked(i, Unscored(i, d))
         /\ Unscored(i, d).ref = i.ref /\ Unscored(i, d).status = i.status
<1> DEFINE j == [i EXCEPT !.body = d]
<1>1. /\ j \in Items /\ j.status = i.status /\ j.body = d /\ j.scored = i.scored
      /\ j.version = i.version /\ j.ref = i.ref /\ i.version \in Nat
  BY DEF Items
<1>2. Unscored(i, d) = j
  BY DEF Unscored
<1> HIDE DEF j
<1> QED BY <1>1, <1>2 DEF Worked

-----------------------------------------------------------------------------
\* The row a session sees is one of the rows.
LEMMA VisibleRow ==
  ASSUME TypeOK, NEW s \in Sessions
  PROVE  Visible(s) \in Items /\ Visible(s) \in Rows
BY DEF Visible, Rows, TypeOK, Txs

\* The initial states satisfy the invariant.
LEMMA InitHolds == Init => IInv
<1> SUFFICES ASSUME Init PROVE IInv
  OBVIOUS
<1>0. NoItem \in Items /\ NoItem.status = "idea" /\ NoItem.body = Null /\ NoItem.scored = Null
      /\ NoItem.version = 1 /\ NoItem.ref = 0
  BY Statuses DEF NoItem, Items
<1>1. /\ Idle \in Txs /\ Idle.stage = "idle" /\ Idle.read = NoItem /\ Idle.will = NoItem
      /\ Idle.holds = FALSE /\ Idle.made = 0 /\ item = NoItem /\ cms = <<>> /\ looked = {}
      /\ \A s \in Sessions : tx[s] = Idle
  BY <1>0 DEF Idle, Txs, Init
<1> HIDE DEF NoItem, Idle
<1>2. TypeOK
  <2>1. tx \in [Sessions -> Txs]
    BY <1>1 DEF Init
  <2>2. cms \in Seq(Drafts \cup {Null}) /\ Len(cms) = 0
    BY <1>1
  <2>3. ops \in 0..MaxOps /\ faults \in 0..MaxFaults
    BY ContentAssumption DEF Init
  <2> QED BY <1>0, <1>1, <2>1, <2>2, <2>3 DEF TypeOK, Init
<1>3. OneHolder /\ InHand
  BY <1>0, <1>1, StayingWorks DEF OneHolder, InHand
<1>4. Rows = {NoItem}
  BY <1>1 DEF Rows
<1>5. Coherent
  BY <1>0, <1>1 DEF Coherent, Scored, Grown, Visible
<1>6. ScoresKept
  BY <1>0, <1>4 DEF ScoresKept, Scored, Gated
<1>7. DOMAIN cms = {}
  BY <1>1
<1>8. PostsKept
  BY <1>0, <1>1, <1>7 DEF PostsKept, PostedOnceUnlessUnrecorded
<1>9. ShownKept
  BY <1>0, <1>1, <1>4, <1>7 DEF ShownKept, Shown, Decisive
<1> QED BY <1>2, <1>3, <1>5, <1>6, <1>8, <1>9 DEF IInv

\* An operation begins: the session reads the row and knows what to write.
LEMMA BeginKeeps ==
  ASSUME IInv, NEW s \in Sessions, Ready(s), NEW will \in Items,
         NEW stage \in {"writing", "claiming", "posting"},
         Worked(Visible(s), will), will.ref = Visible(s).ref,
         tx' = [tx EXCEPT ![s] = [tx[s] EXCEPT !.stage = stage, !.read = Visible(s), !.will = will]],
         stage = "writing" /\ will.status # Visible(s).status
           /\ will.status \in Decisive \ {"review"} => looked # {},
         stage = "claiming" => will.status = "publishing" /\ will.body = Visible(s).body
                               /\ Visible(s).status \in Publishable,
         stage = "posting" => will = Visible(s) /\ will.status = "publishing",
         ops' \in 0..MaxOps, faults' \in 0..MaxFaults,
         UNCHANGED <<item, cms, looked, loose, late, orphans, overtaken>>
  PROVE  IInv'
<1> DEFINE r == [tx[s] EXCEPT !.stage = stage, !.read = Visible(s), !.will = will]
<1>0. TypeOK /\ tx[s] \in Txs /\ Visible(s) \in Items /\ Visible(s) \in Rows
  BY VisibleRow DEF IInv, TypeOK
<1>1. /\ r \in Txs /\ r.stage = stage /\ r.read = Visible(s) /\ r.will = will
      /\ r.mine = tx[s].mine /\ r.holds = tx[s].holds /\ r.made = tx[s].made
  BY <1>0 DEF Txs
<1> HIDE DEF r
<1>2. /\ tx' \in [Sessions -> Txs] /\ tx'[s] = r
      /\ \A t \in Sessions \ {s} : tx'[t] = tx[t]
      /\ \A t \in Sessions : tx'[t].mine = tx[t].mine /\ tx'[t].holds = tx[t].holds
                             /\ tx'[t].made = tx[t].made
  BY <1>0, <1>1 DEF TypeOK, r
<1>3. Rows' = Rows /\ \A t \in Sessions : Visible(t)' = Visible(t)
  BY <1>2 DEF Rows, Visible
<1>4. TypeOK'
  BY <1>0, <1>2 DEF TypeOK
<1>5. OneHolder'
  BY <1>2 DEF OneHolder, IInv
<1>6. InHand'
  <2>1. tx[s].stage = "idle" => ~tx[s].holds /\ tx[s].made = 0
    BY DEF IInv, InHand
  <2> QED BY <1>1, <1>2, <2>1 DEF InHand, IInv
<1>7. Coherent'
  <2>1. Scored(loose, Visible(s)) /\ Grown(loose, Visible(s), Visible(s))
    BY <1>0 DEF IInv, ScoresKept, Grown, Items
  <2> QED BY <1>1, <1>2, <1>3, <2>1 DEF Coherent, IInv, Scored, Grown
<1>8. ScoresKept'
  BY <1>3 DEF ScoresKept, IInv, Scored, Gated
<1>9. PostsKept'
  <2>1. tx[s].made # 0 => tx[s].holds /\ tx[s].mine.ref = tx[s].made /\ Visible(s).ref = tx[s].made
    BY DEF IInv, InHand, PostsKept, Ready, Visible
  <2>2. PostedOnceUnlessUnrecorded'
    BY <1>2 DEF IInv, PostsKept, PostedOnceUnlessUnrecorded
  <2> QED BY <1>1, <1>2, <2>1, <2>2 DEF IInv, PostsKept
<1>10. ASSUME ~overtaken PROVE ShownKept'
  <2>1. ShownKept /\ (Visible(s).status \in Publishable => Visible(s).body \in looked \cup late)
    BY <1>0, <1>10 DEF IInv, ShownKept, Shown, Publishable, Decisive
  <2>2. r.stage \in {"claiming", "posting"} => r.read.body \in looked \cup late
    BY <1>1, <2>1 DEF Publishable
  <2>3. \A i \in Rows' : Shown(looked', late', i)
    BY <1>3, <2>1 DEF ShownKept, Shown
  <2> QED BY <1>1, <1>2, <2>1, <2>2, <2>3 DEF ShownKept
<1> QED BY <1>4, <1>5, <1>6, <1>7, <1>8, <1>9, <1>10 DEF IInv

\* A session is rolled back: its post, if it made one, is an orphan.
LEMMA RollBackKeeps ==
  ASSUME IInv, NEW s \in Sessions, RollBack(s), faults' \in 0..MaxFaults,
         UNCHANGED <<item, cms, ops, looked>>
  PROVE  IInv'
<1>0. NoItem \in Items /\ NoItem.status = "idea" /\ NoItem.body = Null /\ NoItem.scored = Null
      /\ NoItem.version = 1 /\ NoItem.ref = 0
  BY Statuses DEF NoItem, Items
<1>1. /\ Idle \in Txs /\ Idle.stage = "idle" /\ Idle.read = NoItem /\ Idle.will = NoItem
      /\ Idle.holds = FALSE /\ Idle.made = 0
  BY <1>0 DEF Idle, Txs
<1> HIDE DEF NoItem, Idle
<1>2. /\ TypeOK /\ tx' \in [Sessions -> Txs] /\ tx'[s] = Idle
      /\ \A t \in Sessions \ {s} : tx'[t] = tx[t]
      /\ orphans' = orphans \cup ({tx[s].made} \ {0})
      /\ UNCHANGED <<item, cms, ops, looked, loose, late, overtaken>>
  BY <1>1 DEF RollBack, IInv, TypeOK
<1>3. Rows' \subseteq Rows /\ (\A t \in Sessions \ {s} : Visible(t)' = Visible(t))
      /\ Visible(s)' = item
  BY <1>1, <1>2 DEF Rows, Visible
<1>4. TypeOK'
  <2>1. tx[s].made \in 0..Len(cms) /\ Len(cms) \in Nat
    BY <1>2 DEF IInv, PostsKept, TypeOK
  <2>2. {tx[s].made} \ {0} \subseteq 1..Len(cms)
    BY <2>1
  <2>3. orphans' \subseteq 1..Len(cms)
    BY <1>2, <2>2 DEF TypeOK
  <2> QED BY <1>2, <2>3 DEF TypeOK
<1>5. OneHolder'
  BY <1>1, <1>2 DEF OneHolder, IInv
<1>6. InHand'
  BY <1>0, <1>1, <1>2, StayingWorks DEF InHand, IInv
<1>7. Coherent'
  BY <1>0, <1>1, <1>2, <1>3 DEF Coherent, IInv, Scored, Grown
<1>8. ScoresKept'
  BY <1>2, <1>3 DEF ScoresKept, IInv, Scored, Gated
<1>9. PostsKept'
  <2>1. PostedOnceUnlessUnrecorded'
    <3>1. \A t \in Sessions : tx[t].made \in orphans' \cup {tx'[u].made : u \in Sessions} \cup {0}
      BY <1>2
    <3>2. 0 \notin DOMAIN cms
      BY <1>2 DEF TypeOK
    <3> QED BY <1>2, <3>1, <3>2 DEF IInv, PostsKept, PostedOnceUnlessUnrecorded
  <2>2. 0 \in 0..Len(cms)
    BY <1>2 DEF TypeOK
  <2> QED BY <1>0, <1>1, <1>2, <2>1, <2>2 DEF IInv, PostsKept
<1>10. ASSUME ~overtaken PROVE ShownKept'
  BY <1>1, <1>2, <1>3, <1>10 DEF IInv, ShownKept, Shown
<1> QED BY <1>2, <1>4, <1>5, <1>6, <1>7, <1>8, <1>9, <1>10 DEF IInv

\* A write is flushed: refused by the constraint, or it is the row from now on.
LEMMA FlushKeeps ==
  ASSUME IInv, NEW s \in Sessions, NEW stage \in {"open", "posting"},
         tx[s].stage \in {"writing", "claiming", "recording"},
         stage = "posting" <=> tx[s].stage = "claiming",
         Flush(s, [tx[s] EXCEPT !.stage = stage]),
         UNCHANGED <<item, cms, ops, faults, looked>>
  PROVE  IInv'
<1> DEFINE old == tx[s].read
           new == tx[s].will
           base == Visible(s)
           m == Onto(base, old, new)
           r == [tx[s] EXCEPT !.stage = stage]
           q == [r EXCEPT !.read = new, !.mine = m, !.holds = TRUE]
<1>0. /\ TypeOK /\ tx[s] \in Txs /\ base \in Items /\ base \in Rows
      /\ old \in Items /\ new \in Items
      /\ Worked(old, new) /\ Grown(loose, old, base) /\ Scored(loose, old) /\ Scored(loose, base) /\ Gated(loose, late, base)
  BY VisibleRow DEF IInv, TypeOK, Txs, InHand, Coherent, ScoresKept
<1>1. r.will = new /\ \A t \in Sessions \ {s} : ~tx[t].holds
  BY <1>0 DEF Flush, Txs
<1>2. CASE Taken(base, old, new)
  <2>1. RollBack(s)
    BY <1>1, <1>2 DEF Flush
  <2>2. faults' \in 0..MaxFaults
    BY <1>0 DEF TypeOK
  <2> QED BY <2>1, <2>2, RollBackKeeps
<1>3. CASE ~Taken(base, old, new)
  <2>1. /\ tx' = [tx EXCEPT ![s] = q]
        /\ late' = Delayed(base, old, new) /\ loose' = Loosened(old, new)
        /\ overtaken' = (overtaken \/ (new.status # old.status /\ base.status # old.status))
        /\ UNCHANGED <<item, cms, ops, faults, looked, orphans>>
    BY <1>1, <1>3 DEF Flush, Delayed, Loosened
  <2>2. /\ m \in Items
        /\ m.ref = IF new.ref = old.ref THEN base.ref ELSE new.ref
    BY <1>0, OntoColumns
  <2>3. /\ Grown(loose', base, m) /\ Grown(loose', new, m)
        /\ Scored(loose', new) /\ Scored(loose', m) /\ Gated(loose', late', m)
    BY <1>0, <1>3, <2>1, WriteGrows, WriteKeepsScores
  <2>4. /\ new.ref # old.ref => /\ old.ref = 0 /\ base.ref = 0
                                /\ tx[s].stage = "recording" /\ tx[s].made = new.ref
    <3>1. new.ref # old.ref => old.ref = 0 /\ new.version # old.version
      BY <1>0 DEF Worked, Items
    <3>2. new.ref # old.ref => base.ref = old.ref
      BY <1>0, <1>3, <3>1, SnapshotOnWhatWasRead
    <3>3. new.ref # old.ref => tx[s].stage = "recording" /\ tx[s].made = new.ref
      BY DEF IInv, InHand, PostsKept
    <3> QED BY <3>1, <3>2, <3>3
  <2> HIDE DEF m
  <2>5. /\ q \in Txs /\ q.stage = stage /\ q.read = new /\ q.will = new /\ q.mine = m
        /\ q.holds = TRUE /\ q.made = tx[s].made
    BY <1>0, <2>2 DEF Txs
  <2> HIDE DEF q, r
  <2>6. /\ tx' \in [Sessions -> Txs] /\ tx'[s] = q
        /\ \A t \in Sessions \ {s} : tx'[t] = tx[t]
        /\ \A t \in Sessions : tx'[t].made = tx[t].made
    BY <1>0, <2>1, <2>5 DEF TypeOK
  <2>7. /\ Rows' = {item, m} /\ item \in Rows
        /\ Visible(s)' = m /\ \A t \in Sessions \ {s} : Visible(t)' = item /\ Visible(t) = item
    BY <1>1, <2>1, <2>5, <2>6 DEF Rows, Visible
  <2>8. loose \subseteq loose' /\ late \subseteq late'
    BY <2>1 DEF Loosened, Delayed
  <2>9. TypeOK'
    <3>1. loose' \subseteq Drafts /\ late' \subseteq Drafts
      BY <1>0, <2>1 DEF TypeOK, Loosened, Delayed, Worked
    <3>2. overtaken' \in BOOLEAN
      BY <2>1
    <3> QED BY <1>0, <2>1, <2>6, <3>1, <3>2 DEF TypeOK
  <2>10. OneHolder'
    BY <1>1, <2>5, <2>6 DEF OneHolder
  <2>11. InHand'
    <3>1. Worked(new, new)
      BY <1>0, StayingWorks
    <3>2. stage = "posting" => new.status = "publishing"
      BY DEF IInv, InHand
    <3> QED BY <2>5, <2>6, <3>1, <3>2 DEF InHand, IInv
  <2>12. Coherent'
    <3>1. Grown(loose, item, base) /\ Grown(loose, NoItem, item)
      BY <1>0 DEF IInv, Coherent, Visible, Grown, TypeOK, Items
    <3>2. Grown(loose', item, m)
      <4>1. item.version \in Nat /\ base.version \in Nat /\ m.version \in Nat
        BY <1>0, <2>2 DEF TypeOK, Items
      <4> QED BY <2>1, <2>3, <2>8, <3>1, <4>1 DEF Grown
    <3>3. Grown(loose', NoItem, item)
      BY <2>1, <2>8, <3>1 DEF Grown, NoItem
    <3>4. ASSUME NEW t \in Sessions \ {s}
          PROVE  /\ Scored(loose', tx'[t].read) /\ ~tx'[t].holds
                 /\ Grown(loose', tx[t].read, item)
      BY <1>1, <2>1, <2>6, <2>7, <2>8 DEF IInv, Coherent, Scored, Grown
    <3> QED BY <2>1, <2>3, <2>5, <2>6, <2>7, <3>2, <3>3, <3>4 DEF Coherent
  <2>13. ScoresKept'
    <3>1. Scored(loose', item) /\ Gated(loose', late', item)
      BY <2>1, <2>7, <2>8 DEF IInv, ScoresKept, Scored, Gated
    <3> QED BY <2>3, <2>7, <3>1 DEF ScoresKept
  <2>14. PostsKept'
    <3>1. PostedOnceUnlessUnrecorded'
      BY <2>1, <2>6 DEF IInv, PostsKept, PostedOnceUnlessUnrecorded
    <3>2. item.ref # 0 => m.ref = item.ref
      <4>1. item.ref # 0 => base.ref = item.ref
        BY DEF IInv, PostsKept, Visible
      <4> QED BY <2>2, <2>4, <4>1
    <3>3. tx[s].made # 0 => m.ref = tx[s].made
      <4>1. CASE new.ref # old.ref
        BY <2>2, <2>4, <4>1
      <4>2. CASE new.ref = old.ref
        BY <2>2, <4>2 DEF IInv, PostsKept, Visible
      <4> QED BY <4>1, <4>2
    <3>4. tx[s].made # 0 /\ stage = "posting" => new.ref = tx[s].made
      BY DEF IInv, PostsKept, InHand
    <3>5. tx[s].made \in 0..Len(cms)
      BY DEF IInv, PostsKept
    <3> QED BY <1>1, <2>1, <2>5, <2>6, <3>1, <3>2, <3>3, <3>4, <3>5 DEF IInv, PostsKept
  <2>15. ASSUME ~overtaken' PROVE ShownKept'
    <3>1. ~overtaken /\ ShownKept /\ (new.status # old.status => base.status = old.status)
      BY <2>1, <2>15 DEF IInv
    <3>2. new.status # old.status /\ old.status = "review" /\ new.status \in Decisive => looked # {}
      <4>1. tx[s].stage = "claiming" => new.status = "publishing"
        BY DEF IInv, InHand
      <4>2. tx[s].stage = "recording" => old.status = "publishing"
        BY DEF IInv, InHand
      <4>3. new.status # old.status => Moves(old.status, new.status)
        BY <1>0 DEF Worked
      <4>4. tx[s].stage = "writing" /\ new.status # old.status
              /\ new.status \in Decisive \ {"review"} => looked # {}
        BY <3>1 DEF ShownKept
      <4> QED BY <4>1, <4>2, <4>3, <4>4 DEF Moves, Publishable
    <3>3. Shown(looked, late, base) /\ Shown(looked, late, item)
      BY <1>0, <2>7, <3>1 DEF ShownKept
    <3>4. /\ Shown(looked', late', m) /\ (base.status \in After => m.status \in After)
          /\ base.status \in After /\ m.status \in Decisive =>
               base.status \in Decisive /\ m.body \in {base.body} \cup late'
      BY <1>0, <2>1, <3>1, <3>2, <3>3, WriteKeepsShown DEF m
    <3>5. /\ item.status \in After => base.status \in After
          /\ item.status \in Decisive /\ base.status \in Decisive =>
               base.body \in {item.body} \cup late
      BY <3>1 DEF ShownKept, Visible
    <3>6. Decisive \subseteq After
      BY DEF After
    <3>7. /\ item.status \in After => m.status \in After
          /\ item.status \in Decisive /\ m.status \in Decisive => m.body \in {item.body} \cup late'
      BY <2>8, <3>4, <3>5, <3>6
    <3>8. \A i \in Rows' : Shown(looked', late', i)
      BY <2>1, <2>7, <2>8, <3>3, <3>4 DEF Shown
    <3>9. stage = "posting" => new.body \in looked \cup late'
      BY <2>8, <3>1 DEF ShownKept, IInv, InHand
    <3>10. \A p \in DOMAIN cms' : cms'[p] \in looked' \cup late'
      BY <2>1, <2>8, <3>1 DEF ShownKept
    <3>11. ASSUME NEW t \in Sessions
           PROVE  /\ tx'[t].holds /\ item.status \in Decisive /\ tx'[t].mine.status \in Decisive =>
                       tx'[t].mine.body \in {item.body} \cup late'
                  /\ tx'[t].holds /\ item.status \in After => tx'[t].mine.status \in After
                  /\ tx'[t].stage \in {"claiming", "posting"} => tx'[t].read.body \in looked' \cup late'
                  /\ tx'[t].stage = "writing" /\ tx'[t].will.status # tx'[t].read.status
                       /\ tx'[t].will.status \in Decisive \ {"review"} => looked' # {}
      <4>1. CASE t = s
        BY <2>1, <2>5, <2>6, <3>7, <3>9, <4>1
      <4>2. CASE t # s
        BY <1>1, <2>1, <2>6, <2>8, <3>1, <4>2 DEF ShownKept
      <4> QED BY <4>1, <4>2
    <3> QED BY <2>1, <3>8, <3>10, <3>11 DEF ShownKept
  <2> QED BY <2>9, <2>10, <2>11, <2>12, <2>13, <2>14, <2>15 DEF IInv
<1> QED BY <1>2, <1>3

\* What the CMS has after a call: one text changed, or one post more.
LEMMA SentPosts ==
  ASSUME TypeOK, NEW i \in Items
  PROVE  /\ Sent(i) \in Seq(Drafts \cup {Null}) /\ Len(cms) \in Nat
         /\ i.ref = 0 => Len(Sent(i)) = Len(cms) + 1
         /\ i.ref # 0 => Len(Sent(i)) = Len(cms)
         /\ DOMAIN cms = 1..Len(cms) /\ DOMAIN Sent(i) = 1..Len(Sent(i))
         /\ \A p \in DOMAIN Sent(i) : Sent(i)[p] = i.body \/ (p \in DOMAIN cms /\ Sent(i)[p] = cms[p])
<1>1. cms \in Seq(Drafts \cup {Null}) /\ i.body \in Drafts \cup {Null}
  BY DEF TypeOK, Items
<1>2. CASE i.ref = 0
  BY <1>1, <1>2 DEF Sent
<1>3. CASE i.ref # 0
  <2>1. Sent(i) = [cms EXCEPT ![i.ref] = i.body]
    BY <1>3 DEF Sent
  <2>2. /\ Len(cms) \in Nat /\ DOMAIN cms = 1..Len(cms)
        /\ cms \in [1..Len(cms) -> Drafts \cup {Null}]
    BY <1>1
  <2>3. /\ Sent(i) \in [1..Len(cms) -> Drafts \cup {Null}]
        /\ \A p \in 1..Len(cms) : Sent(i)[p] \in {i.body, cms[p]}
    BY <1>1, <2>1, <2>2
  <2>4. Sent(i) \in Seq(Drafts \cup {Null}) /\ Len(Sent(i)) = Len(cms)
    BY <2>2, <2>3
  <2> QED BY <1>3, <2>2, <2>3, <2>4
<1> QED BY <1>2, <1>3

\* A step of one session that leaves what it read and what it holds alone, as
\* the calls of the CMS do.
LEMMA AnswerKeeps ==
  ASSUME IInv, NEW s \in Sessions, tx[s].stage = "posting", NEW r \in Txs,
         tx' = [tx EXCEPT ![s] = r], r.stage \in {"open", "recording"},
         r.read = tx[s].read, r.mine = tx[s].mine, r.holds = tx[s].holds,
         Worked(r.read, r.will), r.stage = "open" => r.will = r.read,
         cms' \in {cms, Sent(tx[s].read)},
         r.made = (IF r.will.ref # r.read.ref THEN r.will.ref ELSE tx[s].made),
         r.will.ref # r.read.ref => r.will.ref = Len(cms') /\ tx[s].read.ref = 0,
         DOMAIN cms' \subseteq DOMAIN cms \cup orphans' \cup {r.made},
         orphans \subseteq orphans', orphans' \subseteq 1..Len(cms'),
         faults' \in 0..MaxFaults,
         UNCHANGED <<item, ops, looked, loose, late, overtaken>>
  PROVE  IInv'
<1>0. /\ TypeOK /\ tx[s].read \in Items /\ tx[s].read.status = "publishing"
      /\ \A t \in Sessions : tx[t].made \in 0..Len(cms)
      /\ tx[s].made # 0 => tx[s].holds /\ tx[s].mine.ref = tx[s].made /\ tx[s].read.ref = tx[s].made
  BY DEF IInv, TypeOK, Txs, InHand, PostsKept
<1>1. /\ tx' \in [Sessions -> Txs] /\ tx'[s] = r
      /\ \A t \in Sessions \ {s} : tx'[t] = tx[t]
      /\ \A t \in Sessions : tx'[t].mine = tx[t].mine /\ tx'[t].holds = tx[t].holds
                             /\ tx'[t].read = tx[t].read
  BY <1>0 DEF TypeOK
<1>2. Rows' = Rows /\ \A t \in Sessions : Visible(t)' = Visible(t)
  BY <1>1 DEF Rows, Visible
<1>3. /\ cms' \in Seq(Drafts \cup {Null}) /\ Len(cms) \in Nat /\ Len(cms') \in Nat
      /\ Len(cms) <= Len(cms')
      /\ \A p \in DOMAIN cms' : cms'[p] = tx[s].read.body \/ (p \in DOMAIN cms /\ cms'[p] = cms[p])
  BY <1>0, SentPosts DEF TypeOK
<1>4. TypeOK'
  BY <1>0, <1>1, <1>3 DEF TypeOK
<1>5. OneHolder'
  BY <1>1 DEF OneHolder, IInv
<1>6. InHand'
  BY <1>0, <1>1 DEF InHand, IInv
<1>7. Coherent'
  BY <1>1, <1>2 DEF Coherent, IInv
<1>8. ScoresKept'
  BY <1>2 DEF ScoresKept, IInv
<1>9. PostsKept'
  <2>1. tx[s].made \in {0, r.made}
    BY <1>0
  <2>2. PostedOnceUnlessUnrecorded'
    <3>1. 0 \notin DOMAIN cms
      BY <1>0 DEF TypeOK
    <3>2. {tx[t].made : t \in Sessions} \subseteq {tx'[t].made : t \in Sessions} \cup {0}
      BY <1>1, <2>1
    <3>3. r.made \in {tx'[t].made : t \in Sessions}
      BY <1>1
    <3>4. DOMAIN cms \subseteq {item.ref} \cup orphans \cup {tx[t].made : t \in Sessions}
      BY DEF IInv, PostsKept, PostedOnceUnlessUnrecorded
    <3> QED BY <3>1, <3>2, <3>3, <3>4 DEF PostedOnceUnlessUnrecorded
  <2>3. \A t \in Sessions : tx'[t].made \in 0..Len(cms')
    <3>1. \A t \in Sessions : tx'[t].made \in 0..Len(cms) \/ tx'[t].made = Len(cms')
      BY <1>0, <1>1
    <3> QED BY <1>3, <3>1
  <2>4. r.made # 0 => \/ r.holds /\ r.mine.ref = r.made
                      \/ r.will.ref # r.read.ref
    BY <1>0
  <2>5. r.will.ref # r.read.ref => r.stage = "recording"
    OBVIOUS
  <2> QED BY <1>1, <2>2, <2>3, <2>4, <2>5 DEF IInv, PostsKept
<1>10. ASSUME ~overtaken PROVE ShownKept'
  <2>1. ShownKept /\ tx[s].read.body \in looked \cup late
    BY <1>10 DEF IInv, ShownKept
  <2>2. \A p \in DOMAIN cms' : cms'[p] \in looked \cup late
    BY <1>3, <2>1 DEF ShownKept
  <2> QED BY <1>1, <1>2, <2>1, <2>2 DEF ShownKept
<1> QED BY <1>4, <1>5, <1>6, <1>7, <1>8, <1>9, <1>10 DEF IInv

\* The remote call succeeds: the post is on its way to the row.
LEMMA PostKeeps ==
  ASSUME IInv, NEW s \in Sessions, Post(s)
  PROVE  IInv'
<1> DEFINE read == tx[s].read
           ref == IF read.ref = 0 THEN Len(cms') ELSE read.ref
           posted == [read EXCEPT !.ref = ref]
           will == transition(posted, "published")
           r == [tx[s] EXCEPT !.stage = "recording", !.will = will,
                              !.made = IF read.ref = 0 THEN ref ELSE @]
<1>0. /\ TypeOK /\ tx[s] \in Txs /\ tx[s].stage = "posting" /\ read \in Items
      /\ read.status = "publishing" /\ read.version \in Nat
  BY DEF IInv, TypeOK, Txs, Items, InHand, Post
<1>1. /\ cms' = Sent(read) /\ tx' = [tx EXCEPT ![s] = r]
      /\ UNCHANGED <<item, ops, faults, looked, loose, late, orphans, overtaken>>
  BY <1>0 DEF Post, TypeOK
<1>2. /\ ref \in Nat /\ ref # 0 /\ (read.ref # 0 => ref = read.ref)
      /\ Len(cms) <= Len(cms') /\ Len(cms') \in Nat /\ Len(cms) \in Nat
      /\ read.ref = 0 => ref = Len(cms')
      /\ DOMAIN cms' \subseteq DOMAIN cms \cup (IF read.ref = 0 THEN {Len(cms')} ELSE {})
  BY <1>0, <1>1, SentPosts DEF Items
<1> HIDE DEF ref
<1>3. /\ posted \in Items /\ posted.status = "publishing" /\ posted.body = read.body
      /\ posted.scored = read.scored /\ posted.version = read.version /\ posted.ref = ref
  BY <1>0, <1>2 DEF Items
<1> HIDE DEF posted
<1>4. /\ will \in Items /\ will.status = "published" /\ will.body = read.body
      /\ will.scored = read.scored /\ will.version = read.version + 1 /\ will.ref = ref
  <2>1. "published" \in TRANSITIONS["publishing"] /\ "published" \in DOMAIN TRANSITIONS
    BY DEF TRANSITIONS
  <2>2. will = snapshot([posted EXCEPT !.status = "published"])
    BY <1>3, <2>1 DEF transition, Refused
  <2> QED BY <1>3, <2>1, <2>2, MovedColumns
<1> HIDE DEF will
<1>5. Worked(read, will)
  BY <1>0, <1>2, <1>4 DEF Worked, Moves
<1>6. /\ r \in Txs /\ r.stage = "recording" /\ r.read = read /\ r.will = will
      /\ r.mine = tx[s].mine /\ r.holds = tx[s].holds
      /\ r.made = IF read.ref = 0 THEN ref ELSE tx[s].made
  BY <1>0, <1>2, <1>4 DEF Txs
<1> HIDE DEF r
<1>7. r.made = IF will.ref # read.ref THEN will.ref ELSE tx[s].made
  BY <1>2, <1>4, <1>6
<1>8. orphans' \subseteq 1..Len(cms') /\ faults' \in 0..MaxFaults
  BY <1>0, <1>1, <1>2 DEF TypeOK
<1>9. DOMAIN cms' \subseteq DOMAIN cms \cup orphans' \cup {r.made}
  BY <1>2, <1>6
<1> QED BY <1>0, <1>1, <1>2, <1>4, <1>5, <1>6, <1>7, <1>8, <1>9, AnswerKeeps

\* It is refused: no post was made.
LEMMA PostRefusedKeeps ==
  ASSUME IInv, NEW s \in Sessions, PostRefused(s)
  PROVE  IInv'
<1> DEFINE read == tx[s].read
           will == [read EXCEPT !.status = "approved"]
           r == [tx[s] EXCEPT !.stage = "recording", !.will = will]
<1>0. /\ TypeOK /\ tx[s] \in Txs /\ tx[s].stage = "posting" /\ read \in Items
      /\ read.status = "publishing" /\ read.version \in Nat /\ tx[s].will = read
  BY DEF IInv, TypeOK, Txs, Items, InHand, PostRefused
<1>1. /\ tx' = [tx EXCEPT ![s] = r]
      /\ UNCHANGED <<item, cms, ops, faults, looked, loose, late, orphans, overtaken>>
  BY <1>0 DEF PostRefused, TypeOK
<1>2. /\ will \in Items /\ will.status = "approved" /\ will.body = read.body
      /\ will.scored = read.scored /\ will.version = read.version /\ will.ref = read.ref
  <2>1. "approved" \in DOMAIN TRANSITIONS
    BY Statuses
  <2> QED BY <1>0, <2>1, StatusColumns
<1> HIDE DEF will
<1>3. Worked(read, will)
  BY <1>0, <1>2 DEF Worked, Moves
<1>4. /\ r \in Txs /\ r.stage = "recording" /\ r.read = read /\ r.will = will
      /\ r.mine = tx[s].mine /\ r.holds = tx[s].holds /\ r.made = tx[s].made
  BY <1>0, <1>2 DEF Txs
<1> HIDE DEF r
<1>5. orphans' \subseteq 1..Len(cms') /\ faults' \in 0..MaxFaults
  BY <1>0, <1>1 DEF TypeOK
<1> QED BY <1>0, <1>1, <1>2, <1>3, <1>4, <1>5, AnswerKeeps

\* It raises: the session stays open, and a post made is an orphan.
LEMMA PostRaisesKeeps ==
  ASSUME IInv, NEW s \in Sessions, PostRaises(s)
  PROVE  IInv'
<1> DEFINE r == [tx[s] EXCEPT !.stage = "open"]
<1>0. /\ TypeOK /\ tx[s] \in Txs /\ tx[s].stage = "posting" /\ tx[s].read \in Items
      /\ tx[s].will = tx[s].read
  BY DEF IInv, TypeOK, Txs, InHand, PostRaises
<1>1. /\ tx' = [tx EXCEPT ![s] = r] /\ cms' \in {cms, Sent(tx[s].read)}
      /\ orphans' = orphans \cup ((DOMAIN cms') \ (DOMAIN cms))
      /\ UNCHANGED <<item, ops, looked, loose, late, overtaken>>
  BY <1>0 DEF PostRaises, TypeOK
<1>2. faults' \in 0..MaxFaults
  BY <1>0, ContentAssumption DEF PostRaises, TypeOK
<1>3. /\ r \in Txs /\ r.stage = "open" /\ r.read = tx[s].read /\ r.will = tx[s].will
      /\ r.mine = tx[s].mine /\ r.holds = tx[s].holds /\ r.made = tx[s].made
  BY <1>0 DEF Txs
<1> HIDE DEF r
<1>4. DOMAIN cms' = 1..Len(cms') /\ Len(cms) <= Len(cms') /\ Len(cms) \in Nat /\ Len(cms') \in Nat
  BY <1>0, <1>1, SentPosts DEF TypeOK
<1>5. orphans' \subseteq 1..Len(cms')
  <2>1. orphans \subseteq 1..Len(cms')
    BY <1>0, <1>4 DEF TypeOK
  <2> QED BY <1>1, <1>4, <2>1
<1>6. Worked(tx[s].read, tx[s].read)
  BY <1>0, StayingWorks
<1>7. DOMAIN cms' \subseteq DOMAIN cms \cup orphans' \cup {r.made}
  BY <1>1
<1> QED BY <1>0, <1>1, <1>2, <1>3, <1>5, <1>6, <1>7, AnswerKeeps

\* A session commits: what it sees is the row.
LEMMA CommitKeeps ==
  ASSUME IInv, NEW s \in Sessions, Commit(s)
  PROVE  IInv'
<1>0. NoItem \in Items /\ NoItem.status = "idea" /\ NoItem.body = Null /\ NoItem.scored = Null
      /\ NoItem.version = 1 /\ NoItem.ref = 0
  BY Statuses DEF NoItem, Items
<1>1. /\ Idle \in Txs /\ Idle.stage = "idle" /\ Idle.read = NoItem /\ Idle.will = NoItem
      /\ Idle.holds = FALSE /\ Idle.made = 0
  BY <1>0 DEF Idle, Txs
<1> HIDE DEF NoItem, Idle
<1>2. /\ TypeOK /\ tx' \in [Sessions -> Txs] /\ tx'[s] = Idle /\ item' = Visible(s)
      /\ \A t \in Sessions \ {s} : tx'[t] = tx[t]
      /\ Visible(s) \in Items /\ Visible(s) \in Rows
      /\ UNCHANGED <<cms, ops, faults, looked, loose, late, orphans, overtaken>>
  BY <1>1, VisibleRow DEF Commit, IInv, TypeOK
\* Either the session wrote nothing, or no other holds the row.
<1>3. \/ item' = item
      \/ tx[s].holds /\ item' = tx[s].mine /\ \A t \in Sessions \ {s} : ~tx[t].holds
  BY <1>2 DEF Visible, IInv, OneHolder
<1>4. Rows' \subseteq Rows /\ item \in Rows
  BY <1>1, <1>2, <1>3 DEF Rows
<1>5. TypeOK'
  BY <1>2 DEF TypeOK
<1>6. OneHolder'
  BY <1>1, <1>2 DEF OneHolder, IInv
<1>7. InHand'
  BY <1>0, <1>1, <1>2, StayingWorks DEF InHand, IInv
<1>8. Grown(loose, item, item')
  BY <1>2, <1>3 DEF IInv, Coherent, Grown, TypeOK, Items
<1>9. Coherent'
  <2>1. item.version \in Nat /\ item'.version \in Nat
    BY <1>2, <1>5 DEF TypeOK, Items
  <2>2. Grown(loose, NoItem, item')
    BY <1>0, <1>8, <2>1 DEF IInv, Coherent, Grown
  <2>3. Visible(s)' = item' /\ Scored(loose, NoItem)
    BY <1>0, <1>1, <1>2 DEF Visible, Scored
  <2>4. ASSUME NEW t \in Sessions \ {s}
        PROVE  /\ Scored(loose, tx'[t].read) /\ Grown(loose, tx'[t].read, Visible(t)')
               /\ tx'[t].holds => Grown(loose, item', tx'[t].mine)
    <3>1. Scored(loose, tx[t].read) /\ Grown(loose, tx[t].read, Visible(t))
          /\ (tx[t].holds => Grown(loose, item, tx[t].mine))
      BY DEF IInv, Coherent
    <3>2. CASE tx[t].holds
      BY <1>2, <1>3, <3>1, <3>2 DEF Visible
    <3>3. CASE ~tx[t].holds
      <4>1. Visible(t) = item /\ Visible(t)' = item'
        BY <1>2, <3>3 DEF Visible
      <4>2. tx[t].read.version \in Nat
        BY <1>2 DEF TypeOK, Txs, Items
      <4>3. Grown(loose, tx[t].read, item')
        BY <1>8, <2>1, <3>1, <4>1, <4>2 DEF Grown
      <4> QED BY <1>2, <3>1, <3>3, <4>1, <4>3
    <3> QED BY <3>2, <3>3
  <2> QED BY <1>1, <1>2, <2>2, <2>3, <2>4 DEF Coherent
<1>10. ScoresKept'
  BY <1>2, <1>4 DEF ScoresKept, IInv
<1>11. PostsKept'
  <2>1. item'.ref = item.ref \/ item.ref = 0
    BY <1>3 DEF IInv, PostsKept
  <2>2. tx[s].made \in {0, item'.ref}
    <3>1. tx[s].made # 0 => tx[s].holds /\ tx[s].mine.ref = tx[s].made
      BY DEF Commit, IInv, PostsKept
    <3> QED BY <1>2, <3>1 DEF Visible
  <2>3. PostedOnceUnlessUnrecorded'
    <3>1. 0 \notin DOMAIN cms
      BY <1>2 DEF TypeOK
    <3>2. \A t \in Sessions : tx[t].made \in {0, item'.ref} \cup {tx'[u].made : u \in Sessions}
      BY <1>2, <2>2
    <3> QED BY <1>2, <2>1, <3>1, <3>2 DEF IInv, PostsKept, PostedOnceUnlessUnrecorded
  <2>4. 0 \in 0..Len(cms)
    BY <1>2 DEF TypeOK
  <2>5. \A t \in Sessions \ {s} : tx'[t].holds => item' = item
    BY <1>2, <1>3
  <2> QED BY <1>0, <1>1, <1>2, <2>3, <2>4, <2>5 DEF IInv, PostsKept
<1>12. ASSUME ~overtaken PROVE ShownKept'
  <2>1. \A t \in Sessions \ {s} : tx'[t].holds => item' = item
    BY <1>2, <1>3
  <2>2. ShownKept
    BY <1>12 DEF IInv
  <2>3. \A i \in Rows' : Shown(looked', late', i)
    BY <1>2, <1>4, <2>2 DEF ShownKept
  <2> QED BY <1>1, <1>2, <2>1, <2>2, <2>3 DEF ShownKept
<1> QED BY <1>2, <1>5, <1>6, <1>7, <1>9, <1>10, <1>11, <1>12 DEF IInv

\* The client sees a text of the queue; one that differs from it in a session's
\* hands was stored late.
LEMMA LookKeeps ==
  ASSUME IInv, Look
  PROVE  IInv'
<1>1. /\ TypeOK /\ item.status = "review" /\ looked' = looked \cup {item.body}
      /\ UNCHANGED <<item, tx, cms, ops, faults, loose, late, orphans, overtaken>>
  BY DEF Look, IInv
<1>2. Rows' = Rows /\ \A s \in Sessions : Visible(s)' = Visible(s)
  BY <1>1 DEF Rows, Visible
<1>3. TypeOK'
  BY <1>1 DEF TypeOK, Items
<1>4. OneHolder' /\ InHand' /\ Coherent' /\ ScoresKept'
  BY <1>1, <1>2 DEF IInv, OneHolder, InHand, Coherent, ScoresKept
<1>5. PostsKept'
  BY <1>1 DEF IInv, PostsKept, PostedOnceUnlessUnrecorded
<1>6. ASSUME ~overtaken PROVE ShownKept'
  <2>1. ShownKept
    BY <1>6 DEF IInv
  <2>2. item.status \in Decisive /\ item.status \in After
    BY <1>1 DEF Decisive, After
  <2>3. ASSUME NEW i \in Rows
        PROVE  i.status \in After /\ (i.status \in Decisive => i.body \in {item.body} \cup late)
    BY <2>1, <2>2 DEF ShownKept, Rows
  <2>4. \A i \in Rows' : Shown(looked', late', i)
    BY <1>1, <1>2, <2>1, <2>3 DEF ShownKept, Shown
  <2> QED BY <1>1, <2>1, <2>4 DEF ShownKept
<1> QED BY <1>1, <1>3, <1>4, <1>5, <1>6 DEF IInv

-----------------------------------------------------------------------------
\* An operation works on the row its session sees.
LEMMA CallKeeps ==
  ASSUME IInv, NEW s \in Sessions, Call(s)
  PROVE  IInv'
<1>1. TypeOK /\ tx[s] \in Txs /\ Visible(s) \in Items /\ Ready(s)
  BY VisibleRow DEF IInv, TypeOK, Call
<1>2. PICK will \in IF s \in Agents THEN AgentWrites(Visible(s)) ELSE ClientWrites(Visible(s)) :
        tx' = [tx EXCEPT ![s].stage = "writing", ![s].read = Visible(s), ![s].will = will]
  BY DEF Call
<1>3. /\ will \in Items /\ Worked(Visible(s), will) /\ will.ref = Visible(s).ref
      /\ will.status # Visible(s).status /\ will.status \in Decisive \ {"review"} => looked # {}
  BY <1>1, <1>2, AgentWritesWork, ClientWritesWork
<1>4. tx' = [tx EXCEPT ![s] = [tx[s] EXCEPT !.stage = "writing", !.read = Visible(s), !.will = will]]
  BY <1>1, <1>2 DEF TypeOK, Txs
<1>5. ops' \in 0..MaxOps /\ faults' \in 0..MaxFaults
      /\ UNCHANGED <<item, cms, looked, loose, late, orphans, overtaken>>
  BY <1>1, ContentAssumption DEF TypeOK, Call
<1> QED BY <1>1, <1>3, <1>4, <1>5, BeginKeeps

\* One that raises leaves a text without its scores to be written.
LEMMA CallRaisesKeeps ==
  ASSUME IInv, NEW s \in Sessions, CallRaises(s)
  PROVE  IInv'
<1>1. TypeOK /\ tx[s] \in Txs /\ Visible(s) \in Items /\ Ready(s)
  BY VisibleRow DEF IInv, TypeOK, CallRaises
<1>2. PICK d \in Drafts :
        tx' = [tx EXCEPT ![s].stage = "writing", ![s].read = Visible(s),
                         ![s].will = Unscored(Visible(s), d)]
  BY DEF CallRaises
<1> DEFINE will == Unscored(Visible(s), d)
<1>3. /\ will \in Items /\ Worked(Visible(s), will) /\ will.ref = Visible(s).ref
      /\ will.status = Visible(s).status
  BY <1>1, UnscoredWorks
<1>4. tx' = [tx EXCEPT ![s] = [tx[s] EXCEPT !.stage = "writing", !.read = Visible(s), !.will = will]]
  BY <1>1, <1>2 DEF TypeOK, Txs
<1>5. ops' \in 0..MaxOps /\ faults' \in 0..MaxFaults
      /\ UNCHANGED <<item, cms, looked, loose, late, orphans, overtaken>>
  BY <1>1, ContentAssumption DEF TypeOK, CallRaises
<1> QED BY <1>1, <1>3, <1>4, <1>5, BeginKeeps

\* A publication sets out from a row whose status admits it.
LEMMA PublishKeeps ==
  ASSUME IInv, NEW s \in Sessions, Publish(s)
  PROVE  IInv'
<1> DEFINE row == Visible(s)
           will == [row EXCEPT !.status = "publishing"]
           stage == IF row.status = "publishing" THEN "posting" ELSE "claiming"
<1>1. TypeOK /\ tx[s] \in Txs /\ row \in Items /\ Ready(s) /\ row.status \in Publishable
  BY VisibleRow DEF IInv, TypeOK, Publish
<1>2. /\ will \in Items /\ will.status = "publishing" /\ will.body = row.body
      /\ will.scored = row.scored /\ will.version = row.version /\ will.ref = row.ref
      /\ row.version \in Nat
  <2>1. "publishing" \in DOMAIN TRANSITIONS
    BY Statuses
  <2> QED BY <1>1, <2>1, StatusColumns DEF Items
<1>3. row.status = "publishing" => will = row
  BY <1>1 DEF Items
<1>4. tx' = [tx EXCEPT ![s] = [tx[s] EXCEPT !.stage = stage, !.read = row, !.will = will]]
  BY <1>1 DEF Publish, TypeOK, Txs
<1> HIDE DEF will, row
<1>5. Worked(row, will)
  BY <1>1, <1>2 DEF Worked, Moves
<1>6. ops' \in 0..MaxOps /\ faults' \in 0..MaxFaults
      /\ UNCHANGED <<item, cms, looked, loose, late, orphans, overtaken>>
  BY <1>1, ContentAssumption DEF TypeOK, Publish
<1>7. /\ stage \in {"writing", "claiming", "posting"} /\ stage # "writing"
      /\ stage = "posting" => will = row
  BY <1>3
<1> HIDE DEF stage
<1> QED BY <1>1, <1>2, <1>4, <1>5, <1>6, <1>7, BeginKeeps DEF row

\* The row is written as worked out, or the version number refuses it.
LEMMA WriteKeeps ==
  ASSUME IInv, NEW s \in Sessions, Write(s)
  PROVE  IInv'
<1>0. TypeOK /\ tx[s] \in Txs /\ tx[s].stage = "writing"
  BY DEF IInv, TypeOK, Write
<1>1. CASE tx[s].will = tx[s].read
  <2> DEFINE r == [tx[s] EXCEPT !.stage = "open"]
  <2>1. /\ r \in Txs /\ r.stage = "open" /\ r.read = tx[s].read /\ r.will = tx[s].will
        /\ r.mine = tx[s].mine /\ r.holds = tx[s].holds /\ r.made = tx[s].made
    BY <1>0 DEF Txs
  <2>2. tx' = [tx EXCEPT ![s] = r] /\ UNCHANGED <<item, cms, ops, faults, looked, loose, late, orphans, overtaken>>
    BY <1>0, <1>1 DEF Write, TypeOK
  <2> HIDE DEF r
  <2>3. /\ tx' \in [Sessions -> Txs] /\ tx'[s] = r /\ \A t \in Sessions \ {s} : tx'[t] = tx[t]
        /\ \A t \in Sessions : tx'[t].mine = tx[t].mine /\ tx'[t].holds = tx[t].holds
                               /\ tx'[t].made = tx[t].made /\ tx'[t].read = tx[t].read
                               /\ tx'[t].will = tx[t].will
    BY <1>0, <2>1, <2>2 DEF TypeOK
  <2>4. Rows' = Rows /\ \A t \in Sessions : Visible(t)' = Visible(t)
    BY <2>2, <2>3 DEF Rows, Visible
  <2>5. TypeOK' /\ OneHolder' /\ Coherent' /\ ScoresKept'
    BY <1>0, <2>2, <2>3, <2>4 DEF IInv, TypeOK, OneHolder, Coherent, ScoresKept
  <2>6. InHand'
    BY <1>0, <1>1, <2>1, <2>3 DEF IInv, InHand
  <2>7. PostsKept'
    BY <1>0, <2>1, <2>2, <2>3 DEF IInv, PostsKept, PostedOnceUnlessUnrecorded
  <2>8. ASSUME ~overtaken PROVE ShownKept'
    BY <2>1, <2>2, <2>3, <2>4, <2>8 DEF IInv, ShownKept
  <2> QED BY <2>2, <2>5, <2>6, <2>7, <2>8 DEF IInv
<1>2. CASE tx[s].will # tx[s].read
  <2>1. Flush(s, [tx[s] EXCEPT !.stage = "open"]) /\ UNCHANGED <<item, cms, ops, faults, looked>>
    BY <1>2 DEF Write
  <2> QED BY <1>0, <2>1, FlushKeeps
<1> QED BY <1>1, <1>2

\* Every step keeps the invariant.
LEMMA NextKeeps ==
  ASSUME IInv, [Next]_vars
  PROVE  IInv'
<1>1. CASE UNCHANGED vars
  <2>1. UNCHANGED <<item, tx, cms, ops, faults, looked, loose, late, orphans, overtaken>>
    BY <1>1 DEF vars
  <2>2. Rows' = Rows /\ \A s \in Sessions : Visible(s)' = Visible(s)
    BY <2>1 DEF Rows, Visible
  <2> QED BY <2>1, <2>2 DEF IInv, TypeOK, OneHolder, InHand, Coherent, ScoresKept, PostsKept,
                            PostedOnceUnlessUnrecorded, ShownKept
<1>2. ASSUME NEW s \in Sessions, Claim(s)
      PROVE  IInv'
  <2>1. tx[s].stage = "claiming" /\ Flush(s, [tx[s] EXCEPT !.stage = "posting"])
        /\ UNCHANGED <<item, cms, ops, faults, looked>>
    BY <1>2 DEF Claim
  <2> QED BY <2>1, FlushKeeps
<1>3. ASSUME NEW s \in Sessions, Record(s)
      PROVE  IInv'
  <2>1. tx[s].stage = "recording" /\ Flush(s, [tx[s] EXCEPT !.stage = "open"])
        /\ UNCHANGED <<item, cms, ops, faults, looked>>
    BY <1>3 DEF Record
  <2> QED BY <2>1, FlushKeeps
<1>4. ASSUME NEW s \in Sessions, Abort(s)
      PROVE  IInv'
  <2>1. RollBack(s) /\ faults' \in 0..MaxFaults /\ UNCHANGED <<item, cms, ops, looked>>
    BY <1>4, ContentAssumption DEF Abort, IInv, TypeOK
  <2> QED BY <2>1, RollBackKeeps
<1> QED BY <1>1, <1>2, <1>3, <1>4, LookKeeps, CallKeeps, CallRaisesKeeps, WriteKeeps, PublishKeeps,
           PostKeeps, PostRefusedKeeps, PostRaisesKeeps, CommitKeeps DEF Next

-----------------------------------------------------------------------------
\* The invariant of the item and its sessions holds in every state.
THEOREM Invariant == Spec => []IInv
BY InitHolds, NextKeeps, PTL DEF Spec

\* The item, the sessions and the history keep their types.
THEOREM TypeCorrect == Spec => []TypeOK
<1>1. IInv => TypeOK
  BY DEF IInv
<1> QED BY <1>1, Invariant, PTL

\* ContentService.transition: what is in the review queue passed every gate,
\* unless it was stored without scores, or when the item was in review already.
THEOREM ReviewIsGated == Spec => []ReviewedPassed
<1>1. IInv => ReviewedPassed
  BY DEF IInv, ScoresKept, Rows, Gated, ReviewedPassed
<1> QED BY <1>1, Invariant, PTL

\* publish.content: of publications that overlap at most one is recorded, by
\* the constraint on version numbers; the item never refers to another post.
THEOREM PostedOnce == Spec => []PostedOnceUnlessUnrecorded
<1>1. IInv => PostedOnceUnlessUnrecorded
  BY DEF IInv, PostsKept
<1> QED BY <1>1, Invariant, PTL

\* publish.content: no text is live that the client was not shown, unless it
\* was stored in review or later, or a status was overtaken.
THEOREM LiveIsShown == Spec => []LiveWasShown
<1>1. IInv => LiveWasShown
  BY DEF IInv, ShownKept, LiveWasShown
<1> QED BY <1>1, Invariant, PTL
=============================================================================
