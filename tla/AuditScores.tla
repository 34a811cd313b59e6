----------------------------- MODULE AuditScores -----------------------------
(***************************************************************************)
(* The scores of an audit (engine/score.ts) and what of the site was read  *)
(* (engine/coverage.ts).  Scores are in tenths of a point, weights in      *)
(* hundredths; square roots are kept to two decimals.                      *)
(***************************************************************************)
EXTENDS AuditChecks

CONSTANT MaxPages            \* the most pages a crawl of the instance reads

ASSUME ScoresAssumption == MaxPages \in Nat \ {0}

SEVERITY_WEIGHT == [critical |-> 48, high |-> 24, medium |-> 10, low |-> 4, info |-> 1]
HEALTH_WEIGHTS == [technical |-> 26, content |-> 22, performance |-> 16, schema |-> 10,
                   ux |-> 10, analytics |-> 8, compliance |-> 8]
AEO_WEIGHTS == [aeo |-> 70, schema |-> 18, content |-> 12]
AUTHORITY_WEIGHTS == [offpage |-> 75, local |-> 25]
EXPERIENCE_WEIGHTS == [ux |-> 50, performance |-> 50]

\* A hundred times the square root of the page count.
Root == [n \in 1..MaxPages |-> CHOOSE r \in 1..(100 * n) :
                                 r * r <= 10000 * n /\ (r + 1) * (r + 1) > 10000 * n]

\* The cap a severity puts on a category, in hundredths: lower by a
\* twenty-fifth of itself for each further finding, up to eight.
Capped(cap, count) == 100 * cap - 4 * cap * Min({count - 1, 8})

Ceiling(relevant) ==
  LET count(s) == Cardinality({f \in relevant : f.severity = s})
  IN CASE count("critical") > 0 -> Capped(55, count("critical"))
       [] count("critical") = 0 /\ count("high") > 0 -> Capped(78, count("high"))
       [] count("critical") = 0 /\ count("high") = 0 /\ count("medium") > 0 ->
            Capped(92, count("medium"))
       [] OTHER -> 10000

Breadth(f, pageCount) == pageCount + Min({Max({Cardinality(f.affected), 1}), 2 * pageCount})
Penalty(relevant, pageCount) ==
  MapThenSumSet(LAMBDA f : SEVERITY_WEIGHT[f.severity] * Breadth(f, pageCount), relevant)

categoryScore(findings, category, pageCount) ==
  LET relevant == {f \in findings : f.category = category}
      unit == pageCount * Root[pageCount]
      kept == Min({10000 * unit - 5500 * Penalty(relevant, pageCount),
                   Ceiling(relevant) * unit})
  IN IF relevant = {} THEN 1000 ELSE (Max({0, kept}) + 5 * unit) \div (10 * unit)

\* A headline: the weighted categories, capped by the worst finding in them.
weighted(findings, weights, pageCount) ==
  LET total == MapThenSumSet(LAMBDA c : weights[c] * categoryScore(findings, c, pageCount),
                             DOMAIN weights)
      worst == {f.severity : f \in {g \in findings : g.category \in DOMAIN weights}}
      capped == CASE "critical" \in worst -> Min({total, 69000})
                  [] "critical" \notin worst /\ "high" \in worst -> Min({total, 87000})
                  [] OTHER -> total
  IN (capped + 50) \div 100

\* The four headlines.  A run has neither timings nor links, so that authority
\* and experience are computed and marked as not measured.
scoreAll(findings, pageCount) ==
  [health |-> weighted(findings, HEALTH_WEIGHTS, pageCount),
   aeo |-> weighted(findings, AEO_WEIGHTS, pageCount),
   authority |-> weighted(findings, AUTHORITY_WEIGHTS, pageCount),
   experience |-> weighted(findings, EXPERIENCE_WEIGHTS, pageCount)]

-----------------------------------------------------------------------------
\* What the sitemap declares and the crawl did not read; without a sitemap
\* only the cap says whether the reading is complete.
assessCoverage(pages, files, capped) ==
  LET read == Urls({p \in pages : p.fetch \in {"html", "asset"}})
      unseen == files.entries \ read
  IN IF files.entries = {}
     THEN [declared |-> 0, read |-> Cardinality(read), unseen |-> {}, complete |-> ~capped,
           comparable |-> FALSE]
     ELSE [declared |-> Cardinality(files.entries),
           read |-> Cardinality(files.entries) - Cardinality(unseen), unseen |-> unseen,
           complete |-> unseen = {}, comparable |-> TRUE]
=============================================================================
