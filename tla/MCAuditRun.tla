----------------------------- MODULE MCAuditRun -----------------------------
(***************************************************************************)
(* A homepage and two pages under it, each of which may hold one of a few  *)
(* things chosen so that the checks that look at several pages, the fixes  *)
(* of every fate and the severities that change all occur.                 *)
(***************************************************************************)
EXTENDS AuditRun

\* A page nothing is wrong with.
Plain ==
  [url |-> "none", order |-> 0, depth |-> 0, fetch |-> "html", inlinks |-> {}, hops |-> 0,
   https |-> TRUE, noindex |-> FALSE, canonical |-> "self", lang |-> TRUE,
   title |-> "own", titleLength |-> 40, head |-> "own", description |-> "own",
   descriptionLength |-> 120, h1 |-> 1, skipsLevel |-> FALSE, headings |-> 3, generic |-> 0,
   words |-> 500, scripts |-> 2, sheets |-> 1, bytes |-> 40000, inlineBytes |-> 1000,
   paragraphs |-> 8, path |-> "page", links |-> {"home", "a", "b"}, monthsOld |-> 1,
   noAlt |-> 0, noDimensions |-> 0, legacyImages |-> 0, eager |-> 0, elapsedMs |-> 300,
   insecureImages |-> FALSE, viewport |-> TRUE, preview |-> TRUE,
   nodes |-> <<[type |-> "WebPage", id |-> "none", has |-> {}, merchant |-> FALSE,
               identified |-> FALSE, claim |-> "none", sameAs |-> TRUE, rated |-> FALSE]>>,
   schemaErrors |-> FALSE, microdata |-> FALSE, asksInHeading |-> FALSE, asksInText |-> FALSE,
   answersFirst |-> TRUE, figures |-> 3, citations |-> 1, questions |-> 0, author |-> TRUE,
   ctas |-> 1, ymyl |-> FALSE, advises |-> FALSE, superlative |-> FALSE, affiliate |-> FALSE,
   disclosed |-> FALSE, hreflang |-> {}, injector |-> FALSE, analytics |-> TRUE,
   hash |-> "own", privacy |-> TRUE, phone |-> TRUE, address |-> TRUE, targets |-> "none",
   citable |-> TRUE, faqPairs |-> 0, images |-> 1]

Organization(has) == [Plain.nodes[1] EXCEPT !.type = "Organization", !.id = "org", !.has = has]

\* Own(n): a title, a description and copy no other page shares.
Own(n) == [Plain EXCEPT !.title = n, !.head = n, !.description = n, !.hash = n]

MCVariants ==
  [front |-> [Own("front") EXCEPT !.links = {"home", "b"}],
   bare |-> [Own("bare") EXCEPT !.title = "none", !.h1 = 0, !.noDimensions = 4,
                                 !.nodes = <<>>, !.canonical = "none"],
   offer |-> Own("offer"),
   twin |-> [Own("offer") EXCEPT !.nodes = <<Organization({"name"})>>, !.questions = 3,
                                 !.asksInHeading = TRUE, !.answersFirst = FALSE],
   cites |-> [Own("cites") EXCEPT !.nodes = <<Organization({})>>, !.noAlt = 2, !.links = {}],
   shell |-> [Own("shell") EXCEPT !.words = 20, !.https = FALSE, !.scripts = 3,
                                  !.paragraphs = 0, !.inlineBytes = 30000],
   heavy |-> [Own("shell") EXCEPT !.words = 120, !.scripts = 3, !.paragraphs = 1,
                                  !.inlineBytes = 30000],
   gone |-> [Plain EXCEPT !.fetch = "gone"]]

MCSites == {s \in [{"home", "a", "b"} -> DOMAIN MCVariants] :
              /\ s["home"] \in {"front", "bare"}
              /\ s["a"] \in {"bare", "cites"}
              /\ s["b"] \in {"twin", "shell"}
              /\ s["home"] = "bare" => s["a"] = "cites" /\ s["b"] = "twin"}

\* The sitemap lists twenty more pages that nothing links to and no crawl reaches,
\* so that one plan may be for more pages than the queue lets pass as low.
Unanswered == {"p1", "p2", "p3", "p4", "p5", "p6", "p7", "p8", "p9", "p10", "p11", "p12",
               "p13", "p14", "p15", "p16", "p17", "p18", "p19", "p20"}
MCFiles == [robots |-> FALSE, sitemap |-> TRUE, entries |-> {"home", "a"} \cup Unanswered,
            blocksAi |-> FALSE, llms |-> FALSE]
MCOptions == [local |-> TRUE, locations |-> {"town"}, ecommerce |-> FALSE]
=============================================================================
