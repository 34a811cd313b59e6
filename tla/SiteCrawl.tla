------------------------------ MODULE SiteCrawl ------------------------------
(***************************************************************************)
(* A crawl as the browser drives it (engine/crawl.ts): discovery, a FIFO   *)
(* frontier, and rounds of up to PARALLEL requests of BATCH addresses, each *)
(* of which the Worker fetches and parses (engine/fetcher.ts) or refuses   *)
(* because the plan's page ceiling has been reached.  The requests of a    *)
(* round are answered in any order and applied in the order they were made.*)
(***************************************************************************)
EXTENDS Integers, Sequences, FiniteSets, SequencesExt

CONSTANTS Url, None,
          Sites,          \* the sites a crawl may meet, see Site
          BATCH, PARALLEL,
          maxPages, maxDepth,
          MAX_REDIRECTS,
          MaxSitemaps,    \* sitemap candidates looked at, 4 in the code
          MaxChildren     \* children followed of a sitemap index, 3 in the code

ASSUME CrawlAssumption == /\ None \notin Url
                          /\ BATCH \in Nat \ {0} /\ PARALLEL \in Nat \ {0}
                          /\ maxPages \in Nat \ {0} /\ maxDepth \in Nat
                          /\ {MAX_REDIRECTS, MaxSitemaps, MaxChildren} \subseteq Nat

\* A site: its homepage, the internal links of the page behind each address
\* in document order, where an address redirects to, the addresses that
\* answer with no HTML, those robots.txt disallows, those the crawler skips
\* by rule, those validateUrl refuses, and the sitemaps found, each a
\* sequence of the lists of addresses it names.
Site == [home : Url, links : [Url -> Seq(Url)], redirect : [Url -> Url \cup {None}],
         silent : SUBSET Url, disallowed : SUBSET Url, skipped : SUBSET Url,
         refused : SUBSET Url, sitemaps : Seq(Seq(Seq(Url)))]

ASSUME SitesAssumption == Sites \subseteq Site

VARIABLES site, phase,
          pages,     \* what has been recorded, in order: [url, depth, how]
          seen, depths, frontier,
          round,     \* the batches in flight, and `fetched` as they stated it
          answers,   \* what the Worker answered to each, or None
          capped,
          truncated  \* history: addresses taken off the frontier and never asked for

crawlVars == <<site, phase, pages, seen, depths, frontier, round, answers,
               capped, truncated>>

-----------------------------------------------------------------------------
\* Fetching one address.

\* rawFetch: the addresses requested in turn, one per hop.  A hop that
\* would repeat an address of the chain, or that validateUrl refuses, ends it.
Hops(s, u) ==
  LET follow[n \in 0..MAX_REDIRECTS] ==
        IF n = 0 THEN <<u>>
        ELSE LET chain == follow[n - 1]
                 next == s.redirect[Last(chain)]
             IN IF next = None \/ next \in Range(chain) \/ Last(chain) \in s.refused
                THEN chain ELSE Append(chain, next)
  IN follow[MAX_REDIRECTS]

\* The chain ends on an address that is not refused and does not redirect again.
Reached(s, u) == LET final == Last(Hops(s, u))
                 IN final \notin s.refused /\ s.redirect[final] = None

\* fetchPage: an address that is reached and answers with HTML has signals,
\* of which the internal links matter here.
fetchPage(s, u) == LET final == Last(Hops(s, u))
                   IN IF Reached(s, u) /\ final \notin s.silent THEN s.links[final] ELSE <<>>

\* fetchSiteFiles: the addresses the sitemaps name.
sitemapEntries(s) ==
  LET looked == SubSeq(s.sitemaps, 1, IF Len(s.sitemaps) < MaxSitemaps
                                      THEN Len(s.sitemaps) ELSE MaxSitemaps)
      children(m) == SubSeq(m, 1, IF Len(m) < MaxChildren THEN Len(m) ELSE MaxChildren)
  IN FlattenSeq([i \in DOMAIN looked |-> FlattenSeq(children(looked[i]))])

\* What a crawl reads behind each address of each site.
Reads == [s \in Sites |-> [u \in Url |-> fetchPage(s, u)]]

\* crawlable, on addresses normaliseUrl has already brought together.
crawlable(s, u) == u \notin s.skipped

\* filter: the elements of s at the positions in keep, in order.  Not by
\* SelectSeq, whose test is an operator and out of the provers' reach.
Place(keep, n) == CHOOSE i \in keep : Cardinality({j \in keep : j <= i}) = n
Sift(s, keep) == [n \in 1..Cardinality(keep) |-> s[Place(keep, n)]]

-----------------------------------------------------------------------------
\* enqueue, over addresses offered one after the other, each with the depth
\* it would have: what is new goes to the end of the frontier, in the order of
\* the first offer, at the depth of the first offer.
Offers(us, depth) == [i \in DOMAIN us |-> [url |-> us[i], depth |-> depth]]

\* Mutant: seen is consulted but not written until the page is fetched.
AcceptedAgain(known, offers) ==
  {k \in DOMAIN offers : /\ offers[k].url \notin known /\ crawlable(site, offers[k].url)
                         /\ offers[k].depth <= maxDepth}

Accepted(known, offers) ==
  {k \in DOMAIN offers : /\ offers[k].url \notin known /\ crawlable(site, offers[k].url)
                         /\ offers[k].depth <= maxDepth
                         /\ \A j \in 1..(k - 1) : offers[j].url # offers[k].url}

Enqueue(known, waiting, offers) ==
  \E accepted \in {Accepted(known, offers)} : \E added \in {Sift(offers, accepted)} :
    /\ seen' = known \cup {added[i].url : i \in DOMAIN added}
    /\ depths' = [u \in Url |->
                    IF \E i \in DOMAIN added : added[i].url = u
                    THEN added[CHOOSE i \in DOMAIN added : added[i].url = u].depth
                    ELSE depths[u]]
    /\ frontier' = waiting \o [i \in DOMAIN added |-> added[i].url]

\* A refusal empties the frontier, what the answers before it added included.
Cut(offers) ==
  /\ seen' = seen \cup {offers[k].url : k \in Accepted(seen, offers)}
  /\ frontier' = <<>>
  /\ UNCHANGED depths

\* The offers of a page of an answer; a page at maxDepth offers nothing.
OfferedBy(page) == IF depths[page.url] >= maxDepth THEN <<>>
                   ELSE Offers(page.links, depths[page.url] + 1)

Page(u, depth, how) == [url |-> u, depth |-> depth, how |-> how]

Recorded == {pages[i].url : i \in DOMAIN pages}

-----------------------------------------------------------------------------
CrawlInit ==
  /\ site \in Sites
  /\ phase = "discovering"
  /\ pages = <<>> /\ seen = {} /\ frontier = <<>>
  /\ depths = [u \in Url |-> 0]
  /\ round = [sent |-> 0, batches |-> <<>>] /\ answers = <<>>
  /\ capped = FALSE /\ truncated = {}

\* The discovery request fails: the address is refused, the homepage does
\* not answer, or the request itself is lost.  runAudit rethrows.
DiscoveryFails ==
  /\ phase = "discovering"
  /\ phase' = "failed"
  /\ UNCHANGED <<site, pages, seen, depths, frontier, round, answers, capped,
                 truncated>>

\* Discovery answers: the homepage is recorded at depth 0, its links and
\* then the sitemap's entries come in at depth 1.
Discover ==
  /\ phase = "discovering"
  /\ Reached(site, site.home)
  /\ pages' = <<Page(site.home, 0, "fetched")>>
  /\ LET entries == sitemapEntries(site)
         named == SubSeq(entries, 1, IF Len(entries) < maxPages * 3
                                     THEN Len(entries) ELSE maxPages * 3)
     IN \E offered \in {Offers(Reads[site][site.home] \o named, 1)} :
          Enqueue({site.home}, <<>>, offered)
  /\ phase' = "crawling"
  /\ UNCHANGED <<site, round, answers, capped, truncated>>

\* Mutant: the loop runs until the limit is reached.
LoopingOnRoom == phase = "crawling" /\ Len(pages) < maxPages

Looping == phase = "crawling" /\ frontier # <<>> /\ Len(pages) < maxPages

\* The person watching has pressed stop since the loop last looked: only the
\* head of the loop sees the signal, with no round in flight.
AbortSeen ==
  /\ Looping
  /\ phase' = "failed"
  /\ UNCHANGED <<site, pages, seen, depths, frontier, round, answers, capped,
                 truncated>>

Taken == SubSeq(frontier, 1, IF Len(frontier) < BATCH * PARALLEL
                             THEN Len(frontier) ELSE BATCH * PARALLEL)

\* Mutant: the last round is not cut to the room left.
SliceWhole == Taken

\* splice, then slice: what is taken off the frontier is cut to the room left.
Slice == SubSeq(Taken, 1, IF Len(Taken) < maxPages - Len(pages)
                          THEN Len(Taken) ELSE maxPages - Len(pages))

Batches(slice) ==
  [i \in 1..((Len(slice) + BATCH - 1) \div BATCH) |->
     SubSeq(slice, (i - 1) * BATCH + 1,
            IF i * BATCH < Len(slice) THEN i * BATCH ELSE Len(slice))]

\* The positions of s with an address robots.txt allows.
Allowed(s) == {i \in DOMAIN s : s[i] \notin site.disallowed}

\* A round is sent: addresses robots.txt disallows are recorded at once, as
\* pages with no content, and the others go out in batches.
StartRound ==
  /\ Looping
  /\ \E slice \in {Slice} :
       LET blocked == Sift(slice, DOMAIN slice \ Allowed(slice))
           kept == [i \in DOMAIN Batches(slice) |->
                      Sift(Batches(slice)[i], Allowed(Batches(slice)[i]))]
       IN /\ pages' = pages \o [i \in DOMAIN blocked |->
                                  Page(blocked[i], depths[blocked[i]], "blocked")]
          /\ \E sent \in {Sift(kept, {i \in DOMAIN kept : kept[i] # <<>>})} :
                /\ round' = [sent |-> Len(pages) + Len(blocked), batches |-> sent]
                /\ answers' = [i \in DOMAIN sent |-> None]
          /\ truncated' = truncated \cup (Range(Taken) \ Range(slice))
  /\ frontier' = SubSeq(frontier, Len(Taken) + 1, Len(frontier))
  /\ phase' = "waiting"
  /\ UNCHANGED <<site, seen, depths, capped>>

Refusal == [capped |-> TRUE, pages |-> <<>>]

Fetched(batch) == [capped |-> FALSE,
                   pages |-> [i \in DOMAIN batch |->
                                [url |-> batch[i], how |-> "fetched",
                                 links |-> Reads[site][batch[i]]]]]

\* post's catch: every address of the batch becomes a failed page.
Lost(batch) == [capped |-> FALSE,
                pages |-> [i \in DOMAIN batch |->
                            [url |-> batch[i], how |-> "lost", links |-> <<>>]]]

\* Mutant: the ceiling is left to the browser.
AnswerAnyway(b, ceiling) ==
  /\ phase = "waiting" /\ b \in DOMAIN answers /\ answers[b] = None
  /\ answers' = [answers EXCEPT ![b] = Fetched(round.batches[b])]
  /\ UNCHANGED <<site, phase, pages, seen, depths, frontier, round, capped,
                 truncated>>

\* The Worker answers one batch: refused at the plan's ceiling, as the caller
\* stated how many pages it holds, and fetched otherwise.
Answer(b, ceiling) ==
  /\ phase = "waiting" /\ b \in DOMAIN answers /\ answers[b] = None
  /\ answers' = [answers EXCEPT ![b] = IF round.sent >= ceiling THEN Refusal
                                       ELSE Fetched(round.batches[b])]
  /\ UNCHANGED <<site, phase, pages, seen, depths, frontier, round, capped,
                 truncated>>

LoseAnswer(b) ==
  /\ phase = "waiting" /\ b \in DOMAIN answers /\ answers[b] = None
  /\ answers' = [answers EXCEPT ![b] = Lost(round.batches[b])]
  /\ UNCHANGED <<site, phase, pages, seen, depths, frontier, round, capped,
                 truncated>>

\* Promise.all resolves: the answers are applied in the order the requests
\* were made, up to the first refusal.
FinishRound ==
  /\ phase = "waiting"
  /\ \A b \in DOMAIN answers : answers[b] # None
  /\ \E upto \in {n \in 0..Len(answers) :
                    (\A b \in 1..n : ~answers[b].capped)
                      /\ (n < Len(answers) => answers[n + 1].capped)} :
     \E found \in {FlattenSeq([i \in 1..upto |-> answers[i].pages])} :
     \E offered \in {FlattenSeq([i \in DOMAIN found |-> OfferedBy(found[i])])} :
       /\ pages' = pages \o [i \in DOMAIN found |->
                               Page(found[i].url, depths[found[i].url], found[i].how)]
       /\ IF upto = Len(answers)
          THEN Enqueue(seen, frontier, offered) /\ UNCHANGED capped
          ELSE Cut(offered) /\ capped' = TRUE
  /\ round' = [sent |-> 0, batches |-> <<>>] /\ answers' = <<>>
  /\ phase' = "crawling"
  /\ UNCHANGED <<site, truncated>>

\* Mutant: only a refusal makes a report a capped one.
ReturnQuietly ==
  /\ phase = "crawling" /\ ~Looping
  /\ phase' = "done"
  /\ UNCHANGED <<site, pages, seen, depths, frontier, round, answers, capped,
                 truncated>>

\* The loop ends; a frontier that is not empty makes the report a capped one.
Return ==
  /\ phase = "crawling" /\ ~Looping
  /\ capped' = (capped \/ frontier # <<>>)
  /\ phase' = "done"
  /\ UNCHANGED <<site, pages, seen, depths, frontier, round, answers, truncated>>

CrawlStep(ceiling) == \/ Discover \/ AbortSeen \/ StartRound \/ FinishRound \/ Return
                      \/ \E b \in DOMAIN answers : Answer(b, ceiling) \/ LoseAnswer(b)
                      \/ DiscoveryFails
=============================================================================
