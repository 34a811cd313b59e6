---------------------------- MODULE CrawlPromise ----------------------------
(***************************************************************************)
(* What a crawl promises, whatever the order in which pages are asked for  *)
(* and answered: starting from the homepage it reads pages it has          *)
(* discovered, each at most once and never more than the limit, it         *)
(* discovers only what the site files name or a page it has read links to, *)
(* and once it has ended its report does not change.                       *)
(***************************************************************************)
EXTENDS Naturals, FiniteSets

CONSTANTS Url,      \* the addresses of the site
          Limit     \* the number of pages asked for

VARIABLES links,    \* what the page behind each address links to
          files,    \* what the sitemaps name
          read,     \* the pages the report holds
          known,    \* the addresses discovered so far
          ended     \* the crawl has returned or thrown

promised == <<links, files, read, known, ended>>

Init == /\ links \in [Url -> SUBSET Url]
        /\ files \in SUBSET Url
        /\ read = {}
        /\ known = {}
        /\ ended = FALSE

LinkedFrom(some) == UNION {links[u] : u \in some}

\* Reading robots.txt, the sitemaps and the homepage.
Begin == /\ read = {} /\ ~ended
         /\ \E home \in Url : /\ read' = {home}
                              /\ home \in known'
                              /\ known' \subseteq {home} \cup files \cup links[home]
         /\ UNCHANGED <<links, files, ended>>

\* Pages that were known become pages that were read; reading them may make
\* others known.
Read == /\ read # {} /\ ~ended
        /\ read \subseteq read' /\ read' \ read \subseteq known
        /\ known \subseteq known' /\ known' \subseteq known \cup LinkedFrom(read' \ read)
        /\ Cardinality(read') <= Limit
        /\ UNCHANGED <<links, files, ended>>

End == ~ended /\ ended' = TRUE /\ UNCHANGED <<links, files, read, known>>

Next == Begin \/ Read \/ End

Spec == Init /\ [][Next]_promised
=============================================================================
