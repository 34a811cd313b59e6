-------------------------- MODULE MCLinkProgramme --------------------------
\* Two mountings of the page, two sources of two domains, one of which sells
\* links, and verifications of one page a request.
EXTENDS LinkProgramme, TLC

MCDomainOf == [s1 |-> "d1", s2 |-> "d2"]
MCPageText == [s1 |-> {"sells_links_outright"}, s2 |-> {"sensitive"}]
MCProspects == {[domain |-> "d1", kind |-> "partner", proven |-> TRUE],
                [domain |-> "d2", kind |-> "partner", proven |-> FALSE]}
Symmetric == Permutations(Panels)
=============================================================================
