---------------------------- MODULE MCCrawlQuota ----------------------------
\* Two sites of seven addresses.  The wide one has more links on the homepage
\* than a round takes, a disallowed page, a redirect, a redirect loop and an
\* orphan in the sitemap; the deep one is a chain with a way back and a
\* short cut that is found late.
EXTENDS CrawlQuota

CONSTANTS h, a, b, c, d, e, f

Plain == [u \in Url |-> None]
NoLinks == [u \in Url |-> <<>>]

Wide == [home |-> h, links |-> [NoLinks EXCEPT ![h] = <<a, a, b, c>>, ![b] = <<e, f>>, ![d] = <<h, f>>],
         redirect |-> [Plain EXCEPT ![a] = d, ![f] = e, ![e] = f],
         silent |-> {c}, disallowed |-> {c}, skipped |-> {}, refused |-> {},
         sitemaps |-> << <<<<h, d>>>> >>]

Deep == [home |-> h, links |-> [NoLinks EXCEPT ![h] = <<a, b>>, ![a] = <<c, h>>, ![c] = <<d>>,
                                              ![b] = <<d, e, f>>, ![d] = <<f>>],
         redirect |-> [Plain EXCEPT ![e] = c],
         silent |-> {}, disallowed |-> {}, skipped |-> {e}, refused |-> {c},
         sitemaps |-> << <<<<h>>, <<f>>, <<c>>>>, <<<<b>>>> >>]

MCKinds == {[type |-> "customer.subscription.updated", status |-> "past_due", plan |-> "growth"],
            [type |-> "customer.subscription.deleted", status |-> "canceled", plan |-> "growth"]}
MCSites == {Wide, Deep}
MCCeiling == [plan \in {"free", "growth"} |-> IF plan = "free" THEN 2 ELSE 3]
=============================================================================
