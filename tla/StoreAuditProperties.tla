------------------------- MODULE StoreAuditProperties -------------------------
(***************************************************************************)
(* What the report on a store promises.                                    *)
(***************************************************************************)
EXTENDS StoreAudit

Reports == {c \in Crawls : report[c] # None}

Seen(c) == ToSet(seen[c].products) \cup ToSet(seen[c].collections)
           \cup {seen[c].policies[s] : s \in DOMAIN seen[c].policies} \cup {Home}
           \cup (IF seen[c].robots.kind = "missing" THEN {} ELSE {"robots.txt"})

SameSight(c, d) ==
    /\ c # d /\ store[c] = store[d] /\ Seen(c) = Seen(d)
    /\ seen[c].sitemap = seen[d].sitemap /\ seen[c].gmc = seen[d].gmc

\* A crawl that has begun comes to an end, saved or failed, however its fetches
\* fail, whatever the sitemaps lead to, and whoever holds the permits it waits for
\* (fetchWithHeaders, crawlSitemap).
CrawlEnds == \A c \in Crawls : stage[c] = "robots" ~> stage[c] \in {"error", "unsaved", "saved"}

\* Two audits that saw the same of a store give it the same score and the same
\* counts: neither the order in which the pages arrived nor the order of a Go map
\* shows in them (Crawl's fan-out, runCurrencyConsistency, runScore).
SameSightSameScore ==
    \A c, d \in Reports : SameSight(c, d) =>
        report[c].score = report[d].score /\ report[c].counts = report[d].counts

\* Checks whose issues name another page when the pages arrive in another order.
OrderSensitive == {"currency_consistency", "product_description_quality"}

\* An issue of a store that did not change is new only where the audit before was
\* blind, its page or Google being out of reach, or where this one is: what alerts
\* of new critical issues is a fetch that failed, not an order of arrival
\* (differ.Compute over the rows of the checks).
NewIsExplained ==
    \A c \in Reports : LET b == report[c].before IN
        b # None => \A k \in report[c].new :
            \/ k.check \in OrderSensitive /\ k.severity # "critical"
            \/ k.url \in Seen(c) \ Seen(b)
            \/ ~ seen[b].gmc /\ seen[c].gmc
            \/ k.check = "sitemap_accessible" /\ seen[c].sitemap < seen[b].sitemap
            \/ Seen(b) \ Seen(c) # {} /\ k.check \in
                  {"robots_txt_valid", "about_page_exists", "contact_info_visible"}

ItemCodes(google)  == UNION {google.products[i].codes : i \in DOMAIN google.products}
AccountIds(google) == IF google.account = None THEN {}
                      ELSE {google.account.issues[i].id : i \in DOMAIN google.account.issues}

\* Google's names for the codes of products, the issues of an account and those of
\* feeds are different, and none is a name of the checks' own.
NamesApart ==
    \A s \in {x \in DOMAIN Site : Site[x].google # None} : LET google == Site[s].google IN
        /\ ItemCodes(google) \cap AccountIds(google) = {}
        /\ (ItemCodes(google) \cup AccountIds(google))
              \cap ({None, "website_not_claimed", "high_disapproval_rate"}
                    \cup {google.feeds[i] : i \in DOMAIN google.feeds}) = {}
        /\ google.account # None =>
              \A i, j \in DOMAIN google.account.issues :
                 LET issues == google.account.issues IN
                 issues[i].id = issues[j].id => (issues[i].critical <=> issues[j].critical)

\* What Google reports is reported once: every account issue and every code of a
\* product by exactly one check ("don't double-report", "isn't double-counting").
OneReportPerFinding ==
    \A c \in Reports : seen[c].gmc => LET google == Of(c).google IN
        \A code \in ItemCodes(google) \cup AccountIds(google) :
           Cardinality({k.check : k \in {r \in report[c].rows : r.code = code}}) = 1

=============================================================================
