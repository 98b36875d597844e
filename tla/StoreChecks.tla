----------------------------- MODULE StoreChecks -----------------------------
(***************************************************************************)
(* The checks an audit runs on what it fetched of a store and on what      *)
(* Google says of its products, the score, and the comparison with the     *)
(* audit before.                                                           *)
(*                                                                         *)
(* A page is a record of what the checks tell apart: how many resources it *)
(* loads insecurely, whether its title is fine, and so on; None stands for *)
(* what is missing.  An issue is known by its page and Google's code.      *)
(***************************************************************************)
EXTENDS Integers, Sequences, FiniteSets, SequencesExt

CONSTANTS
    None,
    Home,           \* the URL of the store
    Required,       \* fields a product's schema must have
    PriceCode, AvailabilityCode,    \* item codes with a check of their own
    ImageCodes      \* item codes of the image policy

ASSUME CheckConstants ==
    PriceCode # AvailabilityCode /\ {PriceCode, AvailabilityCode} \cap ImageCodes = {}

\* nth tells apart the issues that a check has about one page or code.
Issue(url, nth)         == [url |-> url, code |-> None, nth |-> nth]
GoogleIssue(code, nth)  == [url |-> None, code |-> code, nth |-> nth]
One(bad, url)           == IF bad THEN {Issue(url, 1)} ELSE {}

\* One issue for every fault of every page.
PerPage(faults) == UNION {{Issue(p.url, n) : n \in 1..faults[p]} : p \in DOMAIN faults}

Once(bad) == IF bad THEN 1 ELSE 0

Policy(cx, slug) == IF slug \in DOMAIN cx.policies THEN cx.policies[slug] ELSE None

Products(cx)        == ToSet(cx.products)
HomeAndProducts(cx) == {cx.home} \cup Products(cx)

-----------------------------------------------------------------------------
(* The store as a whole.                                                   *)

AboutPageExists(cx) ==
    LET about == IF Policy(cx, "about") # None THEN Policy(cx, "about") ELSE Policy(cx, "about-us") IN
    IF about = None THEN {Issue("about", 1)} ELSE One(about.thin, about.url)

ContactInfoVisible(cx) ==
    LET pages == {cx.home, Policy(cx, "contact"), Policy(cx, "contact-us")} \ {None} IN
    One(\A p \in pages : ~ p.contact, Home)

\* The homepage links to it; that the page itself was fetched makes no difference.
PolicyLinked(cx, signal) == One(signal \notin cx.home.links, Home)

\* robots.txt is missing, does not parse, or keeps Googlebot from a probe.
RobotsTxtValid(cx) ==
    IF cx.robots.kind \in {"missing", "broken"} THEN {Issue("robots.txt", 1)}
    ELSE {Issue("robots.txt", n) : n \in 1..cx.robots.probes}

SitemapAccessible(cx) == One(cx.sitemap < 5, "sitemap.xml")

HTTPSEverywhere(cx) ==
    (IF cx.secure THEN {} ELSE {Issue(Home, 0)}) \cup PerPage([p \in HomeAndProducts(cx) |-> p.mixed])

ProhibitedContentSignals(cx) == PerPage([p \in HomeAndProducts(cx) |-> p.signals])

\* A page that answered an error was never kept, so that none is reported.
BrokenProductLinks(cx) ==
    PerPage([p \in HomeAndProducts(cx) \cup ToSet(cx.collections)
                     \cup {cx.policies[slug] : slug \in DOMAIN cx.policies} |-> Once(p.broken)])

-----------------------------------------------------------------------------
(* Products.                                                               *)

CanonicalTagsPresent(cx) == PerPage([p \in Products(cx) |-> Once(p.canonical \in {None, Home})])

ImageAltQuality(cx) == PerPage([p \in Products(cx) |-> p.badAlts])

ProductImagesPresent(cx) ==
    PerPage([p \in Products(cx) |-> Once(~ p.image /\ (p.schema = None \/ "image" \notin p.schema.fields))])

ProductTitleQuality(cx) == PerPage([p \in Products(cx) |-> Once(p.badTitle)])

ProductSchemaPresent(cx) == PerPage([p \in Products(cx) |-> Once(p.schema = None)])

ProductSchemaComplete(cx) ==
    PerPage([p \in Products(cx) |-> Once(p.schema # None /\ ~ Required \subseteq p.schema.fields)])

ProductIdentifierPresent(cx) ==
    PerPage([p \in Products(cx) |-> Once(p.schema # None /\ ~ p.schema.identified)])

SameText(cx, i, j) ==
    /\ i # j /\ cx.products[i].description # None
    /\ cx.products[i].description = cx.products[j].description

\* The first to arrive of each group of pages that share a description.
FirstOfGroup(cx) ==
    {i \in DOMAIN cx.products : /\ \E j \in DOMAIN cx.products : SameText(cx, i, j)
                               /\ \A j \in 1..i - 1 : ~ SameText(cx, i, j)}

\* A page may have a poor description that others share.
ProductDescriptionQuality(cx) ==
    PerPage([p \in Products(cx) |-> Once(p.poor \/ p.description = None)])
        \cup {Issue(cx.products[i].url, 2) : i \in FirstOfGroup(cx)}

Currency(p)      == IF p.schema = None THEN None ELSE p.schema.currency
Priced(cx)       == {p \in Products(cx) : Currency(p) # None}
Currencies(cx)   == {Currency(p) : p \in Priced(cx)}
PricedIn(cx, c)  == {p \in Priced(cx) : Currency(p) = c}

\* The currency of the first page is taken for the store's.
BugExpected(cx) ==
    {c \in Currencies(cx) : \E i \in DOMAIN cx.products :
        c = Currency(cx.products[i]) /\ \A j \in 1..i - 1 : Currency(cx.products[j]) = None}

\* The store's currency is the one of most products; among equals the order of
\* a Go map decides.
Expected(cx) ==
    {c \in Currencies(cx) : \A d \in Currencies(cx) :
        Cardinality(PricedIn(cx, c)) >= Cardinality(PricedIn(cx, d))}

Baselines(cx) == IF Cardinality(Currencies(cx)) <= 1 THEN {None} ELSE Expected(cx)

CurrencyConsistency(cx, baseline) ==
    IF baseline = None THEN {}
    ELSE PerPage([p \in Priced(cx) |-> Once(Currency(p) # baseline)])

-----------------------------------------------------------------------------
(* What Google reports: each check passes when nothing was obtained.       *)

AccountIssues(cx, critical) ==
    IF cx.gmc = None \/ cx.gmc.account = None THEN {}
    ELSE LET issues == cx.gmc.account.issues IN
         {GoogleIssue(issues[i].id, i) : i \in {n \in DOMAIN issues : issues[n].critical <=> critical}}

AccountSuspended(cx) == AccountIssues(cx, TRUE)
AccountWarning(cx)   == AccountIssues(cx, FALSE)

WebsiteNotClaimed(cx) ==
    IF cx.gmc = None \/ cx.gmc.account = None \/ cx.gmc.account.claimed THEN {}
    ELSE {GoogleIssue("website_not_claimed", 1)}

GoogleProducts(cx) == IF cx.gmc = None THEN <<>> ELSE cx.gmc.products

Disapproved(cx) ==
    Cardinality({i \in DOMAIN GoogleProducts(cx) : GoogleProducts(cx)[i].disapproved})

\* Below one in a hundred passes; from five in a hundred it is critical.
DisapprovalRate(cx) ==
    IF Disapproved(cx) = 0 \/ 100 * Disapproved(cx) < Len(GoogleProducts(cx)) THEN {}
    ELSE {GoogleIssue("high_disapproval_rate", 1)}

DisapprovalSeverity(cx) ==
    IF 100 * Disapproved(cx) >= 5 * Len(GoogleProducts(cx)) THEN "critical" ELSE "warning"

FeedFetchError(cx) ==
    LET feeds == IF cx.gmc = None THEN <<>> ELSE cx.gmc.feeds IN
    {GoogleIssue(feeds[i], i) : i \in {n \in DOMAIN feeds : feeds[n] # None}}

Codes(cx) == UNION {GoogleProducts(cx)[i].codes : i \in DOMAIN GoogleProducts(cx)}

\* One issue for each code, however many products have it.
ByCode(codes) == {GoogleIssue(code, 1) : code \in codes}

\* Only the codes whose checks compare them by name are left out.
BugSpecificItemIssue(cx) == ByCode(Codes(cx) \ {PriceCode, AvailabilityCode})

SpecificItemIssue(cx) == ByCode(Codes(cx) \ ({PriceCode, AvailabilityCode} \cup ImageCodes))

ImagePolicyViolation(cx) == ByCode(Codes(cx) \cap ImageCodes)

\* One issue for each product with the code.
ItemCode(cx, code) ==
    LET products == GoogleProducts(cx) IN
    {[url |-> products[i].link, code |-> code, nth |-> i] :
        i \in {n \in DOMAIN products : code \in products[n].codes}}

-----------------------------------------------------------------------------
(* Detect and score.                                                       *)

Judged(check, severity, issues, verdict) ==
    [check |-> check, severity |-> severity, issues |-> issues,
     status |-> IF issues = {} THEN "pass" ELSE verdict]

Verdict(check, severity, issues) == Judged(check, severity, issues, "fail")

Flag(check, severity, issues, info) ==
    Judged(check, severity, issues, IF info THEN "info" ELSE "fail")

\* The registered checks: of the store as a whole, of its pages, of what Google says.
StoreResults(cx) == {
    Verdict("about_page_exists", "warning", AboutPageExists(cx)),
    Verdict("contact_info_visible", "warning", ContactInfoVisible(cx)),
    Verdict("privacy_policy_linked", "critical", PolicyLinked(cx, "privacy")),
    Verdict("refund_policy_linked", "error", PolicyLinked(cx, "refund")),
    Verdict("robots_txt_valid", "critical", RobotsTxtValid(cx)),
    Verdict("shipping_policy_linked", "error", PolicyLinked(cx, "shipping")),
    Flag("sitemap_accessible", "warning", SitemapAccessible(cx), cx.sitemap > 0),
    Verdict("terms_of_service_linked", "error", PolicyLinked(cx, "terms"))}

PageResults(cx) == {
    Verdict("broken_product_links", "error", BrokenProductLinks(cx)),
    Verdict("canonical_tags_present", "warning", CanonicalTagsPresent(cx)),
    Verdict("https_everywhere", "critical", HTTPSEverywhere(cx)),
    Verdict("image_alt_quality", "warning", ImageAltQuality(cx)),
    Verdict("product_identifier_present", "error", ProductIdentifierPresent(cx)),
    Verdict("product_images_present", "error", ProductImagesPresent(cx)),
    Verdict("product_schema_complete", "error", ProductSchemaComplete(cx)),
    Verdict("product_schema_present", "critical", ProductSchemaPresent(cx)),
    Verdict("product_title_quality", "warning", ProductTitleQuality(cx)),
    Flag("prohibited_content_signals", "warning", ProhibitedContentSignals(cx), TRUE)}

GoogleResults(cx) == {
    Verdict("gmc_account_suspended", "critical", AccountSuspended(cx)),
    Verdict("gmc_account_warning", "warning", AccountWarning(cx)),
    Verdict("gmc_feed_fetch_error", "critical", FeedFetchError(cx)),
    Verdict("gmc_image_policy_violation", "warning", ImagePolicyViolation(cx)),
    Verdict("gmc_landing_page_availability_mismatch", "warning", ItemCode(cx, AvailabilityCode)),
    Verdict("gmc_landing_page_price_mismatch", "critical", ItemCode(cx, PriceCode)),
    Verdict("gmc_product_disapproval_rate", DisapprovalSeverity(cx), DisapprovalRate(cx)),
    Verdict("gmc_specific_item_issue", "warning", SpecificItemIssue(cx)),
    Verdict("gmc_website_not_claimed", "warning", WebsiteNotClaimed(cx))}

\* All, with the two whose issues depend on the order of arrival.
Results(cx, baseline) ==
    StoreResults(cx) \cup PageResults(cx) \cup GoogleResults(cx) \cup {
    Verdict("currency_consistency", "error", CurrencyConsistency(cx, baseline)),
    Verdict("product_description_quality", "warning", ProductDescriptionQuality(cx))}

Weight(severity) == CASE severity = "critical" -> 10 [] severity = "error" -> 5
                      [] severity = "warning" -> 2

\* The rows of issues, as the comparison reads them.
Rows(results) ==
    UNION {{[check |-> r.check, severity |-> r.severity,
             url |-> i.url, code |-> i.code, nth |-> i.nth] : i \in r.issues} : r \in results}

\* What counts under a severity; a check that only informs counts as info.
Under(results, s) ==
    {r \in results : IF r.status = "fail" THEN r.severity = s ELSE r.status = "info" /\ s = "info"}

Counts(results) ==
    [s \in {"critical", "error", "warning", "info"} |-> Cardinality(Rows(Under(results, s)))]

Score(results) ==
    LET n == Counts(results)
        score == 100 - Weight("critical") * n["critical"] - Weight("error") * n["error"]
                     - Weight("warning") * n["warning"]
    IN IF score < 0 THEN 0 ELSE score

Identity(k) == <<k.check, k.url>>

\* An issue that differs from one of those before counts as new.
BugNewIssues(prev, curr) ==
    {k \in curr : \E p \in prev : Identity(p) # Identity(k)}

\* Compute, the issues that are new.
NewIssues(prev, curr) ==
    {k \in curr : \A p \in prev : Identity(p) # Identity(k)}

=============================================================================
