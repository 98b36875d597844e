---------------------------- MODULE MCStoreAudit ----------------------------
(***************************************************************************)
(* Small stores for TLC.                                                   *)
(***************************************************************************)
EXTENDS StoreAuditProperties

CONSTANTS c1, c2, usd, eur, text1, text2

AllFields == {"name", "image", "description", "price", "priceCurrency", "availability", "brand"}

Product(u, currency, text) ==
    [url |-> u, kind |-> "product", broken |-> FALSE, mixed |-> 0, signals |-> 0, badAlts |-> 0,
     canonical |-> u, image |-> TRUE, badTitle |-> FALSE, description |-> text, poor |-> FALSE,
     schema |-> IF currency = None THEN None
                ELSE [fields |-> AllFields, identified |-> TRUE, currency |-> currency]]

Other(u, kind, slug) ==
    [url |-> u, kind |-> kind, slug |-> slug, broken |-> FALSE, thin |-> FALSE, contact |-> TRUE]

HomePage(anchors) ==
    [url |-> Home, kind |-> "home", broken |-> FALSE, mixed |-> 1, signals |-> 1, contact |-> FALSE,
     links |-> {"refund", "terms"}, shopify |-> TRUE, anchors |-> anchors]

Open == [kind |-> "rules", blocked |-> {}, probes |-> 0, sitemaps |-> <<>>]

Google == [account |-> [issues |-> <<[id |-> "suspended", critical |-> TRUE],
                                     [id |-> "warned", critical |-> FALSE]>>, claimed |-> FALSE],
           products |-> [i \in 1..25 |-> [link |-> IF i = 1 THEN "p1" ELSE "p2", disapproved |-> i = 1,
                                          codes |-> IF i = 1 THEN {PriceCode, "overlay"}
                                                    ELSE IF i = 2 THEN {"overlay", "gtin"} ELSE {}]],
           feeds |-> <<None, "feed_failed">>]

Flat == ("sitemap.xml" :> [index |-> <<>>, urls |-> 4])

\* Two currencies among two products, equal descriptions, a contact page that
\* alone names an address, and Google's findings.
Shop ==
    [secure |-> TRUE, robots |-> Open, sitemaps |-> Flat, google |-> Google,
     pages |-> (Home :> HomePage(<<"p1", "p2", "p1", "k", "p3">>)
             @@ "p1" :> [Product("p1", usd, text1) EXCEPT !.badAlts = 2, !.mixed = 1, !.schema.identified = FALSE]
             @@ "p2" :> [Product("p2", eur, text1) EXCEPT !.mixed = 1, !.schema.fields = AllFields \ {"brand"}]
             @@ "p3" :> [Product("p3", eur, text2) EXCEPT !.badTitle = TRUE]
             @@ "k"  :> Other("k", "policy", "contact"))]

\* Without robots.txt or Google; a product without a schema, a page that answers
\* an error, and two pages on the store that share a name.
Stall ==
    [secure |-> FALSE, robots |-> [kind |-> "missing"], sitemaps |-> Flat, google |-> None,
     pages |-> (Home :> HomePage(<<"q1", "q2", "a1", "a2", "l">>)
             @@ "q1" :> [Product("q1", None, None) EXCEPT !.canonical = Home, !.image = FALSE]
             @@ "q2" :> [Product("q2", usd, text1) EXCEPT !.broken = TRUE]
             @@ "a1" :> Other("a1", "policy", "about")
             @@ "a2" :> Other("a2", "policy", "about")
             @@ "l"  :> Other("l", "collection", None))]

\* A sitemap that leads to itself.
Maze == [Stall EXCEPT
    !.robots = [Open EXCEPT !.blocked = {"q1", "l"}, !.probes = 1, !.sitemaps = <<"list", "maze">>],
    !.sitemaps = ("maze" :> [index |-> <<"maze">>, urls |-> 0]
               @@ "list" :> [index |-> <<>>, urls |-> 3])]

Closed  == [Stall EXCEPT !.robots = [Open EXCEPT !.blocked = {Home}]]
Foreign == [Stall EXCEPT !.pages[Home].shopify = FALSE]

MCSite == [shop |-> Shop, stall |-> Stall, maze |-> Maze, closed |-> Closed, foreign |-> Foreign]
ASSUME GoogleNames == NamesApart

MCBudget == [product |-> 3, collection |-> 1, policy |-> 2]

\* A store audited twice, one audit after the other; crawls side by side that
\* compete for the permits; or one crawl, any of whose fetches may fail and which
\* the worker may stop.
VARIABLE scene

Quiet == \A c \in Crawls : lost[c] = 0 /\ ~ cancelled[c]

InScene ==
    \/ /\ scene = "again" /\ \A c \in Crawls : ~ cancelled[c]
       /\ stage[c2] # "idle" => stage[c1] \in {"error", "saved"}
    \/ scene = "side" /\ Quiet
    \/ scene = "alone" /\ stage[c2] = "idle"

MCInit ==
    /\ scene \in {"again", "side", "alone"} /\ Init
    /\ scene = "again" => store = [c \in Crawls |-> "shop"]
    /\ scene = "side" => store[c1] = "stall" /\ store[c2] = "maze"
    /\ scene = "alone" => store[c2] = "stall"
MCNext == UNCHANGED scene /\ Next /\ InScene'
MCSpec == MCInit /\ [][MCNext]_<<vars, scene>> /\ Fairness

=============================================================================
