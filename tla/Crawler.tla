------------------------------- MODULE Crawler -------------------------------
(***************************************************************************)
(* The crawls of one worker: each fetches robots.txt, the homepage, the    *)
(* sitemaps and then, side by side, the pages the homepage links to.       *)
(* Every fetch holds one of the permits of its store and one of all        *)
(* crawls; one that fails is passed over without a word.                   *)
(*                                                                         *)
(* A site is a record of what a store would answer.  The order in which    *)
(* its pages arrive is the order in which the checks see them.             *)
(***************************************************************************)
EXTENDS StoreChecks

CONSTANTS
    Crawls,
    Site,               \* what each store would answer
    GlobalPermits,      \* fetches at a time, of all crawls
    StorePermits,       \* fetches at a time, of one crawl
    Budget,             \* pages of each kind that are fetched
    MaxDepth,           \* of sitemaps within sitemaps
    MaxLost             \* bound: fetches of a crawl that fail though the page is there

Fetched == {"product", "collection", "policy"}

\* A page is known by its URL, and by the path of the URL its kind.
PageData(page, u) ==
    /\ page # None /\ page.url = u /\ page.kind \in Fetched \cup {"home"}
    /\ page.kind \in {"home", "product"} => {page.mixed, page.signals} \subseteq Nat
    /\ page.kind = "product" => page.badAlts \in Nat

\* Google's answers are finite.
GoogleData(google) ==
    /\ IsFiniteSet(DOMAIN google.products) /\ IsFiniteSet(DOMAIN google.feeds)
    /\ \A i \in DOMAIN google.products : IsFiniteSet(google.products[i].codes)
    /\ google.account # None => IsFiniteSet(DOMAIN google.account.issues)

SiteData(site) ==
    /\ Home \in DOMAIN site.pages /\ "robots.txt" \notin DOMAIN site.pages
    /\ site.pages[Home].kind = "home" /\ ToSet(site.pages[Home].anchors) \subseteq DOMAIN site.pages
    /\ \A u \in DOMAIN site.pages : PageData(site.pages[u], u)
    /\ \A u \in DOMAIN site.sitemaps : site.sitemaps[u] # None /\ site.sitemaps[u].urls \in Nat
    /\ site.robots.kind \in {"missing", "broken", "rules"}
    /\ site.robots.kind = "rules" => site.robots.probes \in Nat
    /\ site.google # None => GoogleData(site.google)

ASSUME CrawlerConstants ==
    /\ {GlobalPermits, StorePermits} \subseteq Nat \ {0}
    /\ Budget \in [Fetched -> Nat]
    /\ {MaxDepth, MaxLost} \subseteq Nat
    /\ \A s \in DOMAIN Site : SiteData(Site[s])

VARIABLES
    store,      \* the store each crawl is of
    stage,      \* where each crawl is
    fetch,      \* the fetches of each crawl that have not ended, and their step
    todo,       \* sitemaps still to read, with their depth, innermost first
    seen,       \* what each crawl has so far: robots.txt, URLs, entries of sitemaps
    lost,       \* history: fetches that failed
    cancelled   \* the context of the audit has ended

crawling == <<store, stage, fetch, todo, seen, lost, cancelled>>

NoPages == [x \in {} |-> None]

Nothing == [robots |-> None, products |-> <<>>, collections |-> <<>>, policies |-> NoPages,
            sitemap |-> 0, gmc |-> FALSE]

Of(c) == Site[store[c]]

CrawlInit ==
    /\ store \in [Crawls -> DOMAIN Site]
    /\ stage = [c \in Crawls |-> "idle"]
    /\ fetch = [c \in Crawls |-> NoPages]
    /\ todo = [c \in Crawls |-> <<>>]
    /\ seen = [c \in Crawls |-> Nothing]
    /\ lost = [c \in Crawls |-> 0]
    /\ cancelled = [c \in Crawls |-> FALSE]

-----------------------------------------------------------------------------
(* fetchWithHeaders: the global permit is taken first, and held while the  *)
(* fetch waits for one of its store.                                       *)

Steps(c, steps) == {u \in DOMAIN fetch[c] : fetch[c][u] \in steps}

InStore(c)  == Cardinality(Steps(c, {"http"}))
InFlight    == UNION {{c} \X Steps(c, {"store", "http"}) : c \in Crawls}

Acquire(c, u) ==
    /\ u \in DOMAIN fetch[c]
    /\ \/ /\ fetch[c][u] = "global" /\ Cardinality(InFlight) < GlobalPermits
          /\ fetch' = [fetch EXCEPT ![c][u] = "store"]
       \/ /\ fetch[c][u] = "store" /\ InStore(c) < StorePermits
          /\ fetch' = [fetch EXCEPT ![c][u] = "http"]
    /\ UNCHANGED <<store, stage, todo, seen, lost, cancelled>>

Waiting(urls) == [u \in urls |-> "global"]

\* The fetch is over, and its permits are free again.
Released(c, u) == [v \in DOMAIN fetch[c] \ {u} |-> fetch[c][v]]

Blocked(c, u) == seen[c].robots # None /\ seen[c].robots.kind = "rules" /\ u \in seen[c].robots.blocked

-----------------------------------------------------------------------------
(* Crawl.                                                                  *)

Begin(c) ==
    /\ stage[c] = "idle"
    /\ stage' = [stage EXCEPT ![c] = "robots"]
    /\ fetch' = [fetch EXCEPT ![c] = Waiting({"robots.txt"})]
    /\ UNCHANGED <<store, todo, seen, lost, cancelled>>

\* loadRobots: without robots.txt everything is allowed; a homepage it forbids
\* ends the crawl.
Robots(c, answer) ==
    /\ seen' = [seen EXCEPT ![c].robots = answer]
    /\ IF answer.kind = "rules" /\ Home \in answer.blocked
       THEN stage' = [stage EXCEPT ![c] = "error"] /\ fetch' = [fetch EXCEPT ![c] = NoPages]
       ELSE stage' = [stage EXCEPT ![c] = "home"] /\ fetch' = [fetch EXCEPT ![c] = Waiting({Home})]
    /\ UNCHANGED todo

Sitemaps(c) ==
    LET named == IF seen[c].robots.kind = "rules" THEN seen[c].robots.sitemaps ELSE <<>>
        roots == IF named = <<>> THEN <<"sitemap.xml">> ELSE named
    IN [i \in DOMAIN roots |-> <<roots[i], 0>>]

\* A homepage that was not fetched, or is not a Shopify store's, ends the crawl.
HomeRead(c, page) ==
    IF page = None \/ ~ page.shopify
    THEN /\ stage' = [stage EXCEPT ![c] = "error"]
         /\ fetch' = [fetch EXCEPT ![c] = NoPages]
         /\ UNCHANGED <<todo, seen>>
    ELSE /\ stage' = [stage EXCEPT ![c] = "sitemap"]
         /\ fetch' = [fetch EXCEPT ![c] = NoPages]
         /\ todo' = [todo EXCEPT ![c] = Sitemaps(c)]
         /\ UNCHANGED seen

\* An index of sitemaps is read as deep as it goes.
BugInner(c, entries, depth) == [i \in DOMAIN entries |-> <<entries[i], depth>>]

\* The sitemaps of an index are one deeper than it.
Inner(c, entries, depth) == [i \in DOMAIN entries |-> <<entries[i], depth + 1>>]

\* crawlSitemap: the next sitemap is fetched, or is too deep.
NextSitemap(c) ==
    /\ stage[c] = "sitemap" /\ fetch[c] = NoPages /\ todo[c] # <<>>
    /\ LET u == Head(todo[c])[1]  depth == Head(todo[c])[2] IN
       IF depth > MaxDepth
       THEN todo' = [todo EXCEPT ![c] = Tail(@)] /\ UNCHANGED fetch
       ELSE fetch' = [fetch EXCEPT ![c] = Waiting({u})] /\ UNCHANGED todo
    /\ UNCHANGED <<store, stage, seen, lost, cancelled>>

\* An index leads to further sitemaps; anything else lists pages, or is nothing.
SitemapRead(c, map) ==
    LET depth == Head(todo[c])[2] IN
    /\ todo' = [todo EXCEPT ![c] =
          (IF map # None THEN Inner(c, map.index, depth) ELSE <<>>) \o Tail(@)]
    /\ seen' = [seen EXCEPT ![c].sitemap = @ + (IF map # None /\ map.index = <<>> THEN map.urls ELSE 0)]
    /\ fetch' = [fetch EXCEPT ![c] = NoPages]
    /\ UNCHANGED stage

\* discover: the links of a kind, each once, as many as the budget allows; a link
\* stands where it comes first.
Discovered(c, kind) ==
    LET anchors == Of(c).pages[Home].anchors
        links == {u \in ToSet(anchors) : Of(c).pages[u].kind = kind}
        Ahead(u, i) == {v \in links \ {u} : \E j \in 1..i - 1 : anchors[j] = v}
    IN {u \in links : \E i \in DOMAIN anchors :
            anchors[i] = u /\ Cardinality(Ahead(u, i)) < Budget[kind]}

\* The pages are fetched side by side; one that robots.txt forbids is passed over.
FanOut(c) ==
    /\ stage[c] = "sitemap" /\ fetch[c] = NoPages /\ todo[c] = <<>>
    /\ stage' = [stage EXCEPT ![c] = "pages"]
    /\ fetch' = [fetch EXCEPT ![c] =
          Waiting({u \in UNION {Discovered(c, k) : k \in DOMAIN Budget} : ~ Blocked(c, u)})]
    /\ UNCHANGED <<store, todo, seen, lost, cancelled>>

\* A page is kept as it arrives; two policies of one name overwrite each other.
Kept(had, u, page) ==
    CASE page.kind = "product"    -> [had EXCEPT !.products = Append(@, u)]
      [] page.kind = "collection" -> [had EXCEPT !.collections = Append(@, u)]
      [] page.kind = "policy"     -> [had EXCEPT !.policies =
             [s \in DOMAIN @ \cup {page.slug} |-> IF s = page.slug THEN u ELSE @[s]]]

PageRead(c, u, page) ==
    /\ fetch' = [fetch EXCEPT ![c] = Released(c, u)]
    /\ seen' = [seen EXCEPT ![c] = IF page = None THEN @ ELSE Kept(@, u, page)]
    /\ UNCHANGED <<stage, todo>>

GoOn(c, u, found) ==
    CASE stage[c] = "robots"  -> Robots(c, IF found THEN Of(c).robots ELSE [kind |-> "missing"])
      [] stage[c] = "home"    -> HomeRead(c, IF found THEN Of(c).pages[u] ELSE None)
      [] stage[c] = "sitemap" -> SitemapRead(c, IF found THEN Of(c).sitemaps[u] ELSE None)
      [] stage[c] = "pages"   -> PageRead(c, u, IF found THEN Of(c).pages[u] ELSE None)

There(c, u) ==
    CASE stage[c] = "robots"  -> Of(c).robots.kind # "missing"
      [] stage[c] = "sitemap" -> u \in DOMAIN Of(c).sitemaps
      [] OTHER                -> ~ Of(c).pages[u].broken

\* The page is read, or is answered with an error, which counts as no page.
Answer(c, u) ==
    /\ u \in Steps(c, {"http"})
    /\ GoOn(c, u, There(c, u))
    /\ UNCHANGED <<store, lost, cancelled>>

\* The page is there and the fetch fails: no answer in time, a broken connection.
Lose(c, u) ==
    /\ u \in Steps(c, {"http"}) /\ There(c, u) /\ lost[c] < MaxLost
    /\ GoOn(c, u, FALSE)
    /\ lost' = [lost EXCEPT ![c] = @ + 1]
    /\ UNCHANGED <<store, cancelled>>

\* The worker is told to stop: what still waits or is under way fails.
Cancel(c) ==
    /\ stage[c] \in {"robots", "home", "sitemap", "pages"} /\ ~ cancelled[c]
    /\ cancelled' = [cancelled EXCEPT ![c] = TRUE]
    /\ UNCHANGED <<store, stage, fetch, todo, seen, lost>>

Abandon(c, u) ==
    /\ cancelled[c] /\ u \in DOMAIN fetch[c]
    /\ GoOn(c, u, FALSE)
    /\ UNCHANGED <<store, lost, cancelled>>

\* g.Wait: every fetch is over.
Crawled(c) ==
    /\ stage[c] = "pages" /\ fetch[c] = NoPages
    /\ stage' = [stage EXCEPT ![c] = "crawled"]
    /\ UNCHANGED <<store, fetch, todo, seen, lost, cancelled>>

\* The CheckContext of a crawl that went well.
Context(c) ==
    [secure |-> Of(c).secure, robots |-> seen[c].robots, sitemap |-> seen[c].sitemap,
     home |-> Of(c).pages[Home],
     products |-> [i \in DOMAIN seen[c].products |-> Of(c).pages[seen[c].products[i]]],
     collections |-> [i \in DOMAIN seen[c].collections |-> Of(c).pages[seen[c].collections[i]]],
     policies |-> [s \in DOMAIN seen[c].policies |-> Of(c).pages[seen[c].policies[s]]],
     gmc |-> IF seen[c].gmc THEN Of(c).google ELSE None]

Fetching(c) == \E u \in DOMAIN fetch[c] : Acquire(c, u) \/ Answer(c, u) \/ Abandon(c, u)

CrawlStep(c) == Fetching(c) \/ NextSitemap(c) \/ FanOut(c) \/ Crawled(c)

CrawlEvent(c) == Begin(c) \/ Cancel(c) \/ \E u \in DOMAIN fetch[c] : Lose(c, u)

=============================================================================
