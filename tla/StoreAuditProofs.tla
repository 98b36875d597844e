-------------------------- MODULE StoreAuditProofs ---------------------------
(***************************************************************************)
(* What the report on a store promises, whatever the stores, the crawls    *)
(* and the limits are.  First what a crawl has of its store, then what its *)
(* report holds; from these, that new issues are explained, that Google's  *)
(* findings are reported once, and, by counting the rows of the two checks *)
(* that depend on an order, that what was seen decides the score.          *)
(***************************************************************************)
EXTENDS StoreAuditProperties, FiniteSetTheorems, WellFoundedInduction, TLAPS

-----------------------------------------------------------------------------
(* What a crawl has.                                                       *)

Stages == {"idle", "robots", "home", "sitemap", "pages", "error", "crawled", "synced",
           "unsaved", "saved"}
Fields == {"robots", "products", "collections", "policies", "sitemap", "gmc"}

OfKind(c, kind) == {u \in DOMAIN Of(c).pages : Of(c).pages[u].kind = kind}

RobotsRead(c) ==
    \/ seen[c].robots = [kind |-> "missing"]
    \/ seen[c].robots = Of(c).robots /\ Of(c).robots.kind # "missing"

\* A crawl keeps pages of its store, each product once, and a policy by its slug.
Known(c) ==
    /\ seen[c] = [f \in Fields |-> seen[c][f]]
    /\ seen[c].products \in Seq(OfKind(c, "product"))
    /\ seen[c].collections \in Seq(OfKind(c, "collection"))
    /\ \A i, j \in DOMAIN seen[c].products : seen[c].products[i] = seen[c].products[j] => i = j
    /\ IsFiniteSet(DOMAIN seen[c].policies)
    /\ \A s \in DOMAIN seen[c].policies :
          seen[c].policies[s] \in OfKind(c, "policy") /\ Of(c).pages[seen[c].policies[s]].slug = s
    /\ seen[c].sitemap \in Nat
    /\ seen[c].gmc \in BOOLEAN /\ (seen[c].gmc => Of(c).google # None)

\* A page is fetched once: what is under way has not arrived.
InCourse(c) ==
    /\ stage[c] \in Stages
    /\ DOMAIN fetch[c] # {} => stage[c] \in {"robots", "home", "sitemap", "pages"}
    /\ stage[c] \notin {"idle", "robots", "error"} => RobotsRead(c)
    /\ stage[c] \in {"idle", "robots", "home", "sitemap"} => seen[c].products = <<>>
    /\ stage[c] = "pages" =>
          \A u \in DOMAIN fetch[c] :
             /\ \E kind \in Fetched : u \in OfKind(c, kind)
             /\ \A i \in DOMAIN seen[c].products : seen[c].products[i] # u

Functional ==
    /\ store \in [Crawls -> DOMAIN Site]
    /\ stage = [c \in Crawls |-> stage[c]]
    /\ fetch = [c \in Crawls |-> fetch[c]]
    /\ seen = [c \in Crawls |-> seen[c]]

CInv == Functional /\ \A c \in Crawls : Known(c) /\ InCourse(c)

LEMMA SiteIsData ==
    ASSUME Functional, NEW c \in Crawls
    PROVE  SiteData(Of(c))
BY CrawlerConstants DEF Functional, Of

LEMMA InitCInv == Init => CInv
<1> SUFFICES ASSUME Init PROVE CInv
  OBVIOUS
<1>1. Functional
  BY DEF Init, CrawlInit, Functional
<1>2. ASSUME NEW c \in Crawls PROVE Known(c) /\ InCourse(c)
  <2>1. seen[c] = Nothing /\ stage[c] = "idle" /\ fetch[c] = NoPages
    BY DEF Init, CrawlInit
  <2>2. DOMAIN NoPages = {} /\ IsFiniteSet(DOMAIN NoPages)
    BY FS_EmptySet DEF NoPages
  <2> QED
    BY <2>1, <2>2 DEF Known, InCourse, Nothing, Fields, Stages
<1> QED
  BY <1>1, <1>2 DEF CInv

\* Only crawl c goes on.
Only(c) ==
    /\ store' = store
    /\ stage' = [d \in Crawls |-> stage'[d]]
    /\ fetch' = [d \in Crawls |-> fetch'[d]]
    /\ seen' = [d \in Crawls |-> seen'[d]]
    /\ \A d \in Crawls \ {c} : stage'[d] = stage[d] /\ fetch'[d] = fetch[d] /\ seen'[d] = seen[d]

LEMMA OthersKeep ==
    ASSUME CInv, NEW c \in Crawls, Only(c), Known(c)', InCourse(c)'
    PROVE  CInv'
<1>1. \A d \in Crawls : Of(d)' = Of(d)
  BY DEF Only, Of
<1>2. ASSUME NEW d \in Crawls \ {c} PROVE Known(d)' /\ InCourse(d)'
  <2>1. Of(d)' = Of(d) /\ stage'[d] = stage[d] /\ fetch'[d] = fetch[d] /\ seen'[d] = seen[d]
    BY <1>1 DEF Only
  <2>2. \A kind : OfKind(d, kind)' = OfKind(d, kind)
    BY <2>1 DEF OfKind
  <2>3. Known(d) /\ InCourse(d)
    BY DEF CInv
  <2>4. Known(d)'
    <3>1. \A s \in DOMAIN seen'[d].policies :
             seen'[d].policies[s] \in OfKind(d, "policy")' /\ Of(d)'.pages[seen'[d].policies[s]].slug = s
      <4>1. \A s \in DOMAIN seen[d].policies :
               seen[d].policies[s] \in OfKind(d, "policy") /\ Of(d).pages[seen[d].policies[s]].slug = s
        BY <2>3 DEF Known
      <4>2. OfKind(d, "policy")' = OfKind(d, "policy")
        BY <2>2
      <4> QED
        BY <2>1, <4>1, <4>2
    <3>2. \A i, j \in DOMAIN seen'[d].products :
             seen'[d].products[i] = seen'[d].products[j] => i = j
      BY <2>1, <2>3 DEF Known
    <3> QED
      BY <3>1, <3>2, <2>1, <2>2, <2>3 DEF Known
  <2>5. InCourse(d)'
    BY <2>1, <2>2, <2>3 DEF InCourse, RobotsRead
  <2> QED
    BY <2>4, <2>5
<1>3. Functional'
  BY DEF Only, CInv, Functional
<1> QED
  BY <1>2, <1>3 DEF CInv

\* The crawl learns nothing.
LEMMA StageKeeps ==
    ASSUME CInv, NEW c \in Crawls, Only(c), seen' = seen,
           stage'[c] \in Stages,
           DOMAIN fetch'[c] # {} => stage'[c] \in {"robots", "home", "sitemap", "pages"},
           stage'[c] \notin {"idle", "robots", "error"} => stage[c] \notin {"idle", "robots", "error"},
           stage'[c] \in {"idle", "robots", "home", "sitemap"} =>
               stage[c] \in {"idle", "robots", "home", "sitemap"},
           stage'[c] = "pages" =>
               \/ stage[c] = "pages" /\ DOMAIN fetch'[c] \subseteq DOMAIN fetch[c]
               \/ /\ stage[c] = "sitemap"
                  /\ \A u \in DOMAIN fetch'[c] : \E kind \in Fetched : u \in OfKind(c, kind)
    PROVE  CInv'
<1>1. Of(c)' = Of(c)
  BY DEF Only, Of
<1>2. \A kind : OfKind(c, kind)' = OfKind(c, kind)
  BY <1>1 DEF OfKind
<1>3. Known(c)'
  BY <1>1, <1>2 DEF CInv, Known
<1>4. InCourse(c)'
  BY <1>1, <1>2 DEF CInv, InCourse, RobotsRead
<1> QED
  BY <1>3, <1>4, OthersKeep

LEMMA BeginKeeps ==
    ASSUME CInv, NEW c \in Crawls, Begin(c)
    PROVE  Only(c) /\ CInv'
<1>1. Only(c)
  BY DEF Begin, Only, CInv, Functional
<1>2. stage'[c] = "robots" /\ seen' = seen
  BY DEF Begin, CInv, Functional
<1> QED
  BY <1>1, <1>2, StageKeeps DEF Begin, Stages

LEMMA AcquireKeeps ==
    ASSUME CInv, NEW c \in Crawls, NEW u, Acquire(c, u)
    PROVE  Only(c) /\ CInv'
<1>1. Only(c) /\ seen' = seen /\ stage'[c] = stage[c] /\ DOMAIN fetch'[c] = DOMAIN fetch[c]
  BY DEF Acquire, Only, CInv, Functional
<1> QED
  BY <1>1, StageKeeps DEF CInv, InCourse

LEMMA CancelKeeps ==
    ASSUME CInv, NEW c \in Crawls, UNCHANGED <<store, stage, fetch, seen>>
    PROVE  Only(c) /\ CInv'
<1>1. Only(c)
  BY DEF Only, CInv, Functional
<1> QED
  BY <1>1, StageKeeps DEF CInv, InCourse

LEMMA NextSitemapKeeps ==
    ASSUME CInv, NEW c \in Crawls, NextSitemap(c)
    PROVE  Only(c) /\ CInv'
<1>1. Only(c) /\ seen' = seen /\ stage'[c] = "sitemap"
  BY DEF NextSitemap, Only, CInv, Functional
<1> QED
  BY <1>1, StageKeeps DEF NextSitemap, Stages

LEMMA CrawledKeeps ==
    ASSUME CInv, NEW c \in Crawls, Crawled(c)
    PROVE  Only(c) /\ CInv'
<1>1. Only(c) /\ seen' = seen /\ stage'[c] = "crawled" /\ DOMAIN fetch'[c] = {}
  BY DEF Crawled, Only, CInv, Functional, NoPages
<1> QED
  BY <1>1, StageKeeps DEF Crawled, Stages

LEMMA FanOutKeeps ==
    ASSUME CInv, NEW c \in Crawls, FanOut(c)
    PROVE  Only(c) /\ CInv'
<1>1. Only(c) /\ seen' = seen /\ stage'[c] = "pages"
  BY DEF FanOut, Only, CInv, Functional
<1>2. ASSUME NEW u \in DOMAIN fetch'[c] PROVE \E kind \in Fetched : u \in OfKind(c, kind)
  <2>1. DOMAIN fetch'[c] \subseteq UNION {Discovered(c, k) : k \in DOMAIN Budget}
    BY DEF FanOut, Waiting, CInv, Functional
  <2>2. PICK k \in DOMAIN Budget : u \in Discovered(c, k)
    BY <2>1
  <2>3. k \in Fetched
    BY CrawlerConstants
  <2>4. ToSet(Of(c).pages[Home].anchors) \subseteq DOMAIN Of(c).pages
    BY SiteIsData DEF CInv, SiteData
  <2> QED
    BY <2>2, <2>3, <2>4 DEF Discovered, OfKind
<1> QED
  BY <1>1, <1>2, StageKeeps DEF FanOut, Stages

-----------------------------------------------------------------------------
(* A fetch ends.                                                           *)

LEMMA RobotsKeeps ==
    ASSUME CInv, NEW c \in Crawls, stage[c] = "robots", store' = store, NEW answer, Robots(c, answer),
           \/ answer = [kind |-> "missing"]
           \/ answer = Of(c).robots /\ answer.kind # "missing"
    PROVE  Only(c) /\ CInv'
<1> DEFINE s == seen[c]
<1>1. Only(c) /\ stage'[c] \in {"error", "home"} /\ (stage'[c] = "error" => DOMAIN fetch'[c] = {})
  <2>1. seen' = [seen EXCEPT ![c].robots = answer]
    BY DEF Robots
  <2>2. \/ stage' = [stage EXCEPT ![c] = "error"] /\ fetch' = [fetch EXCEPT ![c] = NoPages]
        \/ stage' = [stage EXCEPT ![c] = "home"] /\ fetch' = [fetch EXCEPT ![c] = Waiting({Home})]
    BY DEF Robots
  <2>3. \A d \in Crawls \ {c} : seen'[d] = seen[d]
    BY <2>1 DEF CInv, Functional
  <2>4. seen' = [d \in Crawls |-> seen'[d]]
    BY <2>1 DEF CInv, Functional
  <2>5. CASE stage' = [stage EXCEPT ![c] = "error"] /\ fetch' = [fetch EXCEPT ![c] = NoPages]
    BY <2>3, <2>4, <2>5 DEF Only, CInv, Functional, NoPages
  <2>6. CASE stage' = [stage EXCEPT ![c] = "home"] /\ fetch' = [fetch EXCEPT ![c] = Waiting({Home})]
    BY <2>3, <2>4, <2>6 DEF Only, CInv, Functional
  <2> QED
    BY <2>2, <2>5, <2>6
<1>2. seen'[c] = [s EXCEPT !.robots = answer]
  BY DEF Robots, CInv, Functional
<1>3. Of(c)' = Of(c) /\ \A kind : OfKind(c, kind)' = OfKind(c, kind)
  BY <1>1 DEF Only, Of, OfKind
<1>4. Known(c) /\ InCourse(c)
  BY DEF CInv
<1>5. seen'[c] = [f \in Fields |-> seen'[c][f]]
  BY <1>2, <1>4 DEF Known
<1>6. /\ seen'[c].robots = answer /\ seen'[c].products = s.products
      /\ seen'[c].collections = s.collections /\ seen'[c].policies = s.policies
      /\ seen'[c].sitemap = s.sitemap /\ seen'[c].gmc = s.gmc
  BY <1>2, <1>4 DEF Known, Fields
<1>7. Known(c)'
  BY <1>3, <1>4, <1>5, <1>6 DEF Known
<1>8. InCourse(c)'
  BY <1>1, <1>3, <1>4, <1>6 DEF InCourse, RobotsRead, Stages
<1> QED
  BY <1>1, <1>7, <1>8, OthersKeep

LEMMA HomeReadKeeps ==
    ASSUME CInv, NEW c \in Crawls, stage[c] = "home", store' = store, NEW page, HomeRead(c, page)
    PROVE  Only(c) /\ CInv'
<1>1. Only(c) /\ seen' = seen /\ stage'[c] \in {"error", "sitemap"} /\ DOMAIN fetch'[c] = {}
  BY DEF HomeRead, Only, CInv, Functional, NoPages
<1> QED
  BY <1>1, StageKeeps DEF Stages

LEMMA SitemapReadKeeps ==
    ASSUME CInv, NEW c \in Crawls, stage[c] = "sitemap", store' = store, NEW map, SitemapRead(c, map),
           map # None => map.urls \in Nat
    PROVE  Only(c) /\ CInv'
<1> DEFINE s == seen[c]
           urls == IF map # None /\ map.index = <<>> THEN map.urls ELSE 0
<1>1. Only(c) /\ stage'[c] = "sitemap" /\ DOMAIN fetch'[c] = {}
  BY DEF SitemapRead, Only, CInv, Functional, NoPages
<1>2. seen'[c] = [s EXCEPT !.sitemap = s.sitemap + urls]
  BY DEF SitemapRead, CInv, Functional
<1>3. Of(c)' = Of(c) /\ \A kind : OfKind(c, kind)' = OfKind(c, kind)
  BY <1>1 DEF Only, Of, OfKind
<1>4. Known(c) /\ InCourse(c)
  BY DEF CInv
<1>5. urls \in Nat
  OBVIOUS
<1> HIDE DEF urls
<1>6. seen'[c] = [f \in Fields |-> seen'[c][f]]
  BY <1>2, <1>4 DEF Known
<1>7. /\ seen'[c].robots = s.robots /\ seen'[c].products = s.products
      /\ seen'[c].collections = s.collections /\ seen'[c].policies = s.policies
      /\ seen'[c].sitemap \in Nat /\ seen'[c].gmc = s.gmc
  BY <1>2, <1>4, <1>5 DEF Known, Fields
<1>8. Known(c)'
  BY <1>3, <1>4, <1>6, <1>7 DEF Known
<1>9. InCourse(c)'
  BY <1>1, <1>3, <1>4, <1>7 DEF InCourse, RobotsRead, Stages
<1> QED
  BY <1>1, <1>8, <1>9, OthersKeep

LEMMA PageReadKeeps ==
    ASSUME CInv, NEW c \in Crawls, stage[c] = "pages", store' = store,
           NEW u \in DOMAIN fetch[c], NEW page, page \in {None, Of(c).pages[u]}, PageRead(c, u, page)
    PROVE  Only(c) /\ CInv'
<1> DEFINE s == seen[c]
<1>1. Only(c) /\ stage'[c] = "pages" /\ DOMAIN fetch'[c] = DOMAIN fetch[c] \ {u}
  <2>1. PICK new : seen' = [seen EXCEPT ![c] = new]
    BY DEF PageRead
  <2> QED
    BY <2>1 DEF PageRead, Only, CInv, Functional, Released
<1>2. Of(c)' = Of(c) /\ \A kind : OfKind(c, kind)' = OfKind(c, kind)
  BY <1>1 DEF Only, Of, OfKind
<1>3. Known(c) /\ InCourse(c)
  BY DEF CInv
<1>4. page # None => u \in OfKind(c, page.kind) /\ page.kind \in Fetched
  <2>1. PICK kind \in Fetched : u \in OfKind(c, kind)
    BY <1>3 DEF InCourse
  <2> QED
    BY <2>1, SiteIsData DEF OfKind, CInv, SiteData, PageData
<1>5. \A n \in DOMAIN s.policies :
         s.policies[n] \in OfKind(c, "policy") /\ Of(c).pages[s.policies[n]].slug = n
  BY <1>3 DEF Known
<1>6. CASE page = None
  <2>1. seen'[c] = s
    BY <1>6 DEF PageRead, Kept, CInv, Functional
  <2>2. seen' = seen
    BY <1>1, <2>1 DEF Only, CInv, Functional
  <2> QED
    BY <1>1, <2>2, StageKeeps DEF Stages
<1>7. CASE page # None /\ page.kind = "product"
  <2>1. seen'[c] = [s EXCEPT !.products = Append(s.products, u)]
    BY <1>7 DEF PageRead, Kept, CInv, Functional
  <2>2. seen'[c] = [f \in Fields |-> seen'[c][f]]
    BY <2>1, <1>3 DEF Known
  <2>3. /\ seen'[c].robots = s.robots /\ seen'[c].products = Append(s.products, u)
        /\ seen'[c].collections = s.collections /\ seen'[c].policies = s.policies
        /\ seen'[c].sitemap = s.sitemap /\ seen'[c].gmc = s.gmc
    BY <2>1, <1>3 DEF Known, Fields
  <2>4. s.products \in Seq(OfKind(c, "product")) /\ u \in OfKind(c, "product")
    BY <1>3, <1>4, <1>7 DEF Known
  <2>5. /\ Append(s.products, u) \in Seq(OfKind(c, "product"))
        /\ DOMAIN Append(s.products, u) = 1..Len(s.products) + 1
        /\ \A i \in DOMAIN s.products : Append(s.products, u)[i] = s.products[i]
        /\ Append(s.products, u)[Len(s.products) + 1] = u
        /\ DOMAIN s.products = 1..Len(s.products) /\ Len(s.products) \in Nat
    BY <2>4
  <2>6. \A i \in DOMAIN s.products : s.products[i] # u
    BY <1>3 DEF InCourse
  <2>7. Known(c)'
    <3>1. \A i, j \in DOMAIN Append(s.products, u) :
             Append(s.products, u)[i] = Append(s.products, u)[j] => i = j
      <4>1. \A i, j \in DOMAIN s.products : s.products[i] = s.products[j] => i = j
        BY <1>3 DEF Known
      <4>2. \A i \in DOMAIN Append(s.products, u) :
               i \in DOMAIN s.products \/ i = Len(s.products) + 1
        BY <2>5
      <4>3. ASSUME NEW i \in DOMAIN s.products
            PROVE  Append(s.products, u)[i] # Append(s.products, u)[Len(s.products) + 1]
        BY <2>5, <2>6
      <4>4. ASSUME NEW i \in DOMAIN s.products, NEW j \in DOMAIN s.products,
                   Append(s.products, u)[i] = Append(s.products, u)[j]
            PROVE  i = j
        BY <2>5, <4>1, <4>4
      <4> QED
        BY <4>2, <4>3, <4>4
    <3>2. \A i, j \in DOMAIN seen'[c].products :
             seen'[c].products[i] = seen'[c].products[j] => i = j
      BY <3>1, <2>3
    <3>3. seen'[c].products \in Seq(OfKind(c, "product"))
      BY <2>3, <2>5
    <3>4. seen'[c].collections \in Seq(OfKind(c, "collection")')
      BY <1>2, <1>3, <2>3 DEF Known
    <3>5. \A n \in DOMAIN seen'[c].policies :
             seen'[c].policies[n] \in OfKind(c, "policy")' /\ Of(c)'.pages[seen'[c].policies[n]].slug = n
      BY <1>2, <2>3, <1>5
    <3> QED
      BY <3>2, <3>3, <3>4, <3>5, <2>2, <2>3, <1>2, <1>3 DEF Known
  <2>8. InCourse(c)'
    <3>1. \A v \in DOMAIN fetch'[c] : \A i \in DOMAIN Append(s.products, u) :
             Append(s.products, u)[i] # v
      BY <1>1, <1>3, <2>5 DEF InCourse
    <3> QED
      BY <3>1, <1>1, <1>2, <1>3, <2>3 DEF InCourse, RobotsRead, Stages
  <2> QED
    BY <1>1, <2>7, <2>8, OthersKeep
<1>8. CASE page # None /\ page.kind = "collection"
  <2>1. seen'[c] = [s EXCEPT !.collections = Append(s.collections, u)]
    BY <1>8 DEF PageRead, Kept, CInv, Functional
  <2>2. seen'[c] = [f \in Fields |-> seen'[c][f]]
    BY <2>1, <1>3 DEF Known
  <2>3. /\ seen'[c].robots = s.robots /\ seen'[c].products = s.products
        /\ seen'[c].collections = Append(s.collections, u) /\ seen'[c].policies = s.policies
        /\ seen'[c].sitemap = s.sitemap /\ seen'[c].gmc = s.gmc
    BY <2>1, <1>3 DEF Known, Fields
  <2>4. Append(s.collections, u) \in Seq(OfKind(c, "collection"))
    BY <1>3, <1>4, <1>8 DEF Known
  <2>5. Known(c)'
    <3>1. \A i, j \in DOMAIN seen'[c].products :
             seen'[c].products[i] = seen'[c].products[j] => i = j
      BY <2>3, <1>3 DEF Known
    <3>2. \A n \in DOMAIN seen'[c].policies :
             seen'[c].policies[n] \in OfKind(c, "policy")' /\ Of(c)'.pages[seen'[c].policies[n]].slug = n
      BY <1>2, <2>3, <1>5
    <3> QED
      BY <3>1, <3>2, <2>2, <2>3, <2>4, <1>2, <1>3 DEF Known
  <2>6. InCourse(c)'
    BY <1>1, <1>2, <1>3, <2>3 DEF InCourse, RobotsRead, Stages
  <2> QED
    BY <1>1, <2>5, <2>6, OthersKeep
<1>9. CASE page # None /\ page.kind = "policy"
  <2> DEFINE kept == [n \in DOMAIN s.policies \cup {page.slug} |->
                         IF n = page.slug THEN u ELSE s.policies[n]]
  <2>1. seen'[c] = [s EXCEPT !.policies = kept]
    BY <1>9 DEF PageRead, Kept, CInv, Functional
  <2>2. seen'[c] = [f \in Fields |-> seen'[c][f]]
    BY <2>1, <1>3 DEF Known
  <2>3. /\ seen'[c].robots = s.robots /\ seen'[c].products = s.products
        /\ seen'[c].collections = s.collections /\ seen'[c].policies = kept
        /\ seen'[c].sitemap = s.sitemap /\ seen'[c].gmc = s.gmc
    BY <2>1, <1>3 DEF Known, Fields
  <2>4. \A n \in DOMAIN kept : kept[n] \in OfKind(c, "policy") /\ Of(c).pages[kept[n]].slug = n
    BY <1>3, <1>4, <1>9 DEF Known
  <2>8. IsFiniteSet(DOMAIN kept)
    BY <1>3, FS_AddElement DEF Known
  <2> HIDE DEF kept
  <2>5. \A n \in DOMAIN seen'[c].policies :
           seen'[c].policies[n] \in OfKind(c, "policy") /\ Of(c).pages[seen'[c].policies[n]].slug = n
    BY <2>3, <2>4
  <2>6. Known(c)'
    <3>1. \A n \in DOMAIN seen'[c].policies :
             seen'[c].policies[n] \in OfKind(c, "policy")' /\ Of(c)'.pages[seen'[c].policies[n]].slug = n
      BY <2>5, <1>2
    <3>2. \A i, j \in DOMAIN seen'[c].products :
             seen'[c].products[i] = seen'[c].products[j] => i = j
      BY <2>3, <1>3 DEF Known
    <3> QED
      BY <3>1, <3>2, <2>2, <2>3, <2>8, <1>2, <1>3 DEF Known
  <2>7. InCourse(c)'
    BY <1>1, <1>2, <1>3, <2>3 DEF InCourse, RobotsRead, Stages
  <2> QED
    BY <1>1, <2>6, <2>7, OthersKeep
<1> QED
  BY <1>4, <1>6, <1>7, <1>8, <1>9 DEF Fetched

LEMMA GoOnKeeps ==
    ASSUME CInv, NEW c \in Crawls, NEW u \in DOMAIN fetch[c], NEW found,
           found => There(c, u), GoOn(c, u, found), store' = store
    PROVE  Only(c) /\ CInv'
<1>1. stage[c] \in {"robots", "home", "sitemap", "pages"}
  BY DEF CInv, InCourse
<1>2. CASE stage[c] = "robots"
  BY <1>2, RobotsKeeps DEF GoOn, There
<1>3. CASE stage[c] = "home"
  BY <1>3, HomeReadKeeps DEF GoOn
<1>4. CASE stage[c] = "sitemap"
  <2>1. found => Of(c).sitemaps[u].urls \in Nat
    BY <1>4, SiteIsData DEF There, SiteData, CInv
  <2> QED
    BY <1>4, <2>1, SitemapReadKeeps DEF GoOn
<1>5. CASE stage[c] = "pages"
  BY <1>5, PageReadKeeps DEF GoOn
<1> QED
  BY <1>1, <1>2, <1>3, <1>4, <1>5

LEMMA FetchKeeps ==
    ASSUME CInv, NEW c \in Crawls, NEW u, Answer(c, u) \/ Lose(c, u) \/ Abandon(c, u)
    PROVE  Only(c) /\ CInv'
<1>1. PICK found : (found => There(c, u)) /\ GoOn(c, u, found)
  BY DEF Answer, Lose, Abandon
<1>2. u \in DOMAIN fetch[c] /\ store' = store
  BY DEF Answer, Lose, Abandon, Steps
<1> QED
  BY <1>1, <1>2, GoOnKeeps

LEMMA SyncKeeps ==
    ASSUME CInv, NEW c \in Crawls, Sync(c)
    PROVE  Only(c) /\ CInv'
<1> DEFINE s == seen[c]
<1>1. Only(c) /\ stage'[c] = "synced" /\ DOMAIN fetch'[c] = {}
  BY DEF Sync, Only, CInv, Functional, InCourse
<1>2. PICK gmc \in BOOLEAN : seen'[c] = [s EXCEPT !.gmc = gmc] /\ (gmc => Of(c).google # None)
  <2>1. CASE seen' = [seen EXCEPT ![c].gmc = Of(c).google # None]
    BY <2>1 DEF CInv, Functional
  <2>2. CASE seen' = seen
    <3>1. s = [s EXCEPT !.gmc = s.gmc] /\ s.gmc \in BOOLEAN /\ (s.gmc => Of(c).google # None)
      BY DEF CInv, Known
    <3> QED
      BY <2>2, <3>1
  <2> QED
    BY <2>1, <2>2 DEF Sync
<1>3. Of(c)' = Of(c) /\ \A kind : OfKind(c, kind)' = OfKind(c, kind)
  BY <1>1 DEF Only, Of, OfKind
<1>4. Known(c) /\ InCourse(c) /\ stage[c] = "crawled"
  BY DEF CInv, Sync
<1>5. seen'[c] = [f \in Fields |-> seen'[c][f]]
  BY <1>2, <1>4 DEF Known
<1>6. /\ seen'[c].robots = s.robots /\ seen'[c].products = s.products
      /\ seen'[c].collections = s.collections /\ seen'[c].policies = s.policies
      /\ seen'[c].sitemap = s.sitemap /\ seen'[c].gmc = gmc
  BY <1>2, <1>4 DEF Known, Fields
<1>7. Known(c)'
  <2>1. gmc \in BOOLEAN /\ (gmc => Of(c)'.google # None)
    BY <1>2, <1>3
  <2> QED
    BY <2>1, <1>3, <1>4, <1>5, <1>6 DEF Known
<1>8. InCourse(c)'
  BY <1>1, <1>3, <1>4, <1>6 DEF InCourse, RobotsRead, Stages
<1> QED
  BY <1>1, <1>7, <1>8, OthersKeep

LEMMA ReportKeeps ==
    ASSUME CInv, NEW c \in Crawls, Report(c)
    PROVE  Only(c) /\ CInv'
<1>1. Only(c) /\ seen' = seen /\ stage'[c] \in {"unsaved", "saved"} /\ DOMAIN fetch'[c] = {}
  BY DEF Report, Only, CInv, Functional, InCourse
<1> QED
  BY <1>1, StageKeeps DEF Report, Stages

\* One crawl goes on, and it is not one that has come to its end.
LEMMA CInvStep ==
    ASSUME CInv, Next
    PROVE  /\ CInv'
           /\ \E c \in Crawls :
                 /\ Only(c) /\ stage[c] \notin {"error", "unsaved", "saved"}
                 /\ UNCHANGED <<report, saved>> \/ Report(c)
                 /\ stage'[c] = "saved" => Report(c)
<1>1. PICK c \in Crawls : Step(c) \/ (CrawlEvent(c) /\ UNCHANGED <<report, saved>>)
  BY DEF Next
<1>2. InCourse(c)
  BY DEF CInv
<1>3. CASE Begin(c) /\ UNCHANGED <<report, saved>>
  BY <1>3, BeginKeeps DEF Begin, CInv, Functional
<1>4. CASE Cancel(c) /\ UNCHANGED <<report, saved>>
  BY <1>4, CancelKeeps DEF Cancel
<1>5. CASE NextSitemap(c) /\ UNCHANGED <<report, saved>>
  BY <1>5, NextSitemapKeeps DEF NextSitemap
<1>6. CASE FanOut(c) /\ UNCHANGED <<report, saved>>
  BY <1>6, FanOutKeeps DEF FanOut, CInv, Functional
<1>7. CASE Crawled(c) /\ UNCHANGED <<report, saved>>
  BY <1>7, CrawledKeeps DEF Crawled, CInv, Functional
<1>8. ASSUME NEW u, Acquire(c, u), UNCHANGED <<report, saved>>
      PROVE  CInv' /\ Only(c) /\ stage'[c] = stage[c] /\ stage[c] \notin {"error", "unsaved", "saved"}
  BY <1>2, <1>8, AcquireKeeps DEF Acquire, InCourse
<1>9. ASSUME NEW u, Answer(c, u) \/ Lose(c, u) \/ Abandon(c, u), UNCHANGED <<report, saved>>
      PROVE  CInv' /\ Only(c) /\ stage'[c] # "saved" /\ stage[c] \notin {"error", "unsaved", "saved"}
  <2>1. u \in DOMAIN fetch[c] /\ \E found : GoOn(c, u, found)
    BY <1>9 DEF Answer, Lose, Abandon, Steps
  <2>2. stage[c] \in {"robots", "home", "sitemap", "pages"}
    BY <1>2, <2>1 DEF InCourse
  <2>3. stage'[c] # "saved"
    BY <2>1, <2>2 DEF GoOn, Robots, HomeRead, SitemapRead, PageRead, CInv, Functional
  <2> QED
    BY <1>9, <2>2, <2>3, FetchKeeps
<1>10. CASE Sync(c)
  BY <1>10, SyncKeeps DEF Sync, CInv, Functional
<1>11. CASE Report(c)
  BY <1>11, ReportKeeps DEF Report
<1> QED
  BY <1>1, <1>3, <1>4, <1>5, <1>6, <1>7, <1>8, <1>9, <1>10, <1>11
     DEF Step, CrawlStep, CrawlEvent, Fetching

-----------------------------------------------------------------------------
(* What a report holds.                                                    *)

Written(c, baseline) ==
    LET results == Results(Context(c), baseline) IN
    /\ report[c].score = Score(results) /\ report[c].counts = Counts(results)
    /\ report[c].rows = Rows(results)

Compared(c, b) ==
    /\ b \in Crawls /\ stage[b] = "saved" /\ store[b] = store[c]
    /\ report[c].new = NewIssues(report[b].rows, report[c].rows)

\* The report is what the checks say of what the crawl has, compared with a report
\* on the same store.
Content(c) ==
    /\ \E baseline \in Baselines(Context(c)) : Written(c, baseline)
    /\ report[c].before # None => Compared(c, report[c].before)

RInv ==
    /\ saved \in Seq(Crawls) /\ \A n \in DOMAIN saved : stage[saved[n]] = "saved"
    /\ report = [c \in Crawls |-> report[c]]
    /\ \A c \in Crawls : IF stage[c] = "saved" THEN Content(c) ELSE report[c] = None

IInv == CInv /\ RInv

LEMMA InitIInv == Init => IInv
<1> SUFFICES ASSUME Init PROVE RInv
  BY InitCInv DEF IInv
<1>1. saved \in Seq(Crawls) /\ DOMAIN saved = {}
  BY DEF Init
<1>2. \A c \in Crawls : stage[c] = "idle" /\ report[c] = None
  BY DEF Init, CrawlInit
<1> QED
  BY <1>1, <1>2 DEF Init, RInv

\* What was saved stays.
LEMMA ContentStays ==
    ASSUME NEW c \in Crawls, Content(c), store' = store, seen'[c] = seen[c], report'[c] = report[c],
           \A b \in Crawls : stage[b] = "saved" => stage'[b] = "saved" /\ report'[b] = report[b]
    PROVE  Content(c)'
<1>1. Of(c)' = Of(c)
  BY DEF Of
<1>2. Context(c)' = Context(c)
  BY <1>1 DEF Context
<1>3. \E baseline \in Baselines(Context(c))' : Written(c, baseline)'
  <2>1. PICK baseline \in Baselines(Context(c)) : Written(c, baseline)
    BY DEF Content
  <2>2. Written(c, baseline)'
    BY <2>1, <1>2 DEF Written
  <2> QED
    BY <2>1, <2>2, <1>2
<1>4. report'[c].before # None => Compared(c, report[c].before)'
  BY DEF Content, Compared
<1> QED
  BY <1>3, <1>4 DEF Content

LEMMA NewContent ==
    ASSUME IInv, NEW c \in Crawls, Report(c), ~ cancelled[c],
           \A b \in Crawls : stage[b] = "saved" => stage'[b] = "saved" /\ report'[b] = report[b]
    PROVE  Content(c)'
<1>1. PICK baseline \in Baselines(Context(c)), before \in Before(c) :
         report' = [report EXCEPT ![c] =
             Reported(before, Results(Context(c), baseline), Rows(Results(Context(c), baseline)))]
  BY DEF Report
<1>2. store' = store /\ seen' = seen
  BY DEF Report
<1>3. Of(c)' = Of(c) /\ Context(c)' = Context(c)
  BY <1>2 DEF Of, Context
<1>4. report'[c] = Reported(before, Results(Context(c), baseline), Rows(Results(Context(c), baseline)))
  BY <1>1 DEF IInv, RInv
<1>5. Written(c, baseline)'
  BY <1>3, <1>4 DEF Written, Reported
<1>6. report'[c].before # None => Compared(c, report[c].before)'
  <2>4. report'[c].before = before
    BY <1>4 DEF Reported
  <2> SUFFICES ASSUME before # None PROVE Compared(c, report[c].before)'
    BY <2>4
  <2>1. PICK n \in DOMAIN saved : before = saved[n] /\ store[saved[n]] = store[c]
    BY DEF Before
  <2>2. before \in Crawls /\ stage[before] = "saved" /\ store[before] = store[c]
    BY <2>1 DEF IInv, RInv
  <2>3. report'[c].new = NewIssues(report'[before].rows, report'[c].rows)
    BY <1>4, <2>2 DEF Reported, Fresh
  <2> QED
    BY <1>2, <2>2, <2>3, <2>4 DEF Compared
<1>7. \E b \in Baselines(Context(c))' : Written(c, b)'
  BY <1>3, <1>5
<1> QED
  BY <1>6, <1>7 DEF Content

LEMMA IInvStep == IInv /\ [Next]_vars => IInv'
<1> SUFFICES ASSUME IInv, [Next]_vars PROVE IInv'
  OBVIOUS
<1>1. CASE UNCHANGED vars
  <2>1. \A c \in Crawls : Of(c)' = Of(c)
    BY <1>1 DEF vars, crawling, Of
  <2>2. CInv'
    <3>1. Functional'
      BY <1>1 DEF vars, crawling, Functional, IInv, CInv
    <3>2. ASSUME NEW c \in Crawls PROVE CInv'
      BY <1>1, CancelKeeps DEF vars, crawling, IInv
    <3> QED
      BY <3>1, <3>2 DEF CInv
  <2>3. \A c \in Crawls : Content(c) => Content(c)'
    BY <1>1, ContentStays DEF vars, crawling
  <2>4. RInv'
    BY <1>1, <2>3 DEF vars, crawling, IInv, RInv
  <2> QED
    BY <2>2, <2>4 DEF IInv
<1>2. CASE Next
  <2>1. PICK c \in Crawls :
           /\ Only(c) /\ stage[c] \notin {"error", "unsaved", "saved"}
           /\ UNCHANGED <<report, saved>> \/ Report(c)
           /\ stage'[c] = "saved" => Report(c)
    BY <1>2, CInvStep DEF IInv
  <2>2. /\ report' = [d \in Crawls |-> report'[d]]
        /\ \A d \in Crawls \ {c} : report'[d] = report[d]
    BY <2>1 DEF Report, IInv, RInv
  <2>3. \A b \in Crawls : stage[b] = "saved" => stage'[b] = "saved" /\ report'[b] = report[b]
    BY <2>1, <2>2 DEF Only
  <2>4. ASSUME NEW d \in Crawls \ {c}
        PROVE  IF stage'[d] = "saved" THEN Content(d)' ELSE report'[d] = None
    BY <2>1, <2>2, <2>3, ContentStays DEF Only, IInv, RInv
  <2>5. IF stage'[c] = "saved" THEN Content(c)' ELSE report'[c] = None
    <3>1. CASE stage'[c] = "saved"
      <4>1. Report(c) /\ ~ cancelled[c]
        BY <2>1, <3>1 DEF Report, IInv, CInv, Functional
      <4> QED
        BY <3>1, <4>1, <2>3, NewContent
    <3>2. CASE stage'[c] # "saved"
      <4>1. report' = report
        BY <2>1, <3>2 DEF Report, IInv, CInv, Functional
      <4> QED
        BY <2>1, <3>2, <4>1 DEF IInv, RInv
    <3> QED
      BY <3>1, <3>2
  <2>6. saved' \in Seq(Crawls) /\ \A n \in DOMAIN saved' : stage'[saved'[n]] = "saved"
    <3>1. CASE UNCHANGED saved
      BY <3>1, <2>3 DEF IInv, RInv
    <3>2. CASE Report(c) /\ saved' = Append(saved, c) /\ stage' = [stage EXCEPT ![c] = "saved"]
      <4>1. saved \in Seq(Crawls)
        BY DEF IInv, RInv
      <4>2. /\ Append(saved, c) \in Seq(Crawls)
            /\ \A n \in DOMAIN Append(saved, c) :
                  (n \in DOMAIN saved /\ Append(saved, c)[n] = saved[n]) \/ Append(saved, c)[n] = c
        BY <4>1
      <4>3. stage'[c] = "saved"
        BY <3>2 DEF IInv, CInv, Functional
      <4> QED
        BY <3>2, <4>2, <4>3, <2>3 DEF IInv, RInv
    <3> QED
      BY <2>1, <3>1, <3>2 DEF Report
  <2>7. RInv'
    BY <2>2, <2>4, <2>5, <2>6 DEF RInv
  <2> QED
    BY <1>2, <2>7, CInvStep DEF IInv
<1> QED
  BY <1>1, <1>2

LEMMA AlwaysIInv == Spec => []IInv
BY InitIInv, IInvStep, PTL DEF Spec

-----------------------------------------------------------------------------
(* What a crawl has seen decides what the checks get.                      *)

SeenOfKind(c, kind) == {u \in Seen(c) : u \in OfKind(c, kind)}
PagesOf(c, urls)    == {Of(c).pages[u] : u \in urls}

LEMMA SeenUrls ==
    ASSUME CInv, NEW c \in Crawls
    PROVE  /\ Seen(c) \subseteq DOMAIN Of(c).pages \cup {"robots.txt"}
           /\ "robots.txt" \in Seen(c) <=> seen[c].robots.kind # "missing"
           /\ \A u \in DOMAIN Of(c).pages : Of(c).pages[u].url = u /\ Of(c).pages[u] # None
           /\ "robots.txt" \notin DOMAIN Of(c).pages
           /\ SeenOfKind(c, "product") = ToSet(seen[c].products)
           /\ SeenOfKind(c, "collection") = ToSet(seen[c].collections)
           /\ SeenOfKind(c, "policy") = {seen[c].policies[s] : s \in DOMAIN seen[c].policies}
<1>1. /\ Home \in DOMAIN Of(c).pages /\ Of(c).pages[Home].kind = "home"
      /\ "robots.txt" \notin DOMAIN Of(c).pages
      /\ \A u \in DOMAIN Of(c).pages : Of(c).pages[u].url = u /\ Of(c).pages[u] # None
  BY SiteIsData DEF CInv, SiteData, PageData
<1>2. /\ ToSet(seen[c].products) \subseteq OfKind(c, "product")
      /\ ToSet(seen[c].collections) \subseteq OfKind(c, "collection")
      /\ {seen[c].policies[s] : s \in DOMAIN seen[c].policies} \subseteq OfKind(c, "policy")
  <2>1. Known(c)
    BY DEF CInv
  <2>2. ToSet(seen[c].products) \subseteq OfKind(c, "product")
    BY <2>1 DEF Known, ToSet
  <2>3. ToSet(seen[c].collections) \subseteq OfKind(c, "collection")
    BY <2>1 DEF Known, ToSet
  <2>4. \A s \in DOMAIN seen[c].policies : seen[c].policies[s] \in OfKind(c, "policy")
    BY <2>1 DEF Known
  <2> QED
    BY <2>2, <2>3, <2>4
<1> QED
  BY <1>1, <1>2 DEF Seen, SeenOfKind, OfKind

LEMMA Sight ==
    ASSUME CInv, NEW c \in Crawls
    PROVE  /\ Products(Context(c)) = PagesOf(c, SeenOfKind(c, "product"))
           /\ ToSet(Context(c).collections) = PagesOf(c, SeenOfKind(c, "collection"))
           /\ \A u \in SeenOfKind(c, "policy") : LET page == Of(c).pages[u] IN
                 page.slug \in DOMAIN Context(c).policies /\ Context(c).policies[page.slug] = page
           /\ \A s \in DOMAIN Context(c).policies : \E u \in SeenOfKind(c, "policy") :
                 Context(c).policies[s] = Of(c).pages[u] /\ Of(c).pages[u].slug = s
<1>1. Products(Context(c)) = PagesOf(c, ToSet(seen[c].products))
  BY DEF Products, Context, ToSet, PagesOf
<1>2. ToSet(Context(c).collections) = PagesOf(c, ToSet(seen[c].collections))
  BY DEF Context, ToSet, PagesOf
<1>3. /\ DOMAIN Context(c).policies = DOMAIN seen[c].policies
      /\ \A s \in DOMAIN seen[c].policies :
            /\ Context(c).policies[s] = Of(c).pages[seen[c].policies[s]]
            /\ Of(c).pages[seen[c].policies[s]].slug = s
  BY DEF Context, CInv, Known
<1> QED
  BY <1>1, <1>2, <1>3, SeenUrls

-----------------------------------------------------------------------------
(* An issue of one crawl that another has as well.                         *)

\* What one context has of the page, the other has too.
Carries(x, y, url) ==
    /\ y.home = x.home /\ y.secure = x.secure
    /\ \A p \in Products(x) : p.url = url => p \in Products(y)
    /\ \A p \in ToSet(x.collections) : p.url = url => p \in ToSet(y.collections)
    /\ \A s \in DOMAIN x.policies : x.policies[s].url = url =>
          s \in DOMAIN y.policies /\ y.policies[s] = x.policies[s]

LEMMA Carried ==
    ASSUME CInv, NEW c \in Crawls, NEW b \in Crawls, store[b] = store[c],
           NEW url, url \notin Seen(c) \ Seen(b)
    PROVE  Carries(Context(c), Context(b), url)
<1>1. Of(b) = Of(c) /\ \A kind : OfKind(b, kind) = OfKind(c, kind)
  BY DEF Of, OfKind
<1>2. \A kind : \A u \in SeenOfKind(c, kind) :
         /\ Of(c).pages[u].url = u
         /\ u = url => u \in SeenOfKind(b, kind)
  BY <1>1, SeenUrls DEF SeenOfKind, OfKind
<1>3. /\ Context(b).home = Context(c).home /\ Context(b).secure = Context(c).secure
  BY <1>1 DEF Context
<1>4. \A p \in Products(Context(c)) : p.url = url => p \in Products(Context(b))
  BY <1>1, <1>2, Sight DEF PagesOf
<1>5. \A p \in ToSet(Context(c).collections) : p.url = url => p \in ToSet(Context(b).collections)
  BY <1>1, <1>2, Sight DEF PagesOf
<1>6. ASSUME NEW s \in DOMAIN Context(c).policies, Context(c).policies[s].url = url
      PROVE  s \in DOMAIN Context(b).policies /\ Context(b).policies[s] = Context(c).policies[s]
  <2>1. PICK u \in SeenOfKind(c, "policy") :
           Context(c).policies[s] = Of(c).pages[u] /\ Of(c).pages[u].slug = s
    BY Sight
  <2>2. u \in SeenOfKind(b, "policy")
    BY <1>2, <1>6, <2>1
  <2> QED
    BY <1>1, <2>1, <2>2, Sight
<1> QED
  BY <1>3, <1>4, <1>5, <1>6 DEF Carries

Hits(results, check, url) ==
    \E r \in results : r.check = check /\ \E i \in r.issues : i.url = url

LEMMA PageCarries ==
    ASSUME NEW x, NEW y, NEW url, Carries(x, y, url),
           NEW r \in PageResults(x), NEW i \in r.issues, i.url = url
    PROVE  Hits(PageResults(y), r.check, url)
<1> DEFINE Policies(cx) == {cx.policies[slug] : slug \in DOMAIN cx.policies}
<1>11. \A p \in HomeAndProducts(x) : p.url = url => p \in HomeAndProducts(y)
  BY DEF HomeAndProducts, Carries
<1>12. \A p \in ToSet(x.collections) \cup Policies(x) : p.url = url =>
          p \in ToSet(y.collections) \cup Policies(y)
  BY DEF Carries
<1>1. CASE r = Verdict("broken_product_links", "error", BrokenProductLinks(x))
  <2>1. Verdict("broken_product_links", "error", BrokenProductLinks(y)) \in PageResults(y)
    BY DEF PageResults
  <2>2. i \in BrokenProductLinks(x)
    BY <1>1 DEF Verdict, Judged
  <2>3. i \in BrokenProductLinks(y)
    <3> DEFINE All(cx) == HomeAndProducts(cx) \cup ToSet(cx.collections) \cup Policies(cx)
    <3>1. \A p \in All(x) : p.url = url => p \in All(y)
      BY <1>11, <1>12
    <3>2. /\ BrokenProductLinks(x) = PerPage([p \in All(x) |-> Once(p.broken)])
          /\ BrokenProductLinks(y) = PerPage([p \in All(y) |-> Once(p.broken)])
      BY DEF BrokenProductLinks
    <3> HIDE DEF All
    <3> QED
      BY <2>2, <3>1, <3>2 DEF PerPage, Issue
  <2> QED
    BY <1>1, <2>1, <2>3 DEF Hits, Verdict, Judged
<1>2. CASE r = Verdict("canonical_tags_present", "warning", CanonicalTagsPresent(x))
  <2>1. Verdict("canonical_tags_present", "warning", CanonicalTagsPresent(y)) \in PageResults(y)
    BY DEF PageResults
  <2>2. i \in CanonicalTagsPresent(x)
    BY <1>2 DEF Verdict, Judged
  <2>3. i \in CanonicalTagsPresent(y)
    BY <2>2 DEF CanonicalTagsPresent, PerPage, Issue, Carries
  <2> QED
    BY <1>2, <2>1, <2>3 DEF Hits, Verdict, Judged
<1>3. CASE r = Verdict("https_everywhere", "critical", HTTPSEverywhere(x))
  <2>1. Verdict("https_everywhere", "critical", HTTPSEverywhere(y)) \in PageResults(y)
    BY DEF PageResults
  <2>2. i \in HTTPSEverywhere(x)
    BY <1>3 DEF Verdict, Judged
  <2>3. i \in HTTPSEverywhere(y)
    BY <1>11, <2>2 DEF HTTPSEverywhere, PerPage, Issue, Carries
  <2> QED
    BY <1>3, <2>1, <2>3 DEF Hits, Verdict, Judged
<1>4. CASE r = Verdict("image_alt_quality", "warning", ImageAltQuality(x))
  <2>1. Verdict("image_alt_quality", "warning", ImageAltQuality(y)) \in PageResults(y)
    BY DEF PageResults
  <2>2. i \in ImageAltQuality(x)
    BY <1>4 DEF Verdict, Judged
  <2>3. i \in ImageAltQuality(y)
    BY <2>2 DEF ImageAltQuality, PerPage, Issue, Carries
  <2> QED
    BY <1>4, <2>1, <2>3 DEF Hits, Verdict, Judged
<1>5. CASE r = Verdict("product_identifier_present", "error", ProductIdentifierPresent(x))
  <2>1. Verdict("product_identifier_present", "error", ProductIdentifierPresent(y)) \in PageResults(y)
    BY DEF PageResults
  <2>2. i \in ProductIdentifierPresent(x)
    BY <1>5 DEF Verdict, Judged
  <2>3. i \in ProductIdentifierPresent(y)
    BY <2>2 DEF ProductIdentifierPresent, PerPage, Issue, Carries
  <2> QED
    BY <1>5, <2>1, <2>3 DEF Hits, Verdict, Judged
<1>6. CASE r = Verdict("product_images_present", "error", ProductImagesPresent(x))
  <2>1. Verdict("product_images_present", "error", ProductImagesPresent(y)) \in PageResults(y)
    BY DEF PageResults
  <2>2. i \in ProductImagesPresent(x)
    BY <1>6 DEF Verdict, Judged
  <2>3. i \in ProductImagesPresent(y)
    BY <2>2 DEF ProductImagesPresent, PerPage, Issue, Carries
  <2> QED
    BY <1>6, <2>1, <2>3 DEF Hits, Verdict, Judged
<1>7. CASE r = Verdict("product_schema_complete", "error", ProductSchemaComplete(x))
  <2>1. Verdict("product_schema_complete", "error", ProductSchemaComplete(y)) \in PageResults(y)
    BY DEF PageResults
  <2>2. i \in ProductSchemaComplete(x)
    BY <1>7 DEF Verdict, Judged
  <2>3. i \in ProductSchemaComplete(y)
    BY <2>2 DEF ProductSchemaComplete, PerPage, Issue, Carries
  <2> QED
    BY <1>7, <2>1, <2>3 DEF Hits, Verdict, Judged
<1>8. CASE r = Verdict("product_schema_present", "critical", ProductSchemaPresent(x))
  <2>1. Verdict("product_schema_present", "critical", ProductSchemaPresent(y)) \in PageResults(y)
    BY DEF PageResults
  <2>2. i \in ProductSchemaPresent(x)
    BY <1>8 DEF Verdict, Judged
  <2>3. i \in ProductSchemaPresent(y)
    BY <2>2 DEF ProductSchemaPresent, PerPage, Issue, Carries
  <2> QED
    BY <1>8, <2>1, <2>3 DEF Hits, Verdict, Judged
<1>9. CASE r = Verdict("product_title_quality", "warning", ProductTitleQuality(x))
  <2>1. Verdict("product_title_quality", "warning", ProductTitleQuality(y)) \in PageResults(y)
    BY DEF PageResults
  <2>2. i \in ProductTitleQuality(x)
    BY <1>9 DEF Verdict, Judged
  <2>3. i \in ProductTitleQuality(y)
    BY <2>2 DEF ProductTitleQuality, PerPage, Issue, Carries
  <2> QED
    BY <1>9, <2>1, <2>3 DEF Hits, Verdict, Judged
<1>10. CASE r = Flag("prohibited_content_signals", "warning", ProhibitedContentSignals(x), TRUE)
  <2>1. Flag("prohibited_content_signals", "warning", ProhibitedContentSignals(y), TRUE) \in PageResults(y)
    BY DEF PageResults
  <2>2. i \in ProhibitedContentSignals(x)
    BY <1>10 DEF Flag, Judged
  <2>3. i \in ProhibitedContentSignals(y)
    BY <1>11, <2>2 DEF ProhibitedContentSignals, PerPage, Issue
  <2> QED
    BY <1>10, <2>1, <2>3 DEF Hits, Flag, Judged
<1> QED
  BY <1>1, <1>2, <1>3, <1>4, <1>5, <1>6, <1>7, <1>8, <1>9, <1>10 DEF PageResults

LEMMA GoogleSame ==
    ASSUME NEW x, NEW y, x.gmc = y.gmc
    PROVE  GoogleResults(x) = GoogleResults(y)
<1>1. GoogleProducts(x) = GoogleProducts(y)
  BY DEF GoogleProducts
<1>2. Codes(x) = Codes(y) /\ Disapproved(x) = Disapproved(y)
  BY <1>1 DEF Codes, Disapproved
<1>3. /\ AccountSuspended(x) = AccountSuspended(y) /\ AccountWarning(x) = AccountWarning(y)
      /\ WebsiteNotClaimed(x) = WebsiteNotClaimed(y) /\ FeedFetchError(x) = FeedFetchError(y)
  BY DEF AccountSuspended, AccountWarning, AccountIssues, WebsiteNotClaimed, FeedFetchError
<1>4. /\ DisapprovalRate(x) = DisapprovalRate(y) /\ DisapprovalSeverity(x) = DisapprovalSeverity(y)
  BY <1>1, <1>2 DEF DisapprovalRate, DisapprovalSeverity
<1>5. /\ ImagePolicyViolation(x) = ImagePolicyViolation(y)
      /\ SpecificItemIssue(x) = SpecificItemIssue(y)
  BY <1>2 DEF ImagePolicyViolation, SpecificItemIssue
<1>6. /\ ItemCode(x, AvailabilityCode) = ItemCode(y, AvailabilityCode)
      /\ ItemCode(x, PriceCode) = ItemCode(y, PriceCode)
  BY <1>1 DEF ItemCode
<1> QED
  BY <1>3, <1>4, <1>5, <1>6 DEF GoogleResults

LEMMA NoGoogle ==
    ASSUME NEW x, x.gmc = None, NEW r \in GoogleResults(x)
    PROVE  r.issues = {}
<1>1. GoogleProducts(x) = <<>> /\ DOMAIN <<>> = {}
  BY DEF GoogleProducts
<1>2. /\ AccountSuspended(x) = {} /\ AccountWarning(x) = {} /\ WebsiteNotClaimed(x) = {}
  BY DEF AccountSuspended, AccountWarning, AccountIssues, WebsiteNotClaimed
<1>3. FeedFetchError(x) = {}
  BY <1>1 DEF FeedFetchError
<1>4. Codes(x) = {}
  BY <1>1 DEF Codes
<1>5. ImagePolicyViolation(x) = {} /\ SpecificItemIssue(x) = {}
  BY <1>4 DEF ImagePolicyViolation, SpecificItemIssue, ByCode
<1>6. \A code : ItemCode(x, code) = {}
  BY <1>1 DEF ItemCode
<1>7. DisapprovalRate(x) = {}
  <2>1. {i \in DOMAIN GoogleProducts(x) : GoogleProducts(x)[i].disapproved} = {}
    BY <1>1
  <2> QED
    BY <2>1, FS_EmptySet DEF DisapprovalRate, Disapproved
<1> QED
  BY <1>2, <1>3, <1>5, <1>6, <1>7 DEF GoogleResults, Verdict, Judged

LEMMA StoreCarries ==
    ASSUME CInv, NEW c \in Crawls, NEW b \in Crawls, store[b] = store[c],
           stage[b] = "saved", stage[c] = "saved",
           NEW r \in StoreResults(Context(c)), NEW i \in r.issues,
           i.url \notin Seen(c) \ Seen(b),
           ~ (r.check = "sitemap_accessible" /\ seen[c].sitemap < seen[b].sitemap),
           ~ (Seen(b) \ Seen(c) # {}
                 /\ r.check \in {"robots_txt_valid", "about_page_exists", "contact_info_visible"})
    PROVE  Hits(StoreResults(Context(b)), r.check, i.url)
<1> DEFINE x == Context(c)
           y == Context(b)
<1>1. x.home = y.home /\ Of(b) = Of(c)
  BY DEF Context, Of
<1>2. Seen(b) \subseteq Seen(c) =>
         \A s : Policy(y, s) # None => Policy(x, s) = Policy(y, s)
  <2> SUFFICES ASSUME Seen(b) \subseteq Seen(c), NEW s, Policy(y, s) # None
               PROVE  Policy(x, s) = Policy(y, s)
    OBVIOUS
  <2>1. s \in DOMAIN y.policies /\ Policy(y, s) = y.policies[s]
    BY DEF Policy
  <2>2. y.policies[s].url \notin Seen(b) \ Seen(c)
    OBVIOUS
  <2>3. Carries(y, x, y.policies[s].url)
    BY <2>2, Carried
  <2> QED
    BY <2>1, <2>3 DEF Carries, Policy
<1>3. Carries(x, y, i.url)
  BY Carried
<1> HIDE DEF x, y
<1>5. CASE r = Verdict("about_page_exists", "warning", AboutPageExists(x))
  <2>1. Seen(b) \subseteq Seen(c) /\ i \in AboutPageExists(x)
    BY <1>5 DEF Verdict, Judged
  <2>2. i \in AboutPageExists(y)
    <3>1. CASE Policy(x, "about") = None /\ Policy(x, "about-us") = None
      BY <1>2, <2>1, <3>1 DEF AboutPageExists
    <3>2. ASSUME NEW s, Policy(x, s) # None, i.url = Policy(x, s).url
          PROVE  Policy(y, s) = Policy(x, s)
      BY <1>3, <3>2 DEF Carries, Policy
    <3>3. CASE Policy(x, "about") # None
      BY <2>1, <3>2, <3>3 DEF AboutPageExists, One, Issue
    <3>4. CASE Policy(x, "about") = None /\ Policy(x, "about-us") # None
      BY <1>2, <2>1, <3>2, <3>4 DEF AboutPageExists, One, Issue
    <3> QED
      BY <3>1, <3>3, <3>4
  <2>3. Verdict("about_page_exists", "warning", AboutPageExists(y)) \in StoreResults(y)
    BY DEF StoreResults
  <2> QED
    BY <1>5, <2>2, <2>3 DEF Hits, Verdict, Judged, y
<1>6. CASE r = Verdict("contact_info_visible", "warning", ContactInfoVisible(x))
  <2>1. Seen(b) \subseteq Seen(c) /\ i \in ContactInfoVisible(x)
    BY <1>6 DEF Verdict, Judged
  <2>2. i \in ContactInfoVisible(y)
    BY <1>1, <1>2, <2>1 DEF ContactInfoVisible, One
  <2>3. Verdict("contact_info_visible", "warning", ContactInfoVisible(y)) \in StoreResults(y)
    BY DEF StoreResults
  <2> QED
    BY <1>6, <2>2, <2>3 DEF Hits, Verdict, Judged, y
<1>7. \A signal : PolicyLinked(x, signal) = PolicyLinked(y, signal)
  BY <1>1 DEF PolicyLinked
<1>8. CASE \/ r = Verdict("privacy_policy_linked", "critical", PolicyLinked(x, "privacy"))
           \/ r = Verdict("refund_policy_linked", "error", PolicyLinked(x, "refund"))
           \/ r = Verdict("shipping_policy_linked", "error", PolicyLinked(x, "shipping"))
           \/ r = Verdict("terms_of_service_linked", "error", PolicyLinked(x, "terms"))
  <2>1. r \in StoreResults(y)
    BY <1>7, <1>8 DEF StoreResults
  <2> QED
    BY <2>1 DEF Hits, y
<1>9. CASE r = Verdict("robots_txt_valid", "critical", RobotsTxtValid(x))
  <2>1. Seen(b) \subseteq Seen(c) /\ i \in RobotsTxtValid(x)
    BY <1>9 DEF Verdict, Judged
  <2>2. i.url = "robots.txt"
    BY <2>1 DEF RobotsTxtValid, Issue
  <2>3. x.robots = seen[c].robots /\ y.robots = seen[b].robots
    BY DEF x, y, Context
  <2>4. RobotsRead(c) /\ RobotsRead(b)
    BY DEF CInv, InCourse
  <2>5. x.robots = y.robots
    BY <1>1, <2>1, <2>2, <2>3, <2>4, SeenUrls DEF RobotsRead
  <2>6. r \in StoreResults(y)
    BY <1>9, <2>5 DEF StoreResults, RobotsTxtValid
  <2> QED
    BY <2>6 DEF Hits, y
<1>10. CASE r = Flag("sitemap_accessible", "warning", SitemapAccessible(x), x.sitemap > 0)
  <2>1. r.check = "sitemap_accessible" /\ i \in SitemapAccessible(x)
    BY <1>10 DEF Flag, Judged
  <2>2. x.sitemap = seen[c].sitemap /\ y.sitemap = seen[b].sitemap
    BY DEF x, y, Context
  <2>3. seen[c].sitemap \in Nat /\ seen[b].sitemap \in Nat
    BY DEF CInv, Known
  <2>4. i \in SitemapAccessible(y)
    BY <2>1, <2>2, <2>3 DEF SitemapAccessible, One
  <2>5. Flag("sitemap_accessible", "warning", SitemapAccessible(y), y.sitemap > 0) \in StoreResults(y)
    BY DEF StoreResults
  <2> QED
    BY <1>10, <2>4, <2>5 DEF Hits, Flag, Judged, y
<1> QED
  BY <1>5, <1>6, <1>8, <1>9, <1>10 DEF StoreResults, x

\* An issue the report before has as well is not new.
LEMMA ExplainedWhileIInv ==
    ASSUME IInv
    PROVE  NewIsExplained
<1> SUFFICES ASSUME NEW c \in Reports, report[c].before # None, NEW k \in report[c].new,
                    ~ (k.check \in OrderSensitive /\ k.severity # "critical"),
                    k.url \notin Seen(c) \ Seen(report[c].before),
                    ~ (~ seen[report[c].before].gmc /\ seen[c].gmc),
                    ~ (k.check = "sitemap_accessible" /\ seen[c].sitemap < seen[report[c].before].sitemap),
                    ~ (Seen(report[c].before) \ Seen(c) # {}
                          /\ k.check \in {"robots_txt_valid", "about_page_exists", "contact_info_visible"})
             PROVE  FALSE
  BY DEF NewIsExplained
<1> DEFINE b == report[c].before
           x == Context(c)
           y == Context(b)
<1>1. c \in Crawls /\ stage[c] = "saved" /\ Content(c)
  BY DEF Reports, IInv, RInv
<1>2. Compared(c, b)
  BY <1>1 DEF Content
<1>3. b \in Crawls /\ stage[b] = "saved" /\ store[b] = store[c] /\ Content(b)
  BY <1>2 DEF Compared, IInv, RInv
<1>4. PICK base \in Baselines(x) : report[c].rows = Rows(Results(x, base))
  BY <1>1 DEF Content, Written
<1>5. PICK based \in Baselines(y) : report[b].rows = Rows(Results(y, based))
  BY <1>3 DEF Content, Written
<1>6. /\ k \in Rows(Results(x, base))
      /\ \A p \in Rows(Results(y, based)) : p.check # k.check \/ p.url # k.url
  BY <1>2, <1>4, <1>5 DEF Compared, NewIssues, Identity
<1>7. PICK r \in Results(x, base) : \E i \in r.issues :
         k.check = r.check /\ k.severity = r.severity /\ k.url = i.url
  BY <1>6 DEF Rows
<1> PICK i \in r.issues : k.check = r.check /\ k.severity = r.severity /\ k.url = i.url
  BY <1>7
<1>8. ~ Hits(Results(y, based), k.check, k.url)
  <2> SUFFICES ASSUME NEW s \in Results(y, based), s.check = k.check,
                      NEW j \in s.issues, j.url = k.url
               PROVE  FALSE
    BY DEF Hits
  <2> DEFINE p == [check |-> s.check, severity |-> s.severity,
                   url |-> j.url, code |-> j.code, nth |-> j.nth]
  <2>1. p \in Rows(Results(y, based))
    BY DEF Rows
  <2> QED
    BY <1>6, <2>1
<1>9. CASE r \in StoreResults(x)
  <2>1. Hits(StoreResults(y), r.check, i.url)
    BY <1>1, <1>3, <1>9, StoreCarries DEF IInv
  <2> QED
    BY <1>8, <2>1 DEF Hits, Results
<1>10. CASE r \in PageResults(x)
  <2>1. Hits(PageResults(y), r.check, i.url)
    BY <1>1, <1>3, <1>10, Carried, PageCarries DEF IInv
  <2> QED
    BY <1>8, <2>1 DEF Hits, Results
<1>11. CASE r \in GoogleResults(x)
  <2>1. x.gmc = None \/ x.gmc = y.gmc
    BY <1>1, <1>3 DEF Context, Of
  <2>2. x.gmc = y.gmc
    BY <1>11, <2>1, NoGoogle
  <2>3. r \in Results(y, based)
    BY <1>11, <2>2, GoogleSame DEF Results
  <2> QED
    BY <1>8, <2>3 DEF Hits
<1>12. CASE \/ r = Verdict("currency_consistency", "error", CurrencyConsistency(x, base))
            \/ r = Verdict("product_description_quality", "warning", ProductDescriptionQuality(x))
  BY <1>12 DEF OrderSensitive, Verdict, Judged
<1> QED
  BY <1>9, <1>10, <1>11, <1>12 DEF Results

\* An issue is new only where one of the two audits was blind, or where the order
\* of arrival shows in an issue that is not critical (differ.Compute).
THEOREM NewIsExplainedAlways == Spec => []NewIsExplained
BY AlwaysIInv, ExplainedWhileIInv, PTL

-----------------------------------------------------------------------------
(* The codes of issues.                                                    *)

\* The checks with an issue of a code.
Naming(results, code) == {r.check : r \in {q \in results : \E i \in q.issues : i.code = code}}

LEMMA NamingOfRows ==
    ASSUME NEW results, NEW code
    PROVE  {k.check : k \in {r \in Rows(results) : r.code = code}} = Naming(results, code)
<1> DEFINE row(r, i) == [check |-> r.check, severity |-> r.severity,
                         url |-> i.url, code |-> i.code, nth |-> i.nth]
<1>1. ASSUME NEW k \in Rows(results), k.code = code
      PROVE  k.check \in Naming(results, code)
  <2>1. PICK r \in results : \E i \in r.issues : k = row(r, i)
    BY DEF Rows
  <2>2. PICK i \in r.issues : k = row(r, i)
    BY <2>1
  <2>3. k.check = r.check /\ i.code = code
    BY <1>1, <2>2
  <2> QED
    BY <2>3 DEF Naming
<1>2. ASSUME NEW r \in results, NEW i \in r.issues, i.code = code
      PROVE  row(r, i) \in Rows(results) /\ row(r, i).code = code /\ row(r, i).check = r.check
  BY <1>2 DEF Rows
<1> HIDE DEF row
<1> QED
  BY <1>1, <1>2 DEF Naming

\* The checks of the store and of its pages give no code.
LEMMA NoCode ==
    ASSUME NEW x, NEW base, NEW r \in Results(x, base) \ GoogleResults(x), NEW i \in r.issues
    PROVE  i.code = None
<1>1. \A url, nth : Issue(url, nth).code = None
  BY DEF Issue
<1>2. \A faults : \A j \in PerPage(faults) : j.code = None
  BY <1>1 DEF PerPage
<1>3. \A bad, url : \A j \in One(bad, url) : j.code = None
  BY <1>1 DEF One
<1>4. CASE r \in StoreResults(x)
  <2>1. /\ \A j \in AboutPageExists(x) : j.code = None
        /\ \A j \in ContactInfoVisible(x) : j.code = None
        /\ \A j \in SitemapAccessible(x) : j.code = None
        /\ \A j \in RobotsTxtValid(x) : j.code = None
        /\ \A signal : \A j \in PolicyLinked(x, signal) : j.code = None
    BY <1>1, <1>3 DEF AboutPageExists, ContactInfoVisible, SitemapAccessible, RobotsTxtValid, PolicyLinked
  <2> QED
    BY <1>4, <2>1 DEF StoreResults, Verdict, Flag, Judged
<1>5. CASE r \in PageResults(x)
  <2>1. \A j \in BrokenProductLinks(x) : j.code = None
    BY <1>1, <1>2 DEF BrokenProductLinks
  <2>2. \A j \in CanonicalTagsPresent(x) : j.code = None
    BY <1>1, <1>2 DEF CanonicalTagsPresent
  <2>3. \A j \in HTTPSEverywhere(x) : j.code = None
    BY <1>1, <1>2 DEF HTTPSEverywhere
  <2>4. \A j \in ImageAltQuality(x) : j.code = None
    BY <1>1, <1>2 DEF ImageAltQuality
  <2>5. \A j \in ProductIdentifierPresent(x) : j.code = None
    BY <1>1, <1>2 DEF ProductIdentifierPresent
  <2>6. \A j \in ProductImagesPresent(x) : j.code = None
    BY <1>1, <1>2 DEF ProductImagesPresent
  <2>7. \A j \in ProductSchemaComplete(x) : j.code = None
    BY <1>1, <1>2 DEF ProductSchemaComplete
  <2>8. \A j \in ProductSchemaPresent(x) : j.code = None
    BY <1>1, <1>2 DEF ProductSchemaPresent
  <2>9. \A j \in ProductTitleQuality(x) : j.code = None
    BY <1>1, <1>2 DEF ProductTitleQuality
  <2>10. \A j \in ProhibitedContentSignals(x) : j.code = None
    BY <1>1, <1>2 DEF ProhibitedContentSignals
  <2> QED
    BY <1>5, <2>1, <2>2, <2>3, <2>4, <2>5, <2>6, <2>7, <2>8, <2>9, <2>10
       DEF PageResults, Verdict, Flag, Judged
<1>6. CASE r = Verdict("currency_consistency", "error", CurrencyConsistency(x, base))
  <2>1. \A j \in CurrencyConsistency(x, base) : j.code = None
    BY <1>2 DEF CurrencyConsistency
  <2> QED
    BY <1>6, <2>1 DEF Verdict, Judged
<1>7. CASE r = Verdict("product_description_quality", "warning", ProductDescriptionQuality(x))
  <2>1. \A j \in ProductDescriptionQuality(x) : j.code = None
    BY <1>1, <1>2 DEF ProductDescriptionQuality
  <2> QED
    BY <1>7, <2>1 DEF Verdict, Judged
<1> QED
  BY <1>4, <1>5, <1>6, <1>7 DEF Results

\* The check of each of Google's codes.
LEMMA NamingOfGoogle ==
    ASSUME NEW x, x.gmc # None, NEW base, NEW code, code # None,
           code \notin {"website_not_claimed", "high_disapproval_rate"},
           code \notin {x.gmc.feeds[i] : i \in DOMAIN x.gmc.feeds}
    PROVE  \A check : check \in Naming(Results(x, base), code) <=>
              \/ check = "gmc_account_suspended" /\ code \in {i.code : i \in AccountSuspended(x)}
              \/ check = "gmc_account_warning" /\ code \in {i.code : i \in AccountWarning(x)}
              \/ check = "gmc_image_policy_violation" /\ code \in Codes(x) \cap ImageCodes
              \/ check = "gmc_landing_page_availability_mismatch"
                    /\ code \in Codes(x) \cap {AvailabilityCode}
              \/ check = "gmc_landing_page_price_mismatch" /\ code \in Codes(x) \cap {PriceCode}
              \/ check = "gmc_specific_item_issue"
                    /\ code \in Codes(x) \ ({PriceCode, AvailabilityCode} \cup ImageCodes)
<1> DEFINE Coded(issues) == \E i \in issues : i.code = code
<1>1. /\ ~ Coded(WebsiteNotClaimed(x)) /\ ~ Coded(DisapprovalRate(x)) /\ ~ Coded(FeedFetchError(x))
  BY DEF WebsiteNotClaimed, DisapprovalRate, FeedFetchError, GoogleIssue
<1>2. /\ Coded(AccountSuspended(x)) <=> code \in {i.code : i \in AccountSuspended(x)}
      /\ Coded(AccountWarning(x)) <=> code \in {i.code : i \in AccountWarning(x)}
  OBVIOUS
<1>3. /\ Coded(ImagePolicyViolation(x)) <=> code \in Codes(x) \cap ImageCodes
      /\ Coded(SpecificItemIssue(x)) <=> code \in Codes(x) \ ({PriceCode, AvailabilityCode} \cup ImageCodes)
  <2>1. ASSUME NEW codes PROVE Coded(ByCode(codes)) <=> code \in codes
    <3>1. \A own : GoogleIssue(own, 1).code = own
      BY DEF GoogleIssue
    <3> QED
      BY <3>1 DEF ByCode
  <2> HIDE DEF Coded
  <2> QED
    BY <2>1 DEF ImagePolicyViolation, SpecificItemIssue
<1>4. \A own : Coded(ItemCode(x, own)) <=> code \in Codes(x) \cap {own}
  <2> SUFFICES ASSUME NEW own PROVE Coded(ItemCode(x, own)) <=> code \in Codes(x) \cap {own}
    OBVIOUS
  <2>1. ASSUME Coded(ItemCode(x, own)) PROVE code \in Codes(x) \cap {own}
    BY <2>1 DEF ItemCode, Codes
  <2>2. ASSUME code \in Codes(x) \cap {own} PROVE Coded(ItemCode(x, own))
    <3>1. PICK n \in DOMAIN GoogleProducts(x) : own \in GoogleProducts(x)[n].codes
      BY <2>2 DEF Codes
    <3>2. [url |-> GoogleProducts(x)[n].link, code |-> own, nth |-> n] \in ItemCode(x, own)
      BY <3>1 DEF ItemCode
    <3> QED
      BY <2>2, <3>2
  <2> QED
    BY <2>1, <2>2
<1>5. \A r \in Results(x, base) : Coded(r.issues) => r \in GoogleResults(x)
  BY NoCode
<1>6. GoogleResults(x) \subseteq Results(x, base)
  BY DEF Results
<1> HIDE DEF Coded
<1>7. \A check : check \in Naming(Results(x, base), code) <=>
         \E r \in GoogleResults(x) : r.check = check /\ Coded(r.issues)
  BY <1>5, <1>6 DEF Naming, Coded
<1>8. \A check : (\E r \in GoogleResults(x) : r.check = check /\ Coded(r.issues)) <=>
         \/ check = "gmc_account_suspended" /\ Coded(AccountSuspended(x))
         \/ check = "gmc_account_warning" /\ Coded(AccountWarning(x))
         \/ check = "gmc_image_policy_violation" /\ Coded(ImagePolicyViolation(x))
         \/ check = "gmc_landing_page_availability_mismatch" /\ Coded(ItemCode(x, AvailabilityCode))
         \/ check = "gmc_landing_page_price_mismatch" /\ Coded(ItemCode(x, PriceCode))
         \/ check = "gmc_specific_item_issue" /\ Coded(SpecificItemIssue(x))
  BY <1>1 DEF GoogleResults, Verdict, Judged
<1> QED
  BY <1>2, <1>3, <1>4, <1>7, <1>8

\* Exactly one check reports a code.
LEMMA OneNaming ==
    ASSUME IInv, NamesApart, NEW c \in Reports, seen[c].gmc,
           NEW code \in ItemCodes(Of(c).google) \cup AccountIds(Of(c).google)
    PROVE  Cardinality({k.check : k \in {r \in report[c].rows : r.code = code}}) = 1
<1> DEFINE x == Context(c)
           google == Of(c).google
<1>1. c \in Crawls /\ stage[c] = "saved" /\ Content(c)
  BY DEF Reports, IInv, RInv
<1>2. PICK base \in Baselines(x) : report[c].rows = Rows(Results(x, base))
  BY <1>1 DEF Content, Written
<1>3. google # None /\ x.gmc = google
  BY <1>1 DEF IInv, CInv, Known, Context
<1>4. store[c] \in DOMAIN Site /\ google = Site[store[c]].google
  BY <1>1 DEF IInv, CInv, Functional, Of
<1>5. /\ ItemCodes(google) \cap AccountIds(google) = {}
      /\ code \notin {None, "website_not_claimed", "high_disapproval_rate"}
      /\ code \notin {google.feeds[i] : i \in DOMAIN google.feeds}
      /\ google.account # None =>
            \A i, j \in DOMAIN google.account.issues :
               google.account.issues[i].id = google.account.issues[j].id =>
                  (google.account.issues[i].critical <=> google.account.issues[j].critical)
  BY <1>3, <1>4 DEF NamesApart
<1>6. Codes(x) = ItemCodes(google)
  BY <1>3 DEF Codes, ItemCodes, GoogleProducts
<1>7. /\ {i.code : i \in AccountSuspended(x)} \cup {i.code : i \in AccountWarning(x)} = AccountIds(google)
      /\ {i.code : i \in AccountSuspended(x)} \cap {i.code : i \in AccountWarning(x)} = {}
  <2>1. CASE google.account = None
    BY <1>3, <2>1 DEF AccountSuspended, AccountWarning, AccountIssues, AccountIds
  <2>2. CASE google.account # None
    <3> DEFINE issues == google.account.issues
    <3>1. \A i \in AccountSuspended(x) : \E n \in DOMAIN issues :
             i.code = issues[n].id /\ issues[n].critical
      BY <1>3, <2>2 DEF AccountSuspended, AccountIssues, GoogleIssue
    <3>2. \A i \in AccountWarning(x) : \E n \in DOMAIN issues :
             i.code = issues[n].id /\ ~ issues[n].critical
      BY <1>3, <2>2 DEF AccountWarning, AccountIssues, GoogleIssue
    <3>4. \A n \in DOMAIN issues :
             /\ GoogleIssue(issues[n].id, n).code = issues[n].id
             /\ issues[n].critical => GoogleIssue(issues[n].id, n) \in AccountSuspended(x)
             /\ ~ issues[n].critical => GoogleIssue(issues[n].id, n) \in AccountWarning(x)
      <4>1. \A n \in DOMAIN issues : GoogleIssue(issues[n].id, n).code = issues[n].id
        BY DEF GoogleIssue
      <4>2. \A n \in DOMAIN issues :
               issues[n].critical => GoogleIssue(issues[n].id, n) \in AccountSuspended(x)
        BY <1>3, <2>2 DEF AccountSuspended, AccountIssues
      <4>3. \A n \in DOMAIN issues :
               ~ issues[n].critical => GoogleIssue(issues[n].id, n) \in AccountWarning(x)
        BY <1>3, <2>2 DEF AccountWarning, AccountIssues
      <4> QED
        BY <4>1, <4>2, <4>3
    <3>3. AccountIds(google) = {issues[n].id : n \in DOMAIN issues}
      BY <2>2 DEF AccountIds
    <3>5. \A i, j \in DOMAIN issues : issues[i].id = issues[j].id =>
             (issues[i].critical <=> issues[j].critical)
      BY <1>5, <2>2
    <3> HIDE DEF issues
    <3>6. \A id : id \in {i.code : i \in AccountSuspended(x)} =>
             \E n \in DOMAIN issues : id = issues[n].id /\ issues[n].critical
      BY <3>1
    <3>7. \A id : id \in {i.code : i \in AccountWarning(x)} =>
             \E n \in DOMAIN issues : id = issues[n].id /\ ~ issues[n].critical
      BY <3>2
    <3>8. AccountIds(google) \subseteq
             {i.code : i \in AccountSuspended(x)} \cup {i.code : i \in AccountWarning(x)}
      BY <3>3, <3>4
    <3>9. {i.code : i \in AccountSuspended(x)} \cap {i.code : i \in AccountWarning(x)} = {}
      <4> SUFFICES ASSUME NEW id \in {i.code : i \in AccountSuspended(x)},
                          id \in {i.code : i \in AccountWarning(x)}
                   PROVE  FALSE
        OBVIOUS
      <4>1. PICK n \in DOMAIN issues : id = issues[n].id /\ issues[n].critical
        BY <3>6
      <4>2. PICK m \in DOMAIN issues : id = issues[m].id /\ ~ issues[m].critical
        BY <3>7
      <4> QED
        BY <3>5, <4>1, <4>2
    <3>10. {i.code : i \in AccountSuspended(x)} \cup {i.code : i \in AccountWarning(x)}
              \subseteq AccountIds(google)
      <4>1. {i.code : i \in AccountSuspended(x)} \subseteq AccountIds(google)
        BY <3>3, <3>6
      <4>2. {i.code : i \in AccountWarning(x)} \subseteq AccountIds(google)
        BY <3>3, <3>7
      <4> QED
        BY <4>1, <4>2
    <3> QED
      BY <3>8, <3>9, <3>10
  <2> QED
    BY <2>1, <2>2
<1>8. \E check : Naming(Results(x, base), code) = {check}
  <2> DEFINE N == Naming(Results(x, base), code)
  <2>1. \A check : check \in N <=>
              \/ check = "gmc_account_suspended" /\ code \in {i.code : i \in AccountSuspended(x)}
              \/ check = "gmc_account_warning" /\ code \in {i.code : i \in AccountWarning(x)}
              \/ check = "gmc_image_policy_violation" /\ code \in Codes(x) \cap ImageCodes
              \/ check = "gmc_landing_page_availability_mismatch"
                    /\ code \in Codes(x) \cap {AvailabilityCode}
              \/ check = "gmc_landing_page_price_mismatch" /\ code \in Codes(x) \cap {PriceCode}
              \/ check = "gmc_specific_item_issue"
                    /\ code \in Codes(x) \ ({PriceCode, AvailabilityCode} \cup ImageCodes)
    BY <1>3, <1>5, NamingOfGoogle
  <2> HIDE DEF N
  <2>2. CASE code \in {i.code : i \in AccountSuspended(x)}
    <3>1. N = {"gmc_account_suspended"}
      BY <1>5, <1>6, <1>7, <2>1, <2>2
    <3> QED
      BY <3>1 DEF N
  <2>3. CASE code \in {i.code : i \in AccountWarning(x)}
    <3>1. N = {"gmc_account_warning"}
      BY <1>5, <1>6, <1>7, <2>1, <2>3
    <3> QED
      BY <3>1 DEF N
  <2>4. CASE code \in Codes(x)
    <3>1. /\ code \notin {i.code : i \in AccountSuspended(x)}
          /\ code \notin {i.code : i \in AccountWarning(x)}
      BY <1>5, <1>6, <1>7, <2>4
    <3>2. CASE code = PriceCode
      <4>1. N = {"gmc_landing_page_price_mismatch"}
        BY <2>1, <2>4, <3>1, <3>2, CheckConstants
      <4> QED
        BY <4>1 DEF N
    <3>3. CASE code = AvailabilityCode
      <4>1. N = {"gmc_landing_page_availability_mismatch"}
        BY <2>1, <2>4, <3>1, <3>3, CheckConstants
      <4> QED
        BY <4>1 DEF N
    <3>4. CASE code \in ImageCodes
      <4>1. N = {"gmc_image_policy_violation"}
        BY <2>1, <2>4, <3>1, <3>4, CheckConstants
      <4> QED
        BY <4>1 DEF N
    <3>5. CASE code \notin {PriceCode, AvailabilityCode} \cup ImageCodes
      <4>1. N = {"gmc_specific_item_issue"}
        BY <2>1, <2>4, <3>1, <3>5
      <4> QED
        BY <4>1 DEF N
    <3> QED
      BY <3>2, <3>3, <3>4, <3>5
  <2> QED
    BY <1>6, <1>7, <2>2, <2>3, <2>4
<1> QED
  BY <1>2, <1>8, NamingOfRows, FS_Singleton

\* Every account issue and every code of a product is reported by exactly one
\* check, when Google's names are apart (runGMCSpecificItemIssue and its neighbours).
THEOREM OneReportPerFindingAlways == NamesApart => (Spec => []OneReportPerFinding)
<1> SUFFICES ASSUME NamesApart PROVE Spec => []OneReportPerFinding
  OBVIOUS
<1>1. IInv => OneReportPerFinding
  BY OneNaming DEF OneReportPerFinding
<1> QED
  BY <1>1, AlwaysIInv, PTL

-----------------------------------------------------------------------------
(* What is counted is finite.                                              *)

LEMMA ImageFinite ==
    ASSUME NEW f, IsFiniteSet(DOMAIN f), f = [x \in DOMAIN f |-> f[x]]
    PROVE  /\ IsFiniteSet({f[x] : x \in DOMAIN f})
           /\ (\A x, y \in DOMAIN f : f[x] = f[y] => x = y) =>
                 Cardinality({f[x] : x \in DOMAIN f}) = Cardinality(DOMAIN f)
<1> DEFINE S == DOMAIN f
           T == {f[x] : x \in DOMAIN f}
<1>1. f \in Surjection(S, T)
  BY DEF Surjection
<1>2. (\A x, y \in S : f[x] = f[y] => x = y) => f \in Injection(S, T)
  BY <1>1 DEF Surjection, Injection, IsInjective
<1> HIDE DEF S, T
<1>3. IsFiniteSet(S)
  BY DEF S
<1>4. IsFiniteSet(T) /\ (Cardinality(T) = Cardinality(S) <=> f \in Injection(S, T))
  BY <1>1, <1>3, FS_Surjection
<1> QED
  BY <1>2, <1>4 DEF S, T

LEMMA TenFinite ==
    ASSUME NEW a, NEW b, NEW c, NEW d, NEW e, NEW f, NEW g, NEW h, NEW i, NEW j
    PROVE  IsFiniteSet({a, b, c, d, e, f, g, h, i, j})
<1> IsFiniteSet({a}) /\ IsFiniteSet({f})
  BY FS_Singleton
<1>1. IsFiniteSet({a, b})
  BY FS_AddElement, {a, b} = {a} \cup {b}
<1>2. IsFiniteSet({a, b, c})
  BY <1>1, FS_AddElement, {a, b, c} = {a, b} \cup {c}
<1>3. IsFiniteSet({a, b, c, d})
  BY <1>2, FS_AddElement, {a, b, c, d} = {a, b, c} \cup {d}
<1>4. IsFiniteSet({a, b, c, d, e})
  BY <1>3, FS_AddElement, {a, b, c, d, e} = {a, b, c, d} \cup {e}
<1>5. IsFiniteSet({f, g})
  BY FS_AddElement, {f, g} = {f} \cup {g}
<1>6. IsFiniteSet({f, g, h})
  BY <1>5, FS_AddElement, {f, g, h} = {f, g} \cup {h}
<1>7. IsFiniteSet({f, g, h, i})
  BY <1>6, FS_AddElement, {f, g, h, i} = {f, g, h} \cup {i}
<1>8. IsFiniteSet({f, g, h, i, j})
  BY <1>7, FS_AddElement, {f, g, h, i, j} = {f, g, h, i} \cup {j}
<1>9. IsFiniteSet({a, b, c, d, e} \cup {f, g, h, i, j})
  BY <1>4, <1>8, FS_Union
<1>10. {a, b, c, d, e, f, g, h, i, j} = {a, b, c, d, e} \cup {f, g, h, i, j}
  OBVIOUS
<1> QED
  BY <1>9, <1>10

LEMMA OneFinite ==
    ASSUME NEW bad, NEW url
    PROVE  IsFiniteSet(One(bad, url))
BY FS_EmptySet, FS_Singleton DEF One

LEMMA PerPageFinite ==
    ASSUME NEW faults, IsFiniteSet(DOMAIN faults), \A p \in DOMAIN faults : faults[p] \in Nat
    PROVE  IsFiniteSet(PerPage(faults))
<1> DEFINE own(p) == {Issue(p.url, n) : n \in 1..faults[p]}
           f == [p \in DOMAIN faults |-> own(p)]
<1>1. ASSUME NEW p \in DOMAIN faults PROVE IsFiniteSet(own(p))
  <2> DEFINE g == [n \in 1..faults[p] |-> Issue(p.url, n)]
  <2>1. IsFiniteSet(1..faults[p])
    BY FS_Interval
  <2>2. IsFiniteSet({g[x] : x \in DOMAIN g})
    BY <2>1, ImageFinite
  <2>3. {g[x] : x \in DOMAIN g} = own(p)
    OBVIOUS
  <2> QED
    BY <2>2, <2>3
<1>2. IsFiniteSet({f[p] : p \in DOMAIN f})
  BY ImageFinite
<1>3. \A T \in {f[p] : p \in DOMAIN f} : IsFiniteSet(T)
  BY <1>1
<1>4. PerPage(faults) = UNION {f[p] : p \in DOMAIN f}
  BY DEF PerPage
<1> QED
  BY <1>2, <1>3, <1>4, FS_UNION

LEMMA SeqFinite ==
    ASSUME NEW S, NEW s \in Seq(S)
    PROVE  IsFiniteSet(ToSet(s)) /\ IsFiniteSet(DOMAIN s)
<1>1. IsFiniteSet(DOMAIN s)
  BY FS_Interval
<1>2. s = [i \in DOMAIN s |-> s[i]]
  OBVIOUS
<1> QED
  BY <1>1, <1>2, ImageFinite DEF ToSet

\* What a context has is finite, and its pages are what the checks expect.
Finite(x) ==
    /\ IsFiniteSet(Products(x)) /\ IsFiniteSet(ToSet(x.collections)) /\ IsFiniteSet(DOMAIN x.policies)
    /\ \A p \in HomeAndProducts(x) : p.mixed \in Nat /\ p.signals \in Nat
    /\ \A p \in Products(x) : p.badAlts \in Nat
    /\ x.robots.kind \notin {"missing", "broken"} => x.robots.probes \in Nat
    /\ x.gmc # None => GoogleData(x.gmc)

LEMMA ContextFinite ==
    ASSUME CInv, NEW c \in Crawls, stage[c] = "saved"
    PROVE  Finite(Context(c))
<1> DEFINE x == Context(c)
<1>1. Known(c) /\ InCourse(c)
  BY DEF CInv
<1>2. SiteData(Of(c))
  BY SiteIsData DEF CInv
<1>3. x.products = [i \in DOMAIN seen[c].products |-> Of(c).pages[seen[c].products[i]]]
  BY DEF Context
<1>4. x.collections = [i \in DOMAIN seen[c].collections |-> Of(c).pages[seen[c].collections[i]]]
  BY DEF Context
<1>5. IsFiniteSet(DOMAIN seen[c].products) /\ IsFiniteSet(DOMAIN seen[c].collections)
  <2>1. IsFiniteSet(DOMAIN seen[c].products)
    BY <1>1, SeqFinite DEF Known
  <2>2. IsFiniteSet(DOMAIN seen[c].collections)
    BY <1>1, SeqFinite DEF Known
  <2> QED
    BY <2>1, <2>2
<1>6. IsFiniteSet(Products(x))
  <2>1. IsFiniteSet({x.products[i] : i \in DOMAIN x.products})
    BY <1>3, <1>5, ImageFinite
  <2> QED
    BY <2>1 DEF Products, ToSet
<1>7. IsFiniteSet(ToSet(x.collections))
  <2>1. IsFiniteSet({x.collections[i] : i \in DOMAIN x.collections})
    BY <1>4, <1>5, ImageFinite
  <2> QED
    BY <2>1 DEF ToSet
<1>8. IsFiniteSet(DOMAIN x.policies)
  BY <1>1 DEF Known, Context
<1>9. \A p \in Products(x) : p.mixed \in Nat /\ p.signals \in Nat /\ p.badAlts \in Nat
  <2> SUFFICES ASSUME NEW u \in SeenOfKind(c, "product")
               PROVE  LET p == Of(c).pages[u] IN
                      p.mixed \in Nat /\ p.signals \in Nat /\ p.badAlts \in Nat
    BY Sight DEF PagesOf
  <2>1. u \in DOMAIN Of(c).pages /\ Of(c).pages[u].kind = "product"
    BY DEF SeenOfKind, OfKind
  <2> QED
    BY <1>2, <2>1 DEF SiteData, PageData
<1>10. x.home.mixed \in Nat /\ x.home.signals \in Nat
  BY <1>2 DEF SiteData, PageData, Context
<1>11. x.robots.kind \notin {"missing", "broken"} => x.robots.probes \in Nat
  BY <1>1, <1>2 DEF InCourse, RobotsRead, SiteData, Context
<1>12. x.gmc # None => GoogleData(x.gmc)
  BY <1>2 DEF SiteData, Context
<1> QED
  BY <1>6, <1>7, <1>8, <1>9, <1>10, <1>11, <1>12 DEF Finite, HomeAndProducts

LEMMA StoreFinite ==
    ASSUME NEW x, Finite(x)
    PROVE  IsFiniteSet(StoreResults(x)) /\ \A r \in StoreResults(x) : IsFiniteSet(r.issues)
<1>1. IsFiniteSet(StoreResults(x))
  <2> DEFINE a == Verdict("about_page_exists", "warning", AboutPageExists(x))
             b == Verdict("contact_info_visible", "warning", ContactInfoVisible(x))
             c == Verdict("privacy_policy_linked", "critical", PolicyLinked(x, "privacy"))
             d == Verdict("refund_policy_linked", "error", PolicyLinked(x, "refund"))
             e == Verdict("robots_txt_valid", "critical", RobotsTxtValid(x))
             f == Verdict("shipping_policy_linked", "error", PolicyLinked(x, "shipping"))
             g == Flag("sitemap_accessible", "warning", SitemapAccessible(x), x.sitemap > 0)
             h == Verdict("terms_of_service_linked", "error", PolicyLinked(x, "terms"))
  <2>1. StoreResults(x) = {a, b, c, d, e, f, g, h}
    BY DEF StoreResults
  <2> HIDE DEF a, b, c, d, e, f, g, h
  <2>2. IsFiniteSet({a, b, c, d, e, f, g, h, h, h})
    BY TenFinite
  <2>3. {a, b, c, d, e, f, g, h, h, h} = {a, b, c, d, e, f, g, h}
    OBVIOUS
  <2> QED
    BY <2>1, <2>2, <2>3
<1>2. IsFiniteSet(AboutPageExists(x))
  BY OneFinite, FS_Singleton DEF AboutPageExists
<1>3. IsFiniteSet(ContactInfoVisible(x))
  BY OneFinite DEF ContactInfoVisible
<1>4. IsFiniteSet(SitemapAccessible(x)) /\ \A signal : IsFiniteSet(PolicyLinked(x, signal))
  BY OneFinite DEF SitemapAccessible, PolicyLinked
<1>5. IsFiniteSet(RobotsTxtValid(x))
  <2>1. CASE x.robots.kind \in {"missing", "broken"}
    BY <2>1, FS_Singleton DEF RobotsTxtValid
  <2>2. CASE x.robots.kind \notin {"missing", "broken"}
    <3> DEFINE f == [n \in 1..x.robots.probes |-> Issue("robots.txt", n)]
    <3>1. IsFiniteSet(1..x.robots.probes)
      BY <2>2, FS_Interval DEF Finite
    <3>2. IsFiniteSet({f[n] : n \in DOMAIN f})
      BY <3>1, ImageFinite
    <3>3. RobotsTxtValid(x) = {f[n] : n \in DOMAIN f}
      BY <2>2 DEF RobotsTxtValid
    <3> QED
      BY <3>2, <3>3
  <2> QED
    BY <2>1, <2>2
<1> QED
  BY <1>1, <1>2, <1>3, <1>4, <1>5 DEF StoreResults, Verdict, Flag, Judged

LEMMA OnceNat ==
    ASSUME NEW bad
    PROVE  Once(bad) \in Nat
BY DEF Once

LEMMA PagesFinite ==
    ASSUME NEW x, Finite(x)
    PROVE  IsFiniteSet(PageResults(x)) /\ \A r \in PageResults(x) : IsFiniteSet(r.issues)
<1>1. IsFiniteSet(PageResults(x))
  BY TenFinite DEF PageResults
<1>2. IsFiniteSet(HomeAndProducts(x)) /\ IsFiniteSet(Products(x))
  <2>1. IsFiniteSet({x.home})
    BY FS_Singleton
  <2> QED
    BY <2>1, FS_Union DEF Finite, HomeAndProducts
<1>3. IsFiniteSet(CanonicalTagsPresent(x))
  BY <1>2, OnceNat, PerPageFinite DEF CanonicalTagsPresent
<1>4. IsFiniteSet(ImageAltQuality(x))
  BY <1>2, PerPageFinite DEF ImageAltQuality, Finite
<1>5. IsFiniteSet(ProductIdentifierPresent(x))
  BY <1>2, OnceNat, PerPageFinite DEF ProductIdentifierPresent
<1>6. IsFiniteSet(ProductImagesPresent(x))
  BY <1>2, OnceNat, PerPageFinite DEF ProductImagesPresent
<1>7. IsFiniteSet(ProductSchemaComplete(x))
  BY <1>2, OnceNat, PerPageFinite DEF ProductSchemaComplete
<1>8. IsFiniteSet(ProductSchemaPresent(x))
  BY <1>2, OnceNat, PerPageFinite DEF ProductSchemaPresent
<1>9. IsFiniteSet(ProductTitleQuality(x))
  BY <1>2, OnceNat, PerPageFinite DEF ProductTitleQuality
<1>10. IsFiniteSet(ProhibitedContentSignals(x))
  BY <1>2, PerPageFinite DEF ProhibitedContentSignals, Finite
<1>11. IsFiniteSet(HTTPSEverywhere(x))
  <2>1. IsFiniteSet(PerPage([p \in HomeAndProducts(x) |-> p.mixed]))
    BY <1>2, PerPageFinite DEF Finite
  <2>2. IsFiniteSet(IF x.secure THEN {} ELSE {Issue(Home, 0)})
    BY FS_EmptySet, FS_Singleton
  <2> QED
    BY <2>1, <2>2, FS_Union DEF HTTPSEverywhere
<1>12. IsFiniteSet(BrokenProductLinks(x))
  <2> DEFINE policies == {x.policies[slug] : slug \in DOMAIN x.policies}
             f == [slug \in DOMAIN x.policies |-> x.policies[slug]]
             pages == HomeAndProducts(x) \cup ToSet(x.collections) \cup policies
  <2>1. IsFiniteSet({f[slug] : slug \in DOMAIN f})
    BY ImageFinite DEF Finite
  <2>2. IsFiniteSet(policies)
    BY <2>1
  <2> HIDE DEF policies
  <2>3. IsFiniteSet(pages)
    BY <1>2, <2>2, FS_Union DEF Finite
  <2> HIDE DEF pages
  <2>4. IsFiniteSet(PerPage([p \in pages |-> Once(p.broken)]))
    BY <2>3, OnceNat, PerPageFinite
  <2> QED
    BY <2>4 DEF BrokenProductLinks, pages, policies
<1> QED
  BY <1>1, <1>3, <1>4, <1>5, <1>6, <1>7, <1>8, <1>9, <1>10, <1>11, <1>12
     DEF PageResults, Verdict, Flag, Judged

LEMMA GoogleFinite ==
    ASSUME NEW x, Finite(x)
    PROVE  IsFiniteSet(GoogleResults(x)) /\ \A r \in GoogleResults(x) : IsFiniteSet(r.issues)
<1>1. IsFiniteSet(GoogleResults(x))
  <2> DEFINE a == Verdict("gmc_account_suspended", "critical", AccountSuspended(x))
             b == Verdict("gmc_account_warning", "warning", AccountWarning(x))
             c == Verdict("gmc_feed_fetch_error", "critical", FeedFetchError(x))
             d == Verdict("gmc_image_policy_violation", "warning", ImagePolicyViolation(x))
             e == Verdict("gmc_landing_page_availability_mismatch", "warning", ItemCode(x, AvailabilityCode))
             f == Verdict("gmc_landing_page_price_mismatch", "critical", ItemCode(x, PriceCode))
             g == Verdict("gmc_product_disapproval_rate", DisapprovalSeverity(x), DisapprovalRate(x))
             h == Verdict("gmc_specific_item_issue", "warning", SpecificItemIssue(x))
             i == Verdict("gmc_website_not_claimed", "warning", WebsiteNotClaimed(x))
  <2>1. GoogleResults(x) = {a, b, c, d, e, f, g, h, i}
    BY DEF GoogleResults
  <2> HIDE DEF a, b, c, d, e, f, g, h, i
  <2>2. IsFiniteSet({a, b, c, d, e, f, g, h, i, i})
    BY TenFinite
  <2>3. {a, b, c, d, e, f, g, h, i, i} = {a, b, c, d, e, f, g, h, i}
    OBVIOUS
  <2> QED
    BY <2>1, <2>2, <2>3
<1>2. CASE x.gmc = None
  BY <1>1, <1>2, NoGoogle, FS_EmptySet
<1>3. CASE x.gmc # None
  <2>1. GoogleData(x.gmc) /\ GoogleProducts(x) = x.gmc.products
    BY <1>3 DEF Finite, GoogleProducts
  <2>2. ASSUME NEW critical PROVE IsFiniteSet(AccountIssues(x, critical))
    <3>1. CASE x.gmc.account = None
      BY <3>1, FS_EmptySet DEF AccountIssues
    <3>2. CASE x.gmc.account # None
      <4> DEFINE issues == x.gmc.account.issues
                 S == {n \in DOMAIN issues : issues[n].critical <=> critical}
                 f == [i \in S |-> GoogleIssue(issues[i].id, i)]
      <4>1. IsFiniteSet(S)
        BY <2>1, <3>2, FS_Subset DEF GoogleData
      <4> HIDE DEF S
      <4>2. IsFiniteSet({f[i] : i \in DOMAIN f})
        BY <4>1, ImageFinite
      <4>3. AccountIssues(x, critical) = {f[i] : i \in DOMAIN f}
        BY <1>3, <3>2 DEF AccountIssues, S
      <4> QED
        BY <4>2, <4>3
    <3> QED
      BY <3>1, <3>2
  <2>3. IsFiniteSet(WebsiteNotClaimed(x)) /\ IsFiniteSet(DisapprovalRate(x))
    BY FS_EmptySet, FS_Singleton DEF WebsiteNotClaimed, DisapprovalRate
  <2>4. IsFiniteSet(FeedFetchError(x))
    <3> DEFINE feeds == x.gmc.feeds
               S == {n \in DOMAIN feeds : feeds[n] # None}
               f == [i \in S |-> GoogleIssue(feeds[i], i)]
    <3>1. IsFiniteSet(S)
      BY <2>1, FS_Subset DEF GoogleData
    <3> HIDE DEF S
    <3>2. IsFiniteSet({f[i] : i \in DOMAIN f})
      BY <3>1, ImageFinite
    <3>3. FeedFetchError(x) = {f[i] : i \in DOMAIN f}
      BY <1>3 DEF FeedFetchError, S
    <3> QED
      BY <3>2, <3>3
  <2>5. IsFiniteSet(Codes(x))
    <3> DEFINE f == [i \in DOMAIN x.gmc.products |-> x.gmc.products[i].codes]
    <3>1. IsFiniteSet({f[i] : i \in DOMAIN f})
      BY <2>1, ImageFinite DEF GoogleData
    <3>2. \A T \in {f[i] : i \in DOMAIN f} : IsFiniteSet(T)
      BY <2>1 DEF GoogleData
    <3>3. Codes(x) = UNION {f[i] : i \in DOMAIN f}
      BY <2>1 DEF Codes
    <3> QED
      BY <3>1, <3>2, <3>3, FS_UNION
  <2>6. ASSUME NEW codes, IsFiniteSet(codes) PROVE IsFiniteSet(ByCode(codes))
    <3> DEFINE f == [code \in codes |-> GoogleIssue(code, 1)]
    <3>1. IsFiniteSet({f[i] : i \in DOMAIN f})
      BY <2>6, ImageFinite
    <3>2. ByCode(codes) = {f[i] : i \in DOMAIN f}
      BY DEF ByCode
    <3> QED
      BY <3>1, <3>2
  <2>7. IsFiniteSet(ImagePolicyViolation(x)) /\ IsFiniteSet(SpecificItemIssue(x))
    <3>1. /\ IsFiniteSet(Codes(x) \cap ImageCodes)
          /\ IsFiniteSet(Codes(x) \ ({PriceCode, AvailabilityCode} \cup ImageCodes))
      BY <2>5, FS_Subset
    <3> QED
      BY <2>6, <3>1 DEF ImagePolicyViolation, SpecificItemIssue
  <2>8. ASSUME NEW code PROVE IsFiniteSet(ItemCode(x, code))
    <3> DEFINE products == x.gmc.products
               S == {n \in DOMAIN products : code \in products[n].codes}
               f == [i \in S |-> [url |-> products[i].link, code |-> code, nth |-> i]]
    <3>1. IsFiniteSet(S)
      BY <2>1, FS_Subset DEF GoogleData
    <3> HIDE DEF S
    <3>2. IsFiniteSet({f[i] : i \in DOMAIN f})
      BY <3>1, ImageFinite
    <3>3. ItemCode(x, code) = {f[i] : i \in DOMAIN f}
      BY <2>1 DEF ItemCode, S
    <3> QED
      BY <3>2, <3>3
  <2>9. IsFiniteSet(AccountSuspended(x)) /\ IsFiniteSet(AccountWarning(x))
    BY <2>2 DEF AccountSuspended, AccountWarning
  <2>10. IsFiniteSet(ItemCode(x, AvailabilityCode)) /\ IsFiniteSet(ItemCode(x, PriceCode))
    BY <2>8
  <2>11. \A r \in GoogleResults(x) : IsFiniteSet(r.issues)
    BY <2>3, <2>4, <2>7, <2>9, <2>10 DEF GoogleResults, Verdict, Judged
  <2> QED
    BY <1>1, <2>11
<1> QED
  BY <1>2, <1>3

LEMMA RowsFinite ==
    ASSUME NEW results, IsFiniteSet(results), \A r \in results : IsFiniteSet(r.issues)
    PROVE  IsFiniteSet(Rows(results))
<1> DEFINE own(r) == {[check |-> r.check, severity |-> r.severity,
                       url |-> i.url, code |-> i.code, nth |-> i.nth] : i \in r.issues}
           f == [r \in results |-> own(r)]
<1>1. ASSUME NEW r \in results PROVE IsFiniteSet(own(r))
  <2> DEFINE g == [i \in r.issues |-> [check |-> r.check, severity |-> r.severity,
                                       url |-> i.url, code |-> i.code, nth |-> i.nth]]
  <2>1. IsFiniteSet({g[i] : i \in DOMAIN g})
    BY ImageFinite
  <2>2. {g[i] : i \in DOMAIN g} = own(r)
    OBVIOUS
  <2> QED
    BY <2>1, <2>2
<1>2. IsFiniteSet({f[r] : r \in DOMAIN f})
  BY ImageFinite
<1>3. \A T \in {f[r] : r \in DOMAIN f} : IsFiniteSet(T)
  BY <1>1
<1>4. Rows(results) = UNION {f[r] : r \in DOMAIN f}
  BY DEF Rows
<1> QED
  BY <1>2, <1>3, <1>4, FS_UNION

-----------------------------------------------------------------------------
(* The rows under a severity: those that what was seen decides, and those  *)
(* of the two checks that depend on an order, of which only the number is  *)
(* decided.                                                                *)

Row(check, severity, i) ==
    [check |-> check, severity |-> severity, url |-> i.url, code |-> i.code, nth |-> i.nth]

Common(x) == StoreResults(x) \cup PageResults(x) \cup GoogleResults(x)

PoorIssues(x)   == PerPage([p \in Products(x) |-> Once(p.poor \/ p.description = None)])
SharedIssues(x) == {Issue(x.products[i].url, 2) : i \in FirstOfGroup(x)}

CurrencyRows(x, base) == {Row("currency_consistency", "error", i) : i \in CurrencyConsistency(x, base)}
PoorRows(x)   == {Row("product_description_quality", "warning", i) : i \in PoorIssues(x)}
SharedRows(x) == {Row("product_description_quality", "warning", i) : i \in SharedIssues(x)}

Decided(x, s)      == Rows(Under(Common(x), s)) \cup (IF s = "warning" THEN PoorRows(x) ELSE {})
Ordered(x, base, s) == CASE s = "error" -> CurrencyRows(x, base)
                         [] s = "warning" -> SharedRows(x)
                         [] OTHER -> {}

LEMMA RowsOfOne ==
    ASSUME NEW check, NEW severity, NEW issues, NEW s
    PROVE  Rows(Under({Verdict(check, severity, issues)}, s)) =
              IF s = severity THEN {Row(check, severity, i) : i \in issues} ELSE {}
<1> DEFINE r == Verdict(check, severity, issues)
<1>1. /\ r.check = check /\ r.severity = severity /\ r.issues = issues
      /\ r.status = IF issues = {} THEN "pass" ELSE "fail"
  BY DEF Verdict, Judged
<1> HIDE DEF r
<1>2. Under({r}, s) = IF issues # {} /\ s = severity THEN {r} ELSE {}
  BY <1>1 DEF Under
<1>3. Rows({r}) = {Row(check, severity, i) : i \in issues} /\ Rows({}) = {}
  BY <1>1 DEF Rows, Row
<1> QED
  BY <1>2, <1>3 DEF r

LEMMA RowsOfUnion ==
    ASSUME NEW A, NEW B, NEW s
    PROVE  Rows(Under(A \cup B, s)) = Rows(Under(A, s)) \cup Rows(Under(B, s))
<1>1. Under(A \cup B, s) = Under(A, s) \cup Under(B, s)
  BY DEF Under
<1>2. \A P, Q : Rows(P \cup Q) = Rows(P) \cup Rows(Q)
  BY DEF Rows
<1> QED
  BY <1>1, <1>2

LEMMA RowsSplit ==
    ASSUME NEW x, NEW base, NEW s \in {"critical", "error", "warning", "info"}
    PROVE  Rows(Under(Results(x, base), s)) = Decided(x, s) \cup Ordered(x, base, s)
<1> DEFINE cur  == Verdict("currency_consistency", "error", CurrencyConsistency(x, base))
           desc == Verdict("product_description_quality", "warning", ProductDescriptionQuality(x))
<1>1. Results(x, base) = (Common(x) \cup {cur}) \cup {desc}
  BY DEF Results, Common
<1>2. Rows(Under({cur}, s)) = IF s = "error" THEN CurrencyRows(x, base) ELSE {}
  BY RowsOfOne DEF CurrencyRows
<1>3. Rows(Under({desc}, s)) = IF s = "warning" THEN PoorRows(x) \cup SharedRows(x) ELSE {}
  <2>1. ProductDescriptionQuality(x) = PoorIssues(x) \cup SharedIssues(x)
    BY DEF ProductDescriptionQuality, PoorIssues, SharedIssues
  <2>2. Rows(Under({desc}, s)) = IF s = "warning"
           THEN {Row("product_description_quality", "warning", i) : i \in ProductDescriptionQuality(x)}
           ELSE {}
    BY RowsOfOne
  <2> QED
    BY <2>1, <2>2 DEF PoorRows, SharedRows
<1> HIDE DEF cur, desc
<1>4. Rows(Under(Results(x, base), s)) =
         (Rows(Under(Common(x), s)) \cup Rows(Under({cur}, s))) \cup Rows(Under({desc}, s))
  <2>1. Rows(Under((Common(x) \cup {cur}) \cup {desc}, s)) =
           Rows(Under(Common(x) \cup {cur}, s)) \cup Rows(Under({desc}, s))
    BY RowsOfUnion
  <2>2. Rows(Under(Common(x) \cup {cur}, s)) = Rows(Under(Common(x), s)) \cup Rows(Under({cur}, s))
    BY RowsOfUnion
  <2> QED
    BY <1>1, <2>1, <2>2
<1> QED
  BY <1>2, <1>3, <1>4 DEF Decided, Ordered

LEMMA Apart ==
    ASSUME NEW x, NEW base, NEW s
    PROVE  Decided(x, s) \cap Ordered(x, base, s) = {}
<1>1. \A k \in Rows(Under(Common(x), s)) :
         k.check \notin {"currency_consistency", "product_description_quality"}
  <2>1. \A r \in Common(x) : r.check \notin {"currency_consistency", "product_description_quality"}
    BY DEF Common, StoreResults, PageResults, GoogleResults, Verdict, Flag, Judged
  <2> QED
    BY <2>1 DEF Rows, Under
<1>2. \A k \in CurrencyRows(x, base) : k.check = "currency_consistency"
  BY DEF CurrencyRows, Row
<1>3. \A k \in SharedRows(x) : k.check = "product_description_quality" /\ k.nth = 2
  BY DEF SharedRows, SharedIssues, Row, Issue
<1>4. \A k \in PoorRows(x) : k.check = "product_description_quality" /\ k.nth = 1
  <2>1. \A i \in PoorIssues(x) : i.nth = 1
    BY DEF PoorIssues, PerPage, Issue, Once
  <2> QED
    BY <2>1 DEF PoorRows, Row
<1> QED
  BY <1>1, <1>2, <1>3, <1>4 DEF Decided, Ordered

LEMMA DecidedFinite ==
    ASSUME NEW x, Finite(x), NEW s
    PROVE  IsFiniteSet(Decided(x, s))
<1>1. IsFiniteSet(Common(x)) /\ \A r \in Common(x) : IsFiniteSet(r.issues)
  BY StoreFinite, PagesFinite, GoogleFinite, FS_Union DEF Common
<1>2. IsFiniteSet(Under(Common(x), s)) /\ \A r \in Under(Common(x), s) : IsFiniteSet(r.issues)
  BY <1>1, FS_Subset DEF Under
<1>3. IsFiniteSet(Rows(Under(Common(x), s)))
  BY <1>2, RowsFinite
<1>4. IsFiniteSet(PoorRows(x))
  <2> DEFINE f == [i \in PoorIssues(x) |-> Row("product_description_quality", "warning", i)]
  <2>1. IsFiniteSet(PoorIssues(x))
    BY OnceNat, PerPageFinite DEF PoorIssues, Finite
  <2>2. IsFiniteSet({f[i] : i \in DOMAIN f})
    BY <2>1, ImageFinite
  <2> QED
    BY <2>2 DEF PoorRows
<1> QED
  BY <1>3, <1>4, FS_Union, FS_EmptySet DEF Decided

LEMMA CurrencyCount ==
    ASSUME NEW x, Finite(x), NEW base \in Baselines(x),
           \A p, q \in Products(x) : p.url = q.url => p = q
    PROVE  /\ IsFiniteSet(CurrencyRows(x, base))
           /\ base = None => Cardinality(CurrencyRows(x, base)) = 0
           /\ base # None =>
                 /\ base \in Expected(x)
                 /\ Cardinality(CurrencyRows(x, base)) =
                       Cardinality(Priced(x)) - Cardinality(PricedIn(x, base))
<1>1. CASE base = None
  <2>1. CurrencyRows(x, base) = {}
    BY <1>1 DEF CurrencyRows, CurrencyConsistency
  <2> QED
    BY <1>1, <2>1, FS_EmptySet
<1>2. CASE base # None
  <2> DEFINE S == Priced(x) \ PricedIn(x, base)
             f == [p \in S |-> Row("currency_consistency", "error", Issue(p.url, 1))]
  <2>1. base \in Expected(x)
    BY <1>2 DEF Baselines
  <2>2. IsFiniteSet(Priced(x))
    BY FS_Subset DEF Finite, Priced
  <2>3. /\ IsFiniteSet(S)
        /\ Cardinality(S) = Cardinality(Priced(x)) - Cardinality(Priced(x) \cap PricedIn(x, base))
    BY <2>2, FS_Difference
  <2>4. Priced(x) \cap PricedIn(x, base) = PricedIn(x, base)
    BY DEF PricedIn
  <2>5. CurrencyRows(x, base) = {f[p] : p \in DOMAIN f}
    <3>1. CurrencyConsistency(x, base) = {Issue(p.url, 1) : p \in S}
      <4> DEFINE own(p) == {Issue(p.url, n) : n \in 1..Once(Currency(p) # base)}
      <4>1. \A p \in Priced(x) : own(p) = IF p \in S THEN {Issue(p.url, 1)} ELSE {}
        <5>1. 1..1 = {1} /\ 1..0 = {}
          OBVIOUS
        <5> QED
          BY <5>1 DEF Once, PricedIn
      <4>2. CurrencyConsistency(x, base) = UNION {own(p) : p \in Priced(x)}
        BY <1>2 DEF CurrencyConsistency, PerPage
      <4>3. S \subseteq Priced(x)
        OBVIOUS
      <4> HIDE DEF S, own
      <4>4. \A i \in CurrencyConsistency(x, base) : \E p \in S : i = Issue(p.url, 1)
        BY <4>1, <4>2
      <4>5. \A p \in S : Issue(p.url, 1) \in CurrencyConsistency(x, base)
        <5>1. \A p \in S : own(p) = {Issue(p.url, 1)} /\ own(p) \subseteq CurrencyConsistency(x, base)
          BY <4>1, <4>2, <4>3
        <5> QED
          BY <5>1
      <4> QED
        BY <4>4, <4>5
    <3> HIDE DEF S
    <3> QED
      BY <3>1 DEF CurrencyRows
  <2>6. \A p, q \in DOMAIN f : f[p] = f[q] => p = q
    <3>1. \A p \in S : f[p].url = p.url
      BY DEF Row, Issue
    <3>2. S \subseteq Products(x)
      BY DEF Priced
    <3> QED
      BY <3>1, <3>2
  <2> HIDE DEF S
  <2>7. f = [p \in DOMAIN f |-> f[p]] /\ DOMAIN f = S
    OBVIOUS
  <2> HIDE DEF f
  <2>8. /\ IsFiniteSet({f[p] : p \in DOMAIN f})
        /\ Cardinality({f[p] : p \in DOMAIN f}) = Cardinality(DOMAIN f)
    BY <2>3, <2>6, <2>7, ImageFinite
  <2> QED
    BY <1>2, <2>1, <2>3, <2>4, <2>5, <2>7, <2>8
<1> QED
  BY <1>1, <1>2

\* Whatever the order of the map, as many pages are off the store's currency.
LEMMA CurrencySame ==
    ASSUME NEW x, Finite(x), NEW base \in Baselines(x), NEW other \in Baselines(x),
           \A p, q \in Products(x) : p.url = q.url => p = q
    PROVE  Cardinality(CurrencyRows(x, base)) = Cardinality(CurrencyRows(x, other))
<1>1. base = None <=> other = None
  BY DEF Baselines, Expected, Currencies, Priced
<1>2. CASE base # None
  <2>1. base \in Expected(x) /\ other \in Expected(x)
    BY <1>1, <1>2, CurrencyCount
  <2>2. IsFiniteSet(PricedIn(x, base)) /\ IsFiniteSet(PricedIn(x, other))
    BY FS_Subset DEF Finite, Priced, PricedIn
  <2>3. Cardinality(PricedIn(x, base)) \in Nat /\ Cardinality(PricedIn(x, other)) \in Nat
    BY <2>2, FS_CardinalityType
  <2>4. Cardinality(PricedIn(x, base)) = Cardinality(PricedIn(x, other))
    BY <2>1, <2>3 DEF Expected
  <2> QED
    BY <1>1, <1>2, <2>4, CurrencyCount
<1> QED
  BY <1>1, <1>2, CurrencyCount

-----------------------------------------------------------------------------
(* Descriptions that pages share.                                          *)

Less == {p \in Nat \X Nat : p[1] < p[2]}

LEMMA LessWellFounded == IsWellFoundedOn(Less, Nat)
<1>1. OpToRel(<, Nat) = Less
  BY Zenon DEF OpToRel, Less
<1> QED
  BY <1>1, NatLessThanWellFounded, Zenon

LEMMA Least ==
    ASSUME NEW S, S \subseteq Nat, S # {}
    PROVE  \E i \in S : \A j \in S : i <= j
<1>1. PICK i \in S : \A j \in S : <<j, i>> \notin Less
  BY LessWellFounded, WFMin
<1>2. ASSUME NEW j \in S PROVE i <= j
  <2>1. <<j, i>> \notin Less /\ j \in Nat /\ i \in Nat
    BY <1>1
  <2>2. ~ (j < i)
    BY <2>1 DEF Less
  <2> QED
    BY <2>1, <2>2
<1> QED
  BY <1>2

\* The descriptions that more than one page has.
Texts(x) ==
    {t \in {p.description : p \in Products(x)} :
        t # None /\ \E p, q \in Products(x) : p # q /\ p.description = t /\ q.description = t}

LEMMA SharedCount ==
    ASSUME NEW x, NEW S, x.products \in Seq(S),
           \A i, j \in DOMAIN x.products : x.products[i].url = x.products[j].url => i = j
    PROVE  IsFiniteSet(SharedRows(x)) /\ Cardinality(SharedRows(x)) = Cardinality(Texts(x))
<1> DEFINE F == FirstOfGroup(x)
           D == DOMAIN x.products
           f == [i \in F |-> Row("product_description_quality", "warning", Issue(x.products[i].url, 2))]
           g == [i \in F |-> x.products[i].description]
<1>1. D \subseteq Nat /\ IsFiniteSet(D) /\ F \subseteq D /\ D = 1..Len(x.products)
  <2>1. IsFiniteSet(D)
    BY SeqFinite
  <2> QED
    BY <2>1 DEF FirstOfGroup
<1>2. IsFiniteSet(F)
  BY <1>1, FS_Subset
<1>3. \A i, j \in DOMAIN f : f[i] = f[j] => i = j
  <2>1. \A i \in F : f[i].url = x.products[i].url
    BY DEF Row, Issue
  <2> QED
    BY <1>1, <2>1
<1>4. SharedRows(x) = {f[i] : i \in DOMAIN f}
  <2> HIDE DEF F
  <2> QED
    BY DEF SharedRows, SharedIssues, F
<1>5. \A i, j \in DOMAIN g : g[i] = g[j] => i = j
  <2> SUFFICES ASSUME NEW i \in F, NEW j \in F, x.products[i].description = x.products[j].description,
                      i # j
               PROVE  FALSE
    OBVIOUS
  <2>1. SameText(x, i, j) /\ SameText(x, j, i)
    BY DEF FirstOfGroup, SameText
  <2>2. i \in 1..j - 1 \/ j \in 1..i - 1
    BY <1>1
  <2> QED
    BY <2>1, <2>2 DEF FirstOfGroup
<1>6. Texts(x) = {g[i] : i \in DOMAIN g}
  <2>1. ASSUME NEW i \in F PROVE x.products[i].description \in Texts(x)
    <3>1. PICK j \in D : SameText(x, i, j)
      BY DEF FirstOfGroup
    <3>2. i \in D /\ x.products[i] # x.products[j]
      BY <1>1, <3>1 DEF SameText
    <3>3. x.products[i] \in Products(x) /\ x.products[j] \in Products(x)
      BY <3>2 DEF Products, ToSet
    <3> QED
      BY <3>1, <3>2, <3>3 DEF Texts, SameText
  <2>2. ASSUME NEW t \in Texts(x) PROVE \E i \in F : t = x.products[i].description
    <3> DEFINE At == {i \in D : x.products[i].description = t}
    <3>1. PICK p \in Products(x), q \in Products(x) :
             p # q /\ p.description = t /\ q.description = t /\ t # None
      BY DEF Texts
    <3>2. PICK m \in D, n \in D : p = x.products[m] /\ q = x.products[n]
      BY DEF Products, ToSet
    <3>3. m \in At /\ n \in At /\ m # n
      BY <3>1, <3>2
    <3>4. PICK i \in At : \A j \in At : i <= j
      BY <1>1, <3>3, Least
    <3>5. PICK j \in At : j # i
      BY <3>3
    <3>6. SameText(x, i, j)
      BY <3>1, <3>5 DEF SameText
    <3>7. \A k \in 1..i - 1 : ~ SameText(x, i, k)
      <4> SUFFICES ASSUME NEW k \in 1..i - 1, SameText(x, i, k) PROVE FALSE
        OBVIOUS
      <4>1. Len(x.products) \in Nat /\ i \in 1..Len(x.products)
        BY <1>1, <3>4
      <4>2. k \in D /\ k < i
        BY <1>1, <4>1
      <4>3. k \in At
        BY <3>4, <4>2 DEF SameText
      <4> QED
        BY <1>1, <3>4, <4>1, <4>2, <4>3
    <3> QED
      BY <3>4, <3>6, <3>7 DEF FirstOfGroup
  <2> HIDE DEF F
  <2> QED
    BY <2>1, <2>2
<1> HIDE DEF F
<1>7. IsFiniteSet(DOMAIN f) /\ f = [i \in DOMAIN f |-> f[i]] /\ DOMAIN f = F
  <2>1. DOMAIN f = F /\ f = [i \in DOMAIN f |-> f[i]]
    OBVIOUS
  <2> HIDE DEF f
  <2> QED
    BY <1>2, <2>1
<1>8. IsFiniteSet(DOMAIN g) /\ g = [i \in DOMAIN g |-> g[i]] /\ DOMAIN g = F
  <2>1. DOMAIN g = F
    OBVIOUS
  <2>2. g = [i \in F |-> g[i]]
    OBVIOUS
  <2> HIDE DEF g
  <2> QED
    BY <1>2, <2>1, <2>2
<1> HIDE DEF f, g
<1>9. IsFiniteSet(SharedRows(x)) /\ Cardinality(SharedRows(x)) = Cardinality(F)
  <2>1. /\ IsFiniteSet({f[i] : i \in DOMAIN f})
        /\ Cardinality({f[i] : i \in DOMAIN f}) = Cardinality(DOMAIN f)
    BY <1>3, <1>7, ImageFinite
  <2> QED
    BY <1>4, <1>7, <2>1
<1>10. Cardinality(Texts(x)) = Cardinality(F)
  <2>1. /\ IsFiniteSet({g[i] : i \in DOMAIN g})
        /\ Cardinality({g[i] : i \in DOMAIN g}) = Cardinality(DOMAIN g)
    BY <1>5, <1>8, ImageFinite
  <2> QED
    BY <1>6, <1>8, <2>1
<1> QED
  BY <1>9, <1>10

-----------------------------------------------------------------------------
(* Two crawls that saw the same.                                           *)

\* Two contexts with the same pages, however these arrived.
Alike(x, y) ==
    /\ x.secure = y.secure /\ x.robots = y.robots /\ x.sitemap = y.sitemap /\ x.home = y.home
    /\ Products(x) = Products(y) /\ ToSet(x.collections) = ToSet(y.collections)
    /\ x.policies = y.policies /\ x.gmc = y.gmc

LEMMA SameSightAlike ==
    ASSUME CInv, NEW c \in Crawls, NEW d \in Crawls, stage[c] = "saved", stage[d] = "saved",
           SameSight(c, d)
    PROVE  Alike(Context(c), Context(d))
<1> DEFINE x == Context(c)
           y == Context(d)
<1>1. Of(d) = Of(c) /\ \A kind : SeenOfKind(d, kind) = SeenOfKind(c, kind)
  BY DEF SameSight, Of, SeenOfKind, OfKind
<1>2. \A urls : PagesOf(d, urls) = PagesOf(c, urls)
  BY <1>1 DEF PagesOf
<1>3. x.secure = y.secure /\ x.home = y.home /\ x.sitemap = y.sitemap /\ x.gmc = y.gmc
  BY <1>1 DEF Context, SameSight
<1>4. Products(x) = Products(y) /\ ToSet(x.collections) = ToSet(y.collections)
  BY <1>1, <1>2, Sight
<1>5. x.robots = y.robots
  <2>1. RobotsRead(c) /\ RobotsRead(d)
    BY DEF CInv, InCourse
  <2>2. seen[c].robots.kind # "missing" <=> seen[d].robots.kind # "missing"
    BY SeenUrls DEF SameSight
  <2> QED
    BY <1>1, <2>1, <2>2 DEF RobotsRead, Context
<1>6. \A s \in DOMAIN x.policies : s \in DOMAIN y.policies /\ y.policies[s] = x.policies[s]
  <2> SUFFICES ASSUME NEW s \in DOMAIN x.policies
               PROVE  s \in DOMAIN y.policies /\ y.policies[s] = x.policies[s]
    OBVIOUS
  <2>1. PICK u \in SeenOfKind(c, "policy") :
           x.policies[s] = Of(c).pages[u] /\ Of(c).pages[u].slug = s
    BY Sight
  <2>2. u \in SeenOfKind(d, "policy")
    BY <1>1
  <2> QED
    BY <1>1, <2>1, <2>2, Sight
<1>7. \A s \in DOMAIN y.policies : s \in DOMAIN x.policies
  <2> SUFFICES ASSUME NEW s \in DOMAIN y.policies PROVE s \in DOMAIN x.policies
    OBVIOUS
  <2>1. PICK u \in SeenOfKind(d, "policy") :
           y.policies[s] = Of(d).pages[u] /\ Of(d).pages[u].slug = s
    BY Sight
  <2>2. u \in SeenOfKind(c, "policy")
    BY <1>1
  <2> QED
    BY <1>1, <2>1, <2>2, Sight
<1>8. x.policies = [s \in DOMAIN x.policies |-> x.policies[s]]
      /\ y.policies = [s \in DOMAIN y.policies |-> y.policies[s]]
  BY DEF Context
<1> HIDE DEF x, y
<1>9. x.policies = y.policies
  <2>1. DOMAIN x.policies = DOMAIN y.policies
    BY <1>6, <1>7
  <2> QED
    BY <1>6, <1>8, <2>1
<1> QED
  BY <1>3, <1>4, <1>5, <1>9 DEF Alike, x, y

LEMMA AlikeResults ==
    ASSUME NEW x, NEW y, Alike(x, y)
    PROVE  /\ Common(x) = Common(y)
           /\ PoorIssues(x) = PoorIssues(y)
           /\ Texts(x) = Texts(y)
           /\ Baselines(x) = Baselines(y)
           /\ \A base : CurrencyConsistency(x, base) = CurrencyConsistency(y, base)
<1>1. \A slug : Policy(x, slug) = Policy(y, slug)
  BY DEF Alike, Policy
<1>2. StoreResults(x) = StoreResults(y)
  <2>1. AboutPageExists(x) = AboutPageExists(y) /\ ContactInfoVisible(x) = ContactInfoVisible(y)
    BY <1>1 DEF Alike, AboutPageExists, ContactInfoVisible
  <2>2. \A signal : PolicyLinked(x, signal) = PolicyLinked(y, signal)
    BY DEF Alike, PolicyLinked
  <2>3. RobotsTxtValid(x) = RobotsTxtValid(y) /\ SitemapAccessible(x) = SitemapAccessible(y)
    BY DEF Alike, RobotsTxtValid, SitemapAccessible
  <2> QED
    BY <2>1, <2>2, <2>3 DEF Alike, StoreResults
<1>3. PageResults(x) = PageResults(y)
  <2>1. Products(x) = Products(y) /\ HomeAndProducts(x) = HomeAndProducts(y)
    BY DEF Alike, HomeAndProducts
  <2>2. /\ BrokenProductLinks(x) = BrokenProductLinks(y)
        /\ HTTPSEverywhere(x) = HTTPSEverywhere(y)
        /\ ProhibitedContentSignals(x) = ProhibitedContentSignals(y)
    BY <2>1 DEF Alike, BrokenProductLinks, HTTPSEverywhere, ProhibitedContentSignals
  <2>3. /\ CanonicalTagsPresent(x) = CanonicalTagsPresent(y)
        /\ ImageAltQuality(x) = ImageAltQuality(y)
        /\ ProductIdentifierPresent(x) = ProductIdentifierPresent(y)
        /\ ProductImagesPresent(x) = ProductImagesPresent(y)
        /\ ProductSchemaComplete(x) = ProductSchemaComplete(y)
        /\ ProductSchemaPresent(x) = ProductSchemaPresent(y)
        /\ ProductTitleQuality(x) = ProductTitleQuality(y)
    BY <2>1 DEF CanonicalTagsPresent, ImageAltQuality, ProductIdentifierPresent, ProductImagesPresent,
                ProductSchemaComplete, ProductSchemaPresent, ProductTitleQuality
  <2> QED
    BY <2>2, <2>3 DEF PageResults
<1>4. Common(x) = Common(y)
  BY <1>2, <1>3, GoogleSame DEF Alike, Common
<1>5. PoorIssues(x) = PoorIssues(y) /\ Texts(x) = Texts(y)
  BY DEF Alike, PoorIssues, Texts
<1>6. Priced(x) = Priced(y)
  BY DEF Alike, Priced
<1>7. Currencies(x) = Currencies(y) /\ \A base : PricedIn(x, base) = PricedIn(y, base)
  BY <1>6 DEF Currencies, PricedIn
<1>8. Baselines(x) = Baselines(y)
  BY <1>7 DEF Baselines, Expected
<1>9. \A base : CurrencyConsistency(x, base) = CurrencyConsistency(y, base)
  BY <1>6 DEF CurrencyConsistency
<1> QED
  BY <1>4, <1>5, <1>8, <1>9

\* Sets that grow by as many elements.
LEMMA Grown ==
    ASSUME NEW S, IsFiniteSet(S), NEW A, IsFiniteSet(A), NEW B, IsFiniteSet(B),
           S \cap A = {}, S \cap B = {}, Cardinality(A) = Cardinality(B)
    PROVE  Cardinality(S \cup A) = Cardinality(S \cup B)
<1>1. Cardinality(S \cup A) = Cardinality(S) + Cardinality(A) - Cardinality(S \cap A)
  BY FS_Union
<1>2. Cardinality(S \cup B) = Cardinality(S) + Cardinality(B) - Cardinality(S \cap B)
  BY FS_Union
<1> QED
  BY <1>1, <1>2

\* The pages that arrived are different pages.
Distinct(x) ==
    /\ x.products = [i \in DOMAIN x.products |-> x.products[i]]
    /\ \E n \in Nat : DOMAIN x.products = 1..n
    /\ \A i, j \in DOMAIN x.products : x.products[i].url = x.products[j].url => i = j

LEMMA ContextDistinct ==
    ASSUME CInv, NEW c \in Crawls
    PROVE  Distinct(Context(c))
<1> DEFINE x == Context(c)
<1>1. /\ seen[c].products \in Seq(OfKind(c, "product"))
      /\ \A i, j \in DOMAIN seen[c].products : seen[c].products[i] = seen[c].products[j] => i = j
  BY DEF CInv, Known
<1>2. x.products = [i \in DOMAIN seen[c].products |-> Of(c).pages[seen[c].products[i]]]
  BY DEF Context
<1>3. \A u \in OfKind(c, "product") : Of(c).pages[u].url = u
  BY SeenUrls DEF OfKind
<1>4. \A i \in DOMAIN seen[c].products : x.products[i].url = seen[c].products[i]
  BY <1>1, <1>2, <1>3
<1>5. \E n \in Nat : DOMAIN x.products = 1..n
  BY <1>1, <1>2
<1>6. /\ x.products = [i \in DOMAIN x.products |-> x.products[i]]
      /\ DOMAIN x.products = DOMAIN seen[c].products
  BY <1>2
<1> HIDE DEF x
<1>7. \A i, j \in DOMAIN x.products : x.products[i].url = x.products[j].url => i = j
  BY <1>1, <1>4, <1>6
<1> QED
  BY <1>5, <1>6, <1>7 DEF Distinct, x

LEMMA OrderedSame ==
    ASSUME NEW x, NEW y, Alike(x, y), Finite(x), Finite(y), Distinct(x), Distinct(y),
           NEW base \in Baselines(x), NEW other \in Baselines(y), NEW s
    PROVE  /\ IsFiniteSet(Ordered(x, base, s)) /\ IsFiniteSet(Ordered(y, other, s))
           /\ Cardinality(Ordered(x, base, s)) = Cardinality(Ordered(y, other, s))
<1>1. \A p, q \in Products(x) : p.url = q.url => p = q
  BY DEF Distinct, Products, ToSet
<1>2. CASE s = "error"
  <2>1. Baselines(y) = Baselines(x) /\ CurrencyRows(y, other) = CurrencyRows(x, other)
    BY AlikeResults DEF CurrencyRows
  <2>2. /\ IsFiniteSet(CurrencyRows(x, base)) /\ IsFiniteSet(CurrencyRows(x, other))
    BY <1>1, <2>1, CurrencyCount
  <2>3. Cardinality(CurrencyRows(x, base)) = Cardinality(CurrencyRows(x, other))
    BY <1>1, <2>1, CurrencySame
  <2> QED
    BY <1>2, <2>1, <2>2, <2>3 DEF Ordered
<1>3. CASE s = "warning"
  <2>1. /\ x.products \in Seq(Products(x)) /\ y.products \in Seq(Products(y))
    BY DEF Distinct, Products, ToSet
  <2>2. IsFiniteSet(SharedRows(x)) /\ Cardinality(SharedRows(x)) = Cardinality(Texts(x))
    BY <2>1, SharedCount DEF Distinct
  <2>3. IsFiniteSet(SharedRows(y)) /\ Cardinality(SharedRows(y)) = Cardinality(Texts(y))
    BY <2>1, SharedCount DEF Distinct
  <2>4. Texts(x) = Texts(y)
    BY AlikeResults
  <2> QED
    BY <1>3, <2>2, <2>3, <2>4 DEF Ordered
<1>4. CASE s \notin {"error", "warning"}
  BY <1>4, FS_EmptySet DEF Ordered
<1> QED
  BY <1>2, <1>3, <1>4

LEMMA AlikeCounts ==
    ASSUME NEW x, NEW y, Alike(x, y), Finite(x), Finite(y), Distinct(x), Distinct(y),
           NEW base \in Baselines(x), NEW other \in Baselines(y)
    PROVE  Counts(Results(x, base)) = Counts(Results(y, other))
<1>1. ASSUME NEW s \in {"critical", "error", "warning", "info"}
      PROVE  Cardinality(Rows(Under(Results(x, base), s))) = Cardinality(Rows(Under(Results(y, other), s)))
  <2>1. Decided(y, s) = Decided(x, s)
    BY AlikeResults DEF Decided, PoorRows
  <2>2. /\ Rows(Under(Results(x, base), s)) = Decided(x, s) \cup Ordered(x, base, s)
        /\ Rows(Under(Results(y, other), s)) = Decided(x, s) \cup Ordered(y, other, s)
    BY <2>1, RowsSplit
  <2>3. Decided(x, s) \cap Ordered(x, base, s) = {} /\ Decided(x, s) \cap Ordered(y, other, s) = {}
    BY <2>1, Apart
  <2>4. IsFiniteSet(Decided(x, s))
    BY DecidedFinite
  <2> QED
    BY <2>2, <2>3, <2>4, OrderedSame, Grown
<1> QED
  BY <1>1 DEF Counts

\* Reports of audits that saw the same say the same.
LEMMA SameWhileIInv ==
    ASSUME IInv
    PROVE  SameSightSameScore
<1> SUFFICES ASSUME NEW c \in Reports, NEW d \in Reports, SameSight(c, d)
             PROVE  report[c].score = report[d].score /\ report[c].counts = report[d].counts
  BY DEF SameSightSameScore
<1> DEFINE x == Context(c)
           y == Context(d)
<1>1. /\ c \in Crawls /\ stage[c] = "saved" /\ Content(c)
      /\ d \in Crawls /\ stage[d] = "saved" /\ Content(d)
  BY DEF Reports, IInv, RInv
<1>2. PICK base \in Baselines(x) : Written(c, base)
  BY <1>1 DEF Content
<1>3. PICK other \in Baselines(y) : Written(d, other)
  BY <1>1 DEF Content
<1>4. Alike(x, y)
  BY <1>1, SameSightAlike DEF IInv
<1>5. Finite(x) /\ Finite(y) /\ Distinct(x) /\ Distinct(y)
  BY <1>1, ContextFinite, ContextDistinct DEF IInv
<1> HIDE DEF x, y
<1>6. Counts(Results(x, base)) = Counts(Results(y, other))
  BY <1>4, <1>5, AlikeCounts
<1>7. Score(Results(x, base)) = Score(Results(y, other))
  BY <1>6 DEF Score
<1> QED
  BY <1>2, <1>3, <1>6, <1>7 DEF Written, x, y

\* Audits that saw the same of a store have the same score and counts, in whatever
\* order the pages arrived and whatever currency the map gave first (runScore).
THEOREM SameSightSameScoreAlways == Spec => []SameSightSameScore
BY AlwaysIInv, SameWhileIInv, PTL
=============================================================================
