-------------------------- MODULE BrowserCrawlProofs --------------------------
(***************************************************************************)
(* Theorems about BrowserCrawl: whatever the pages hold and wherever their *)
(* links point, the crawl visits exactly what can be reached within its    *)
(* limits, at the least depth, and records every URL it saw once.          *)
(***************************************************************************)
EXTENDS BrowserCrawl, SequenceTheorems, FiniteSetTheorems, TLAPS

Current == Canonical(page)

\* u waits in the queue at most at depth n.
WaitsAt(u, n) ==
  \E i \in 1 .. Len(queue) : Canonical(queue[i].url) = u /\ queue[i].depth <= n

\* u was visited, or will be, at most at depth n + 1.
Accounted(u, n) ==
  \/ u \in pages /\ depthOf[u] <= n + 1
  \/ WaitsAt(u, n + 1)
  \/ u \in Found(toRecord) /\ depth <= n

IsAsset(u) == \E i \in 1 .. Len(assets) : assets[i] = u

\* The queue holds the rest of this depth and then pages of the next one.
QueueOrdered ==
  /\ \A i \in 1 .. Len(queue) : depth <= queue[i].depth /\ queue[i].depth <= depth + 1
  /\ \A i, j \in 1 .. Len(queue) : i <= j => queue[i].depth <= queue[j].depth
  /\ \A p \in pages : depthOf[p] <= depth

\* What is at work belongs to the current page; all scripts of the others were tried.
WorkOfCurrent ==
  /\ toRecord # <<>> \/ toRun # <<>> =>
       stop = "no" /\ Current \in DOMAIN pageDoc /\ depthOf[Current] = depth
  /\ Found(toRecord) \subseteq Links(Current)
  /\ \A s \in Found(toRun) : IsScript(s) => s \in ScriptsOf(Current)
  /\ \A s \in DOMAIN scriptDoc : \E p \in DOMAIN pageDoc : s \in ScriptsOf(p)
  /\ \A p \in DOMAIN pageDoc : \A s \in ScriptsOf(p) :
       s \in scripts \/ (p = Current /\ s \in Found(toRun))

PagesSound ==
  /\ \A p \in pages : Reached(p, depthOf[p])
  /\ \A i \in 1 .. Len(queue) : Reached(Canonical(queue[i].url), queue[i].depth)

PagesComplete ==
  stop # "limit" =>
    /\ Canonical(Base) \in pages \/ WaitsAt(Canonical(Base), 0)
    /\ \A p \in pages : \A u \in Links(p) :
         CrawlAsPage(u) /\ depthOf[p] < crawl.max_depth => Accounted(u, depthOf[p])

AssetsExact ==
  /\ \A i, j \in 1 .. Len(assets) : assets[i] = assets[j] => i = j
  /\ \A i \in 1 .. Len(assets) :
       assets[i].path \notin Destructive /\ \E p \in pages : assets[i] \in Links(p)
  /\ \A p \in pages : \A u \in Links(p) :
       u.path \notin Destructive => IsAsset(u) \/ u \in Found(toRecord)

Bounded ==
  /\ IsFiniteSet(pages) /\ Cardinality(pages) <= MaxPages
  /\ stop = "limit" => Cardinality(pages) = MaxPages
  /\ stop = "empty" => queue = <<>> /\ toRecord = <<>>

CrawlInv ==
  /\ CrawlTypeOK /\ Bounded /\ QueueOrdered /\ WorkOfCurrent
  /\ PagesSound /\ PagesComplete /\ AssetsExact

-----------------------------------------------------------------------------
(* Facts about URLs and what is found in a document.                        *)

UrlSeqs == Seq(Urls \cup {NoUrl})
Items == [url : Urls, depth : 0 .. crawl.max_depth]

LEMMA CanonicalFacts ==
  ASSUME NEW u \in Urls
  PROVE  /\ Canonical(u) \in Urls /\ Canonical(Canonical(u)) = Canonical(u)
         /\ Canonical(u).origin = u.origin /\ Canonical(u).path = u.path
         /\ CrawlAsPage(Canonical(u)) <=> CrawlAsPage(u)
         /\ IsScript(Canonical(u)) <=> IsScript(u)
PROOF
  BY DEF Canonical, Urls, CrawlAsPage, IsScript

\* Only the origin of a page or a script is used to resolve what it holds.
LEMMA ResolveFacts ==
  ASSUME NEW u \in Urls, NEW c \in Seq(CandidateTexts)
  PROVE  Resolve(u, c) \in UrlSeqs /\ Resolve(Canonical(u), c) = Resolve(u, c)
PROOF
  <1>1. ASSUME NEW t \in CandidateTexts
        PROVE  /\ Normalize(u, t) \in Urls \cup {NoUrl}
               /\ Normalize(Canonical(u), t) = Normalize(u, t)
    <2>1. /\ t.form \in {"ignored", "route", "relative", "absolute"} /\ t.url \in Urls
          /\ u.origin \in Origins /\ Canonical(u).origin = u.origin
      BY <1>1, CanonicalFacts DEF CandidateTexts, Urls
    <2>2. /\ [t.url EXCEPT !.origin = u.origin] \in Urls
          /\ [t.url EXCEPT !.origin = u.origin, !.query = FALSE, !.fragment = FALSE] \in Urls
      BY <2>1 DEF Urls
    <2> QED
      BY <2>1, <2>2 DEF Normalize
  <1>2. Len(c) \in Nat /\ DOMAIN c = 1 .. Len(c) /\ \A i \in 1 .. Len(c) : c[i] \in CandidateTexts
    BY LenProperties, ElementOfSeq
  <1>3. Resolve(u, c) \in [1 .. Len(c) -> Urls \cup {NoUrl}]
    BY <1>1, <1>2 DEF Resolve
  <1>4. Resolve(u, c) \in UrlSeqs
    BY <1>2, <1>3, SeqDef DEF UrlSeqs
  <1>5. Resolve(Canonical(u), c) = Resolve(u, c)
    BY <1>1, <1>2 DEF Resolve
  <1> QED
    BY <1>4, <1>5

LEMMA PageUrlsFacts ==
  ASSUME NEW u \in Urls, NEW doc \in Documents, NEW rendered \in BOOLEAN
  PROVE  /\ doc.links \in Seq(CandidateTexts)
         /\ PageUrls(u, doc, rendered) \in UrlSeqs
         /\ PageUrls(Canonical(u), doc, rendered) = PageUrls(u, doc, rendered)
PROOF
  <1> DEFINE forms == [i \in DOMAIN doc.forms |-> FormCandidate(doc.forms[i])]
  <1>1. /\ doc.links \in Seq(CandidateTexts) /\ doc.strings \in Seq(CandidateTexts)
        /\ doc.forms \in Seq([action : CandidateTexts, csrf : BOOLEAN]) /\ doc.network \in Seq(Urls)
    BY CrawlAssumption
  <1>2. forms \in Seq(CandidateTexts)
    <2>1. /\ Len(doc.forms) \in Nat /\ DOMAIN doc.forms = 1 .. Len(doc.forms)
          /\ \A i \in 1 .. Len(doc.forms) :
               doc.forms[i] \in [action : CandidateTexts, csrf : BOOLEAN]
      BY <1>1, LenProperties, ElementOfSeq
    <2>2. ASSUME NEW f \in [action : CandidateTexts, csrf : BOOLEAN]
          PROVE  FormCandidate(f) \in CandidateTexts
      BY DEF FormCandidate, CandidateTexts, Urls
    <2>3. forms \in [1 .. Len(doc.forms) -> CandidateTexts]
      BY <2>1, <2>2
    <2> QED
      BY <2>1, <2>3, SeqDef
  <1> HIDE DEF forms
  <1>3. Candidates(doc) \in Seq(CandidateTexts)
    <2>1. Candidates(doc) = doc.links \o doc.strings \o forms
      BY DEF Candidates, forms
    <2>2. doc.links \o doc.strings \in Seq(CandidateTexts)
      BY <1>1, ConcatProperties
    <2> QED
      BY <1>2, <2>1, <2>2, ConcatProperties
  <1>4. Resolve(u, Candidates(doc)) \in UrlSeqs
        /\ Resolve(Canonical(u), Candidates(doc)) = Resolve(u, Candidates(doc))
    BY <1>3, ResolveFacts
  <1>5. NetworkUrls(doc, rendered) \in UrlSeqs
    <2>1. <<>> \in UrlSeqs
      BY EmptySeq DEF UrlSeqs
    <2>2. doc.network \in UrlSeqs
      <3>1. /\ Len(doc.network) \in Nat
            /\ doc.network \in [1 .. Len(doc.network) -> Urls]
        BY <1>1, LenProperties, SeqDef
      <3>2. doc.network \in [1 .. Len(doc.network) -> Urls \cup {NoUrl}]
        BY <3>1
      <3> QED
        BY <3>1, <3>2, SeqDef DEF UrlSeqs
    <2> QED
      BY <2>1, <2>2 DEF NetworkUrls
  <1> QED
    BY <1>1, <1>4, <1>5, ConcatProperties DEF PageUrls, UrlSeqs

\* What is found in a list of URLs, and in its rest.
LEMMA FoundFacts ==
  ASSUME NEW s \in UrlSeqs
  PROVE  /\ Found(s) \subseteq Urls
         /\ s = <<>> => Found(s) = {}
         /\ s # <<>> =>
              /\ Head(s) \in Urls \cup {NoUrl} /\ Tail(s) \in UrlSeqs
              /\ SameOrigin(Head(s)) => Head(s) \in Urls
              /\ Found(s) = Found(Tail(s)) \cup
                   (IF SameOrigin(Head(s)) THEN {Canonical(Head(s))} ELSE {})
PROOF
  <1>1. /\ Len(s) \in Nat /\ DOMAIN s = 1 .. Len(s)
        /\ \A i \in 1 .. Len(s) : s[i] \in Urls \cup {NoUrl}
    BY LenProperties, ElementOfSeq DEF UrlSeqs
  <1>2. ASSUME NEW t \in UrlSeqs, NEW u
        PROVE  u \in Found(t) <=> \E i \in 1 .. Len(t) : SameOrigin(t[i]) /\ u = Canonical(t[i])
    <2>1. DOMAIN t = 1 .. Len(t)
      BY LenProperties DEF UrlSeqs
    <2> QED
      BY <2>1 DEF Found, Range
  <1>3. Found(s) \subseteq Urls
    BY <1>1, <1>2, CanonicalFacts DEF SameOrigin
  <1>4. ASSUME s = <<>> PROVE Found(s) = {}
    <2>1. Len(s) = 0
      BY <1>4
    <2> QED
      BY <1>2, <2>1
  <1>5. ASSUME s # <<>>
        PROVE  /\ Head(s) \in Urls \cup {NoUrl} /\ Tail(s) \in UrlSeqs
               /\ SameOrigin(Head(s)) => Head(s) \in Urls
               /\ Found(s) = Found(Tail(s)) \cup
                    (IF SameOrigin(Head(s)) THEN {Canonical(Head(s))} ELSE {})
    <2>1. Len(s) \in Nat \ {0} /\ Tail(s) \in UrlSeqs
      BY <1>1, <1>5, EmptySeq, HeadTailProperties DEF UrlSeqs
    <2>2. /\ Head(s) = s[1] /\ Len(Tail(s)) = Len(s) - 1
          /\ \A i \in 1 .. Len(Tail(s)) : Tail(s)[i] = s[i + 1]
      BY <1>5, HeadTailProperties DEF UrlSeqs
    <2>3. Head(s) \in Urls \cup {NoUrl} /\ (SameOrigin(Head(s)) => Head(s) \in Urls)
      BY <1>1, <2>1, <2>2 DEF SameOrigin
    <2>4. ASSUME NEW u
          PROVE  u \in Found(s) <=> u \in Found(Tail(s)) \/ (SameOrigin(Head(s)) /\ u = Canonical(Head(s)))
      <3>1. ASSUME u \in Found(s)
            PROVE  u \in Found(Tail(s)) \/ (SameOrigin(Head(s)) /\ u = Canonical(Head(s)))
        <4>1. PICK i \in 1 .. Len(s) : SameOrigin(s[i]) /\ u = Canonical(s[i])
          BY <1>2, <3>1
        <4>2. CASE i = 1
          BY <2>2, <4>1, <4>2
        <4>3. CASE i # 1
          <5>1. i - 1 \in 1 .. Len(Tail(s)) /\ i - 1 + 1 = i
            BY <1>1, <2>2, <4>3
          <5>2. Tail(s)[i - 1] = s[i]
            BY <2>2, <5>1
          <5> QED
            BY <1>2, <2>1, <4>1, <5>1, <5>2
        <4> QED
          BY <4>2, <4>3
      <3>2. ASSUME u \in Found(Tail(s)) PROVE u \in Found(s)
        <4>1. PICK i \in 1 .. Len(Tail(s)) : SameOrigin(Tail(s)[i]) /\ u = Canonical(Tail(s)[i])
          BY <1>2, <2>1, <3>2
        <4>2. i + 1 \in 1 .. Len(s) /\ Tail(s)[i] = s[i + 1]
          BY <1>1, <2>2
        <4> QED
          BY <1>2, <4>1, <4>2
      <3>3. ASSUME SameOrigin(Head(s)), u = Canonical(Head(s)) PROVE u \in Found(s)
        <4>1. 1 \in 1 .. Len(s) /\ SameOrigin(s[1]) /\ u = Canonical(s[1])
          BY <2>1, <2>2, <3>3
        <4> QED
          BY <1>2, <4>1
      <3> QED
        BY <3>1, <3>2, <3>3
    <2> QED
      BY <2>1, <2>3, <2>4
  <1> QED
    BY <1>3, <1>4, <1>5

-----------------------------------------------------------------------------
(* The queue and the links from one state to the next.                      *)

LEMMA TypeFacts ==
  ASSUME CrawlTypeOK
  PROVE  /\ queue \in Seq(Items) /\ Len(queue) \in Nat
         /\ \A i \in 1 .. Len(queue) : queue[i] \in Items
         /\ crawl.max_depth \in Nat /\ crawl.max_pages \in Nat /\ depth \in Nat
         /\ toRecord \in UrlSeqs /\ toRun \in UrlSeqs
         /\ Current \in Urls
PROOF
  <1>1. crawl.max_depth \in Nat /\ crawl.max_pages \in Nat /\ depth \in Nat
    BY CrawlAssumption DEF CrawlTypeOK
  <1>2. queue \in Seq(Items)
    BY DEF CrawlTypeOK, Items
  <1> QED
    BY <1>1, <1>2, LenProperties, ElementOfSeq, CanonicalFacts DEF CrawlTypeOK, UrlSeqs, Current

\* The page at the head waits no more.
LEMMA PopFacts ==
  ASSUME CrawlTypeOK, queue # <<>>, queue' = Tail(queue), crawl' = crawl
  PROVE  /\ Head(queue) \in Items /\ Head(queue) = queue[1] /\ 1 \in 1 .. Len(queue)
         /\ Canonical(Head(queue).url) \in Urls
         /\ queue' \in Seq(Items)
         /\ \A i \in 1 .. Len(queue') : i + 1 \in 1 .. Len(queue) /\ queue'[i] = queue[i + 1]
         /\ \A u : \A n \in Nat : WaitsAt(u, n) =>
              \/ WaitsAt(u, n)'
              \/ u = Canonical(Head(queue).url) /\ Head(queue).depth <= n
PROOF
  <1>1. queue \in Seq(Items) /\ Len(queue) \in Nat \ {0}
    BY TypeFacts, EmptySeq
  <1>2. /\ Tail(queue) \in Seq(Items) /\ Head(queue) = queue[1]
        /\ Len(Tail(queue)) = Len(queue) - 1
        /\ \A i \in 1 .. Len(Tail(queue)) : Tail(queue)[i] = queue[i + 1]
    BY <1>1, HeadTailProperties
  <1>3. 1 \in 1 .. Len(queue) /\ Head(queue) \in Items
    BY <1>1, <1>2, ElementOfSeq
  <1>4. \A i \in 1 .. Len(queue') : i + 1 \in 1 .. Len(queue) /\ queue'[i] = queue[i + 1]
    BY <1>1, <1>2
  <1>5. ASSUME NEW u, NEW n \in Nat, WaitsAt(u, n)
        PROVE  WaitsAt(u, n)' \/ (u = Canonical(Head(queue).url) /\ Head(queue).depth <= n)
    <2>1. PICK i \in 1 .. Len(queue) : Canonical(queue[i].url) = u /\ queue[i].depth <= n
      BY <1>5 DEF WaitsAt
    <2>2. CASE i = 1
      BY <1>2, <2>1, <2>2
    <2>3. CASE i # 1
      <3>1. i - 1 \in 1 .. Len(queue') /\ i - 1 + 1 = i
        BY <1>1, <1>2, <2>3
      <3>2. queue'[i - 1] = queue[i]
        BY <1>4, <3>1
      <3> QED
        BY <2>1, <3>1, <3>2 DEF WaitsAt
    <2> QED
      BY <2>2, <2>3
  <1>6. Canonical(Head(queue).url) \in Urls
    BY <1>3, CanonicalFacts DEF Items
  <1> QED
    BY <1>1, <1>2, <1>3, <1>4, <1>5, <1>6

\* A page is added to the queue.
LEMMA PushFacts ==
  ASSUME CrawlTypeOK, NEW item \in Items, queue' = Append(queue, item), crawl' = crawl
  PROVE  /\ queue' \in Seq(Items) /\ Len(queue') = Len(queue) + 1
         /\ queue'[Len(queue) + 1] = item
         /\ \A i \in 1 .. Len(queue) : queue'[i] = queue[i]
         /\ \A i \in 1 .. Len(queue') : i \in 1 .. Len(queue) \/ i = Len(queue) + 1
         /\ \A u : \A n \in Nat : WaitsAt(u, n) => WaitsAt(u, n)'
PROOF
  <1>1. queue \in Seq(Items) /\ Len(queue) \in Nat
    BY TypeFacts
  <1>2. /\ queue' \in Seq(Items) /\ Len(queue') = Len(queue) + 1
        /\ queue'[Len(queue) + 1] = item
        /\ \A i \in 1 .. Len(queue) : queue'[i] = queue[i]
    BY <1>1, AppendProperties
  <1>3. \A u : \A n \in Nat : WaitsAt(u, n) => WaitsAt(u, n)'
    BY <1>1, <1>2 DEF WaitsAt
  <1> QED
    BY <1>1, <1>2, <1>3

\* What may be visited stays so, as long as no page is lost.
LEMMA ReachedKept ==
  ASSUME pages \subseteq pages', \A p \in pages : depthOf'[p] = depthOf[p],
         \A p \in pages : Links(p) \subseteq Links(p)', NEW u, NEW n, Reached(u, n)
  PROVE  Reached(u, n)'
PROOF
  BY DEF Reached

LEMMA SameLinks ==
  ASSUME UNCHANGED <<pageDoc, scriptDoc>>
  PROVE  \A p : Links(p)' = Links(p) /\ ScriptsOf(p)' = ScriptsOf(p)
PROOF
  BY DEF Links, ScriptsOf

-----------------------------------------------------------------------------
(* The steps.                                                               *)

LEMMA StopKeeps ==
  ASSUME CrawlInv, Exhaust \/ StopAtLimit
  PROVE  CrawlInv'
PROOF
  <1>1. /\ Crawling
        /\ UNCHANGED <<crawl, pages, scripts, assets, page, depth, toRecord, toRun, looked>>
        /\ \/ queue = <<>> /\ stop' = "empty" /\ queue' = queue
           \/ /\ queue # <<>> /\ Cardinality(pages) >= MaxPages
              /\ stop' = "limit" /\ queue' = Tail(queue)
    BY DEF Exhaust, StopAtLimit
  <1>2. toRecord = <<>> /\ toRun = <<>> /\ stop = "no"
    BY <1>1 DEF Crawling
  <1>3. UNCHANGED <<depthOf, pageDoc, scriptDoc>> /\ \A p : Links(p)' = Links(p) /\ ScriptsOf(p)' = ScriptsOf(p)
    BY <1>1, SameLinks DEF looked
  <1>4. WorkOfCurrent' /\ AssetsExact'
    BY <1>1, <1>2, <1>3 DEF CrawlInv, WorkOfCurrent, AssetsExact, IsAsset, Current
  <1>5. CASE queue = <<>> /\ stop' = "empty" /\ queue' = queue
    <2>1. CrawlTypeOK' /\ Bounded'
      BY <1>1, <1>2, <1>3, <1>5 DEF CrawlInv, CrawlTypeOK, Bounded, MaxPages
    <2>2. QueueOrdered' /\ PagesSound' /\ PagesComplete'
      BY <1>1, <1>2, <1>3, <1>5
         DEF CrawlInv, QueueOrdered, PagesSound, PagesComplete, Reached, Accounted, WaitsAt
    <2> QED
      BY <1>4, <2>1, <2>2 DEF CrawlInv
  <1>6. CASE /\ queue # <<>> /\ Cardinality(pages) >= MaxPages
             /\ stop' = "limit" /\ queue' = Tail(queue)
    <2>1. /\ queue' \in Seq(Items)
          /\ \A i \in 1 .. Len(queue') : i + 1 \in 1 .. Len(queue) /\ queue'[i] = queue[i + 1]
      BY <1>1, <1>6, PopFacts DEF CrawlInv
    <2>2. CrawlTypeOK'
      BY <1>1, <1>3, <1>6, <2>1 DEF CrawlInv, CrawlTypeOK, Items
    <2>3. Bounded'
      <3>1. Cardinality(pages) \in Nat /\ MaxPages \in Nat
        BY FS_CardinalityType, TypeFacts DEF CrawlInv, Bounded, MaxPages
      <3>2. Cardinality(pages) = MaxPages
        BY <1>6, <3>1 DEF CrawlInv, Bounded
      <3> QED
        BY <1>1, <1>6, <3>1, <3>2 DEF CrawlInv, Bounded, MaxPages
    <2>4. QueueOrdered'
      <3>1. \A i, j \in 1 .. Len(queue') : i <= j => queue'[i].depth <= queue'[j].depth
        <4> TAKE i, j \in 1 .. Len(queue')
        <4>1. i <= j => i + 1 <= j + 1
          BY <2>1, TypeFacts DEF CrawlInv
        <4> QED
          BY <2>1, <4>1 DEF CrawlInv, QueueOrdered
      <3> QED
        BY <1>1, <1>3, <2>1, <3>1 DEF CrawlInv, QueueOrdered
    <2>5. PagesSound'
      BY <1>1, <1>3, <2>1 DEF CrawlInv, PagesSound, Reached
    <2>6. PagesComplete'
      BY <1>6 DEF PagesComplete
    <2> QED
      BY <1>4, <2>2, <2>3, <2>4, <2>5, <2>6 DEF CrawlInv
  <1> QED
    BY <1>1, <1>5, <1>6

\* What holds when a page was taken from the queue: it can be reached at its depth,
\* no page was visited deeper, and only itself does not wait any more.
LEMMA PopPageFacts ==
  ASSUME CrawlInv, NEW isNew \in BOOLEAN, PopPage(isNew)
  PROVE  LET head == Head(queue)
             top == Canonical(head.url)
         IN  /\ stop = "no" /\ toRecord = <<>> /\ toRun = <<>>
             /\ Found(toRecord) = {} /\ Found(toRun) = {}
             /\ isNew <=> top \notin pages
             /\ page' = head.url /\ page' \in Urls /\ Current' = top /\ top \in Urls
             /\ depth' = head.depth /\ depth' \in 0 .. crawl.max_depth /\ depth' \in Nat
             /\ queue' \in Seq(Items)
             /\ \A i \in 1 .. Len(queue') : depth' <= queue'[i].depth /\ queue'[i].depth <= depth' + 1
             /\ \A i, j \in 1 .. Len(queue') : i <= j => queue'[i].depth <= queue'[j].depth
             /\ \A p \in pages : depthOf[p] \in Nat /\ depthOf[p] <= depth'
             /\ Reached(top, depth')
             /\ \A i \in 1 .. Len(queue') : Reached(Canonical(queue'[i].url), queue'[i].depth)
             /\ \A u : \A n \in Nat : Accounted(u, n) =>
                  \/ u \in pages /\ depthOf[u] <= n + 1
                  \/ WaitsAt(u, n + 1)'
                  \/ u = top /\ depth' <= n + 1
             /\ \/ Canonical(Base) \in pages
                \/ WaitsAt(Canonical(Base), 0)'
                \/ Canonical(Base) = top
PROOF
  <1> DEFINE head == Head(queue)
             top == Canonical(head.url)
  <1>1. /\ stop = "no" /\ toRecord = <<>> /\ toRun = <<>> /\ queue # <<>>
        /\ isNew <=> top \notin pages
        /\ page' = head.url /\ depth' = head.depth /\ queue' = Tail(queue) /\ crawl' = crawl
    BY DEF PopPage, Crawling
  <1>2. Found(toRecord) = {} /\ Found(toRun) = {}
    BY <1>1, FoundFacts, TypeFacts DEF CrawlInv
  <1>3. /\ head \in Items /\ head = queue[1] /\ 1 \in 1 .. Len(queue) /\ top \in Urls
        /\ queue' \in Seq(Items)
        /\ \A i \in 1 .. Len(queue') : i + 1 \in 1 .. Len(queue) /\ queue'[i] = queue[i + 1]
    BY <1>1, PopFacts DEF CrawlInv
  <1>4. \A u : \A n \in Nat : WaitsAt(u, n) =>
          WaitsAt(u, n)' \/ (u = top /\ head.depth <= n)
    BY <1>1, PopFacts DEF CrawlInv
  <1>5. Current' = top
    BY <1>1 DEF Current
  <1> HIDE DEF head
  <1>6. /\ head.url \in Urls /\ head.depth \in 0 .. crawl.max_depth /\ head.depth \in Nat
        /\ depth \in Nat /\ Len(queue) \in Nat /\ Len(queue') \in Nat
        /\ \A i \in 1 .. Len(queue) : queue[i].depth \in Nat
    BY <1>3, TypeFacts, LenProperties DEF CrawlInv, Items
  <1>7. \A i \in 1 .. Len(queue') : depth' <= queue'[i].depth /\ queue'[i].depth <= depth' + 1
    <2> TAKE i \in 1 .. Len(queue')
    <2>1. queue'[i] = queue[i + 1] /\ i + 1 \in 1 .. Len(queue) /\ 1 <= i + 1
      BY <1>3, <1>6
    <2>2. queue[1].depth <= queue[i + 1].depth /\ depth <= queue[1].depth
          /\ queue[i + 1].depth <= depth + 1
      BY <1>3, <2>1 DEF CrawlInv, QueueOrdered
    <2> QED
      BY <1>1, <1>3, <1>6, <2>1, <2>2
  <1>8. \A i, j \in 1 .. Len(queue') : i <= j => queue'[i].depth <= queue'[j].depth
    <2> TAKE i, j \in 1 .. Len(queue')
    <2>1. i <= j => i + 1 <= j + 1
      BY <1>6
    <2> QED
      BY <1>3, <2>1 DEF CrawlInv, QueueOrdered
  <1>9. \A p \in pages : depthOf[p] \in Nat /\ depthOf[p] <= depth'
    <2>1. \A p \in pages : depthOf[p] \in Nat /\ depthOf[p] <= depth
      BY TypeFacts DEF CrawlInv, CrawlTypeOK, QueueOrdered
    <2>2. depth <= head.depth
      BY <1>3 DEF CrawlInv, QueueOrdered
    <2> QED
      BY <1>1, <1>6, <2>1, <2>2
  <1>10. Reached(top, depth')
         /\ \A i \in 1 .. Len(queue') : Reached(Canonical(queue'[i].url), queue'[i].depth)
    BY <1>1, <1>3 DEF CrawlInv, PagesSound
  <1>11. ASSUME NEW u, NEW n \in Nat, Accounted(u, n)
         PROVE  \/ u \in pages /\ depthOf[u] <= n + 1
                \/ WaitsAt(u, n + 1)'
                \/ u = top /\ depth' <= n + 1
    <2>1. (u \in pages /\ depthOf[u] <= n + 1) \/ WaitsAt(u, n + 1)
      BY <1>2, <1>11 DEF Accounted
    <2>2. n + 1 \in Nat
      OBVIOUS
    <2> QED
      BY <1>1, <1>4, <2>1, <2>2
  <1>12. \/ Canonical(Base) \in pages
         \/ WaitsAt(Canonical(Base), 0)'
         \/ Canonical(Base) = top
    <2>1. 0 \in Nat
      OBVIOUS
    <2> QED
      BY <1>1, <1>4, <2>1 DEF CrawlInv, PagesComplete
  <1> QED
    BY <1>1, <1>2, <1>3, <1>5, <1>6, <1>7, <1>8, <1>9, <1>10, <1>11, <1>12 DEF head

LEMMA SkipPageKeeps ==
  ASSUME CrawlInv, SkipPage
  PROVE  CrawlInv'
PROOF
  <1> DEFINE top == Canonical(Head(queue).url)
  <1>1. /\ PopPage(FALSE) /\ FALSE \in BOOLEAN
        /\ UNCHANGED <<crawl, stop, pages, scripts, assets, toRecord, toRun, depthOf, pageDoc, scriptDoc>>
    BY DEF SkipPage, PopPage
  <1>2. /\ stop = "no" /\ toRecord = <<>> /\ toRun = <<>>
        /\ Found(toRecord) = {} /\ Found(toRun) = {} /\ top \in pages
        /\ page' \in Urls /\ depth' \in 0 .. crawl.max_depth /\ depth' \in Nat
        /\ queue' \in Seq(Items)
        /\ \A i \in 1 .. Len(queue') : depth' <= queue'[i].depth /\ queue'[i].depth <= depth' + 1
        /\ \A i, j \in 1 .. Len(queue') : i <= j => queue'[i].depth <= queue'[j].depth
        /\ \A p \in pages : depthOf[p] \in Nat /\ depthOf[p] <= depth'
        /\ \A i \in 1 .. Len(queue') : Reached(Canonical(queue'[i].url), queue'[i].depth)
    BY <1>1, PopPageFacts
  <1>3. /\ \A u : \A n \in Nat : Accounted(u, n) =>
             \/ u \in pages /\ depthOf[u] <= n + 1
             \/ WaitsAt(u, n + 1)'
             \/ u = top /\ depth' <= n + 1
        /\ Canonical(Base) \in pages \/ WaitsAt(Canonical(Base), 0)'
    BY <1>1, <1>2, PopPageFacts
  <1> HIDE DEF top
  <1>4. \A p : Links(p)' = Links(p) /\ ScriptsOf(p)' = ScriptsOf(p)
    BY <1>1, SameLinks
  <1>5. CrawlTypeOK' /\ Bounded' /\ QueueOrdered'
    BY <1>1, <1>2 DEF CrawlInv, CrawlTypeOK, Bounded, MaxPages, QueueOrdered, Items
  <1>6. WorkOfCurrent'
    BY <1>1, <1>2, <1>4 DEF CrawlInv, WorkOfCurrent
  <1>7. PagesSound'
    BY <1>1, <1>2, <1>4 DEF CrawlInv, PagesSound, Reached
  <1>8. PagesComplete'
    <2>1. ASSUME NEW p \in pages, NEW u \in Links(p), NEW n \in Nat, n = depthOf[p],
                 CrawlAsPage(u), n < crawl.max_depth
          PROVE  Accounted(u, n)'
      <3>1. Accounted(u, n)
        BY <1>2, <2>1 DEF CrawlInv, PagesComplete
      <3>2. CASE u = top /\ depth' <= n + 1
        <4>1. depthOf[u] <= n + 1
          BY <1>2, <3>2
        <4> QED
          BY <1>1, <1>2, <3>2, <4>1 DEF Accounted
      <3> QED
        BY <1>1, <1>3, <3>1, <3>2 DEF Accounted
    <2>2. \A p \in pages : depthOf[p] \in Nat
      BY <1>2
    <2> QED
      BY <1>1, <1>3, <1>4, <2>1, <2>2 DEF PagesComplete
  <1>9. AssetsExact'
    BY <1>1, <1>4 DEF CrawlInv, AssetsExact, IsAsset
  <1> QED
    BY <1>5, <1>6, <1>7, <1>8, <1>9 DEF CrawlInv

\* A new page has its depth, and what was accounted for still is.
LEMMA EnterFacts ==
  ASSUME CrawlInv, EnterPage
  PROVE  LET top == Canonical(Head(queue).url)
         IN  /\ PopPage(TRUE) /\ TRUE \in BOOLEAN
             /\ top \notin pages /\ pages' = pages \cup {top} /\ Current' = top
             /\ depthOf'[top] = depth' /\ \A p \in pages : depthOf'[p] = depthOf[p]
             /\ depthOf' \in [pages' -> 0 .. crawl.max_depth]
             /\ UNCHANGED <<crawl, stop, scripts, assets, scriptDoc>>
             /\ Bounded' /\ QueueOrdered'
             /\ \A u : \A n \in Nat : Accounted(u, n) =>
                  (u \in pages' /\ depthOf'[u] <= n + 1) \/ WaitsAt(u, n + 1)'
             /\ Canonical(Base) \in pages' \/ WaitsAt(Canonical(Base), 0)'
PROOF
  <1> DEFINE top == Canonical(Head(queue).url)
  <1>1. /\ PopPage(TRUE) /\ TRUE \in BOOLEAN
        /\ pages' = pages \cup {Canonical(page')}
        /\ depthOf' = [p \in pages' |-> IF p = Canonical(page') THEN depth' ELSE depthOf[p]]
    BY DEF EnterPage
  <1>2. /\ stop = "no" /\ top \notin pages /\ page' = Head(queue).url /\ Current' = top
        /\ depth' \in 0 .. crawl.max_depth /\ depth' \in Nat
        /\ \A i \in 1 .. Len(queue') : depth' <= queue'[i].depth /\ queue'[i].depth <= depth' + 1
        /\ \A i, j \in 1 .. Len(queue') : i <= j => queue'[i].depth <= queue'[j].depth
        /\ \A p \in pages : depthOf[p] \in Nat /\ depthOf[p] <= depth'
    BY <1>1, PopPageFacts
  <1>3. /\ \A u : \A n \in Nat : Accounted(u, n) =>
             \/ u \in pages /\ depthOf[u] <= n + 1
             \/ WaitsAt(u, n + 1)'
             \/ u = top /\ depth' <= n + 1
        /\ \/ Canonical(Base) \in pages
           \/ WaitsAt(Canonical(Base), 0)'
           \/ Canonical(Base) = top
    BY <1>1, PopPageFacts
  <1>4. /\ UNCHANGED <<crawl, stop, scripts, assets, scriptDoc>>
        /\ Cardinality(pages) < MaxPages
    BY <1>1 DEF PopPage
  <1>5. Canonical(page') = top
    BY <1>2
  <1> HIDE DEF top
  <1>6. /\ pages' = pages \cup {top}
        /\ depthOf'[top] = depth' /\ \A p \in pages : depthOf'[p] = depthOf[p]
    BY <1>1, <1>2, <1>5
  <1>7. depthOf' \in [pages' -> 0 .. crawl.max_depth]
    BY <1>1, <1>2, <1>5 DEF CrawlInv, CrawlTypeOK
  <1>8. Bounded'
    <2>1. IsFiniteSet(pages') /\ Cardinality(pages') = Cardinality(pages) + 1
      BY <1>2, <1>6, FS_AddElement DEF CrawlInv, Bounded
    <2>2. Cardinality(pages) \in Nat /\ MaxPages \in Nat
      BY FS_CardinalityType, TypeFacts DEF CrawlInv, Bounded, MaxPages
    <2>3. MaxPages' = MaxPages
      BY <1>4 DEF MaxPages
    <2> QED
      BY <1>2, <1>4, <2>1, <2>2, <2>3 DEF Bounded
  <1>9. QueueOrdered'
    <2>1. \A p \in pages' : depthOf'[p] <= depth'
      BY <1>2, <1>6
    <2> QED
      BY <1>2, <2>1 DEF QueueOrdered
  <1>10. ASSUME NEW u, NEW n \in Nat, Accounted(u, n)
         PROVE  (u \in pages' /\ depthOf'[u] <= n + 1) \/ WaitsAt(u, n + 1)'
    BY <1>3, <1>6, <1>10
  <1>11. Canonical(Base) \in pages' \/ WaitsAt(Canonical(Base), 0)'
    BY <1>3, <1>6
  <1> QED
    BY <1>1, <1>2, <1>4, <1>6, <1>7, <1>8, <1>9, <1>10, <1>11 DEF top

LEMMA EnterSound ==
  ASSUME CrawlInv, EnterPage, \A p \in pages : Links(p) \subseteq Links(p)'
  PROVE  PagesSound'
PROOF
  <1> DEFINE top == Canonical(Head(queue).url)
  <1>1. /\ PopPage(TRUE) /\ TRUE \in BOOLEAN /\ pages' = pages \cup {top}
        /\ depthOf'[top] = depth' /\ \A p \in pages : depthOf'[p] = depthOf[p]
    BY EnterFacts
  <1>2. /\ Reached(top, depth')
        /\ \A i \in 1 .. Len(queue') : Reached(Canonical(queue'[i].url), queue'[i].depth)
    BY <1>1, PopPageFacts
  <1> HIDE DEF top
  <1>3. ASSUME NEW u, NEW n, Reached(u, n) PROVE Reached(u, n)'
    BY <1>1, <1>3, ReachedKept
  <1>4. (\A p \in pages : Reached(p, depthOf[p]))'
    <2> SUFFICES ASSUME NEW p \in pages' PROVE Reached(p, depthOf[p])'
      OBVIOUS
    <2>1. ASSUME NEW n, n = depthOf'[p], Reached(p, n)' PROVE Reached(p, depthOf[p])'
      BY <2>1 DEF Reached
    <2>2. Reached(p, depthOf'[p])
      BY <1>1, <1>2 DEF CrawlInv, PagesSound
    <2> QED
      BY <1>3, <2>1, <2>2
  <1>5. (\A i \in 1 .. Len(queue) : Reached(Canonical(queue[i].url), queue[i].depth))'
    <2> SUFFICES ASSUME NEW i \in 1 .. Len(queue')
                 PROVE  Reached(Canonical(queue[i].url), queue[i].depth)'
      OBVIOUS
    <2>1. ASSUME NEW u, NEW n, u = Canonical(queue'[i].url), n = queue'[i].depth, Reached(u, n)'
          PROVE  Reached(Canonical(queue[i].url), queue[i].depth)'
      BY <2>1 DEF Reached
    <2>2. Reached(Canonical(queue'[i].url), queue'[i].depth)
      BY <1>2
    <2> QED
      BY <1>3, <2>1, <2>2
  <1> QED
    BY <1>4, <1>5 DEF PagesSound

LEMMA FailPageKeeps ==
  ASSUME CrawlInv, FailPage
  PROVE  CrawlInv'
PROOF
  <1> DEFINE top == Canonical(Head(queue).url)
  <1>1. EnterPage /\ UNCHANGED <<toRecord, toRun, pageDoc>>
    BY DEF FailPage
  <1>2. /\ PopPage(TRUE) /\ TRUE \in BOOLEAN
        /\ top \notin pages /\ pages' = pages \cup {top} /\ Current' = top
        /\ depthOf'[top] = depth' /\ \A p \in pages : depthOf'[p] = depthOf[p]
        /\ depthOf' \in [pages' -> 0 .. crawl.max_depth]
        /\ UNCHANGED <<crawl, stop, scripts, assets, scriptDoc>>
        /\ Bounded' /\ QueueOrdered'
        /\ Canonical(Base) \in pages' \/ WaitsAt(Canonical(Base), 0)'
    BY <1>1, EnterFacts
  <1>3. /\ toRecord = <<>> /\ toRun = <<>> /\ Found(toRecord) = {} /\ Found(toRun) = {}
        /\ page' \in Urls /\ top \in Urls /\ depth' \in 0 .. crawl.max_depth /\ queue' \in Seq(Items)
        /\ \A p \in pages : depthOf[p] \in Nat
    BY <1>2, PopPageFacts
  <1>4. \A u : \A n \in Nat : Accounted(u, n) =>
             (u \in pages' /\ depthOf'[u] <= n + 1) \/ WaitsAt(u, n + 1)'
    BY <1>1, EnterFacts
  <1> HIDE DEF top
  <1>5. \A p : Links(p)' = Links(p) /\ ScriptsOf(p)' = ScriptsOf(p)
    BY <1>1, <1>2, SameLinks
  <1>6. Links(top) = {}
    BY <1>2 DEF Links, CrawlInv, CrawlTypeOK
  <1>7. CrawlTypeOK'
    BY <1>1, <1>2, <1>3 DEF CrawlInv, CrawlTypeOK, Items
  <1>8. WorkOfCurrent'
    BY <1>1, <1>2, <1>3, <1>5 DEF CrawlInv, WorkOfCurrent
  <1>9. PagesSound'
    BY <1>1, <1>5, EnterSound
  <1>10. PagesComplete'
    <2>1. ASSUME NEW p \in pages', NEW u \in Links(p), NEW n, n = depthOf'[p],
                 CrawlAsPage(u), n < crawl.max_depth
          PROVE  Accounted(u, n)'
      <3>1. p \in pages /\ n = depthOf[p] /\ n \in Nat
        BY <1>2, <1>3, <1>6, <2>1
      <3>2. stop # "limit"
        BY <1>2, PopPageFacts
      <3>3. Accounted(u, n)
        BY <2>1, <3>1, <3>2 DEF CrawlInv, PagesComplete
      <3> QED
        BY <1>4, <3>1, <3>3 DEF Accounted
    <2> QED
      BY <1>2, <1>5, <2>1 DEF PagesComplete
  <1>11. AssetsExact'
    BY <1>1, <1>2, <1>5, <1>6 DEF CrawlInv, AssetsExact, IsAsset
  <1> QED
    BY <1>2, <1>7, <1>8, <1>9, <1>10, <1>11 DEF CrawlInv

\* The links of a page that is visited: its own URLs, and those of its scripts that ran
\* for another page; the links of the others stay.
LEMMA VisitFacts ==
  ASSUME CrawlInv, NEW doc \in Documents, NEW rendered \in BOOLEAN, VisitPage(doc, rendered)
  PROVE  LET top == Canonical(Head(queue).url)
         IN  /\ toRecord' \in UrlSeqs /\ toRun' \in UrlSeqs
             /\ DOMAIN pageDoc' = DOMAIN pageDoc \cup {top}
             /\ pageDoc' \in [DOMAIN pageDoc' -> [doc : Documents, rendered : BOOLEAN]]
             /\ \A p \in pages : Links(p)' = Links(p)
             /\ \A p \in DOMAIN pageDoc : ScriptsOf(p)' = ScriptsOf(p)
             /\ ScriptsOf(Current)' = {s \in Found(toRun)' : IsScript(s)}
             /\ Found(toRecord)' \subseteq Links(Current)'
             /\ \A u \in Links(Current)' :
                  u \in Found(toRecord)' \/ \E p \in DOMAIN pageDoc : u \in Links(p)
PROOF
  <1> DEFINE top == Canonical(Head(queue).url)
  <1>1. /\ EnterPage
        /\ toRecord' = PageUrls(page', doc, rendered)
        /\ toRun' = Resolve(page', doc.links)
        /\ pageDoc' = [p \in DOMAIN pageDoc \cup {Canonical(page')} |->
                         IF p = Canonical(page') THEN [doc |-> doc, rendered |-> rendered]
                         ELSE pageDoc[p]]
    BY DEF VisitPage
  <1>2. /\ PopPage(TRUE) /\ TRUE \in BOOLEAN /\ top \notin pages /\ Current' = top /\ scriptDoc' = scriptDoc
    BY <1>1, EnterFacts
  <1>3. page' \in Urls /\ top \in Urls /\ Canonical(page') = top
    BY <1>2, PopPageFacts
  <1> HIDE DEF top
  <1>4. top \notin DOMAIN pageDoc
    BY <1>2 DEF CrawlInv, CrawlTypeOK
  <1>5. /\ toRecord' \in UrlSeqs /\ toRecord' = PageUrls(top, doc, rendered)
        /\ toRun' \in UrlSeqs /\ toRun' = Resolve(top, doc.links)
    BY <1>1, <1>3, PageUrlsFacts, ResolveFacts
  <1>6. /\ DOMAIN pageDoc' = DOMAIN pageDoc \cup {top}
        /\ pageDoc'[top] = [doc |-> doc, rendered |-> rendered]
        /\ \A p \in DOMAIN pageDoc : pageDoc'[p] = pageDoc[p]
    BY <1>1, <1>3, <1>4
  <1>7. pageDoc' \in [DOMAIN pageDoc' -> [doc : Documents, rendered : BOOLEAN]]
    <2>1. [doc |-> doc, rendered |-> rendered] \in [doc : Documents, rendered : BOOLEAN]
      OBVIOUS
    <2>2. pageDoc \in [DOMAIN pageDoc -> [doc : Documents, rendered : BOOLEAN]]
      BY DEF CrawlInv, CrawlTypeOK
    <2> QED
      BY <1>1, <1>3, <1>6, <2>1, <2>2
  <1>8. \A p \in DOMAIN pageDoc : ScriptsOf(p)' = ScriptsOf(p)
    BY <1>6 DEF ScriptsOf
  <1>9. \A p \in pages : Links(p)' = Links(p)
    <2> SUFFICES ASSUME NEW p \in pages PROVE Links(p)' = Links(p)
      OBVIOUS
    <2>1. p # top
      BY <1>2
    <2>2. p \in DOMAIN pageDoc' <=> p \in DOMAIN pageDoc
      BY <1>6, <2>1
    <2> QED
      BY <1>2, <1>6, <1>8, <2>2 DEF Links
  <1>10. ASSUME NEW t, t = top
         PROVE  /\ ScriptsOf(t)' = {s \in Found(toRun)' : IsScript(s)}
                /\ Found(toRecord)' \subseteq Links(t)'
                /\ \A u \in Links(t)' :
                     u \in Found(toRecord)' \/ \E p \in DOMAIN pageDoc : u \in Links(p)
    <2>1. ScriptsOf(t)' = {s \in Found(toRun)' : IsScript(s)}
      BY <1>5, <1>6, <1>10 DEF ScriptsOf, Found
    <2>2. Links(t)' = Found(toRecord)'
            \cup UNION {Found(Resolve(s, scriptDoc[s])) : s \in ScriptsOf(t)' \cap DOMAIN scriptDoc}
      BY <1>2, <1>5, <1>6, <1>10 DEF Links, Found
    <2>3. ASSUME NEW s \in DOMAIN scriptDoc
          PROVE  \E p \in DOMAIN pageDoc : Found(Resolve(s, scriptDoc[s])) \subseteq Links(p)
      <3>1. PICK p \in DOMAIN pageDoc : s \in ScriptsOf(p)
        BY DEF CrawlInv, WorkOfCurrent
      <3> QED
        BY <3>1 DEF Links
    <2> QED
      BY <2>1, <2>2, <2>3
  <1>11. /\ ScriptsOf(Current)' = {s \in Found(toRun)' : IsScript(s)}
         /\ Found(toRecord)' \subseteq Links(Current)'
         /\ \A u \in Links(Current)' :
              u \in Found(toRecord)' \/ \E p \in DOMAIN pageDoc : u \in Links(p)
    BY <1>2, <1>10
  <1> QED
    BY <1>5, <1>6, <1>7, <1>8, <1>9, <1>11 DEF top

LEMMA VisitPageKeeps ==
  ASSUME CrawlInv, NEW doc \in Documents, NEW rendered \in BOOLEAN, VisitPage(doc, rendered)
  PROVE  CrawlInv'
PROOF
  <1> DEFINE top == Canonical(Head(queue).url)
  <1>1. EnterPage
    BY DEF VisitPage
  <1>2. /\ PopPage(TRUE) /\ TRUE \in BOOLEAN
        /\ top \notin pages /\ pages' = pages \cup {top} /\ Current' = top
        /\ depthOf'[top] = depth' /\ \A p \in pages : depthOf'[p] = depthOf[p]
        /\ depthOf' \in [pages' -> 0 .. crawl.max_depth]
        /\ UNCHANGED <<crawl, stop, scripts, assets, scriptDoc>>
        /\ Bounded' /\ QueueOrdered'
        /\ Canonical(Base) \in pages' \/ WaitsAt(Canonical(Base), 0)'
    BY <1>1, EnterFacts
  <1>3. /\ stop = "no" /\ toRecord = <<>> /\ toRun = <<>>
        /\ Found(toRecord) = {} /\ Found(toRun) = {}
        /\ page' \in Urls /\ top \in Urls /\ depth' \in 0 .. crawl.max_depth /\ depth' \in Nat
        /\ queue' \in Seq(Items)
        /\ \A p \in pages : depthOf[p] \in Nat /\ depthOf[p] <= depth'
    BY <1>2, PopPageFacts
  <1>4. \A u : \A n \in Nat : Accounted(u, n) =>
             (u \in pages' /\ depthOf'[u] <= n + 1) \/ WaitsAt(u, n + 1)'
    BY <1>1, EnterFacts
  <1>5. /\ toRecord' \in UrlSeqs /\ toRun' \in UrlSeqs
        /\ DOMAIN pageDoc' = DOMAIN pageDoc \cup {top}
        /\ pageDoc' \in [DOMAIN pageDoc' -> [doc : Documents, rendered : BOOLEAN]]
        /\ \A p \in pages : Links(p)' = Links(p)
        /\ \A p \in DOMAIN pageDoc : ScriptsOf(p)' = ScriptsOf(p)
        /\ ScriptsOf(Current)' = {s \in Found(toRun)' : IsScript(s)}
        /\ Found(toRecord)' \subseteq Links(Current)'
        /\ \A u \in Links(Current)' :
             u \in Found(toRecord)' \/ \E p \in DOMAIN pageDoc : u \in Links(p)
    BY VisitFacts
  <1> HIDE DEF top
  <1>6. DOMAIN pageDoc \subseteq pages /\ top \notin DOMAIN pageDoc
    BY <1>2 DEF CrawlInv, CrawlTypeOK
  <1>7. CrawlTypeOK'
    BY <1>2, <1>3, <1>5, <1>6 DEF CrawlInv, CrawlTypeOK, Items, UrlSeqs
  <1>8. WorkOfCurrent'
    <2>1. stop' = "no" /\ Current' \in DOMAIN pageDoc' /\ depthOf'[Current'] = depth'
      BY <1>2, <1>3, <1>5
    <2>2. (\A s \in Found(toRun) : IsScript(s) => s \in ScriptsOf(Current))'
      BY <1>5
    <2>3. (\A s \in DOMAIN scriptDoc : \E p \in DOMAIN pageDoc : s \in ScriptsOf(p))'
      BY <1>2, <1>5 DEF CrawlInv, WorkOfCurrent
    <2>4. (\A p \in DOMAIN pageDoc : \A s \in ScriptsOf(p) :
             s \in scripts \/ (p = Current /\ s \in Found(toRun)))'
      <3> SUFFICES ASSUME NEW p \in DOMAIN pageDoc', NEW s \in ScriptsOf(p)'
                   PROVE  s \in scripts' \/ (p = Current' /\ s \in Found(toRun)')
        OBVIOUS
      <3>1. CASE p \in DOMAIN pageDoc
        BY <1>2, <1>3, <1>5, <3>1 DEF CrawlInv, WorkOfCurrent
      <3>2. CASE p = Current'
        BY <1>5, <3>2
      <3> QED
        BY <1>2, <1>5, <3>1, <3>2
    <2> QED
      BY <1>5, <2>1, <2>2, <2>3, <2>4 DEF WorkOfCurrent
  <1>9. PagesSound'
    BY <1>1, <1>5, EnterSound
  <1>10. PagesComplete'
    <2>1. ASSUME NEW p \in pages', NEW u \in Links(p)', NEW n, n = depthOf'[p],
                 CrawlAsPage(u), n < crawl.max_depth
          PROVE  Accounted(u, n)'
      <3>1. ASSUME NEW q \in pages, u \in Links(q), NEW m, m = depthOf[q], m <= n
            PROVE  Accounted(u, n)'
        <4>1. n \in Nat /\ m \in Nat /\ m < crawl.max_depth /\ m + 1 \in Nat
          <5>1. n \in 0 .. crawl.max_depth
            BY <1>2, <2>1
          <5> QED
            BY <1>3, <2>1, <3>1, <5>1, TypeFacts DEF CrawlInv
        <4>2. Accounted(u, m)
          BY <1>3, <2>1, <3>1, <4>1 DEF CrawlInv, PagesComplete
        <4>3. (u \in pages' /\ depthOf'[u] <= m + 1) \/ WaitsAt(u, m + 1)'
          BY <1>4, <4>1, <4>2
        <4>4. CASE u \in pages' /\ depthOf'[u] <= m + 1
          <5>1. depthOf'[u] \in 0 .. crawl.max_depth
            BY <1>2, <4>4
          <5>2. depthOf'[u] <= n + 1
            BY <3>1, <4>1, <4>4, <5>1, TypeFacts DEF CrawlInv
          <5> QED
            BY <4>4, <5>2 DEF Accounted
        <4>5. CASE WaitsAt(u, m + 1)'
          <5>1. PICK i \in 1 .. Len(queue') : Canonical(queue'[i].url) = u /\ queue'[i].depth <= m + 1
            BY <4>5 DEF WaitsAt
          <5>2. queue'[i].depth \in Nat
            <6>1. queue'[i] \in Items
              BY <1>3, ElementOfSeq
            <6> QED
              BY <6>1, TypeFacts DEF CrawlInv, Items
          <5>3. queue'[i].depth <= n + 1
            BY <3>1, <4>1, <5>1, <5>2
          <5> QED
            BY <5>1, <5>3 DEF Accounted, WaitsAt
        <4> QED
          BY <4>3, <4>4, <4>5
      <3>2. CASE p \in pages
        <4>1. u \in Links(p) /\ depthOf[p] = n /\ n \in Nat
          BY <1>2, <1>3, <1>5, <2>1, <3>2
        <4> QED
          BY <3>1, <3>2, <4>1
      <3>3. CASE p = Current'
        <4>1. n = depth' /\ u \in Links(Current)'
          BY <1>2, <2>1, <3>3
        <4>2. CASE u \in Found(toRecord)'
          BY <1>3, <4>1, <4>2 DEF Accounted
        <4>3. CASE \E q \in DOMAIN pageDoc : u \in Links(q)
          BY <1>3, <1>6, <3>1, <4>1, <4>3
        <4> QED
          BY <1>5, <4>1, <4>2, <4>3
      <3> QED
        BY <1>2, <3>2, <3>3
    <2> QED
      BY <1>2, <2>1 DEF PagesComplete
  <1>11. AssetsExact'
    <2>1. (\A i \in 1 .. Len(assets) :
             assets[i].path \notin Destructive /\ \E p \in pages : assets[i] \in Links(p))'
      BY <1>2, <1>5 DEF CrawlInv, AssetsExact
    <2>2. (\A p \in pages : \A u \in Links(p) :
             u.path \notin Destructive => IsAsset(u) \/ u \in Found(toRecord))'
      <3> SUFFICES ASSUME NEW p \in pages', NEW u \in Links(p)', u.path \notin Destructive,
                          u \notin Found(toRecord)'
                   PROVE  IsAsset(u)'
        OBVIOUS
      <3>1. \E q \in pages : u \in Links(q)
        BY <1>2, <1>5, <1>6
      <3>2. IsAsset(u)
        BY <1>3, <3>1 DEF CrawlInv, AssetsExact
      <3> QED
        BY <1>2, <3>2 DEF IsAsset
    <2> QED
      BY <1>2, <2>1, <2>2 DEF CrawlInv, AssetsExact
  <1> QED
    BY <1>2, <1>7, <1>8, <1>9, <1>10, <1>11 DEF CrawlInv

\* The URL at the head is an asset and, if it is a page within the limit, waits.
LEMMA TakeUrlKeeps ==
  ASSUME CrawlInv, TakeUrl
  PROVE  CrawlInv'
PROOF
  <1> DEFINE url == Head(toRecord)
             key == Canonical(url)
             item == [url |-> url, depth |-> depth + 1]
  <1>1. /\ toRecord # <<>> /\ toRecord' = Tail(toRecord)
        /\ UNCHANGED <<crawl, stop, pages, scripts, page, depth, toRun, looked>>
    BY DEF TakeUrl
  <1>2. /\ UNCHANGED <<depthOf, pageDoc, scriptDoc>> /\ Current' = Current
        /\ \A p : Links(p)' = Links(p) /\ ScriptsOf(p)' = ScriptsOf(p)
    BY <1>1, SameLinks DEF looked, Current
  <1>3. stop = "no" /\ Current \in DOMAIN pageDoc /\ Current \in pages /\ depthOf[Current] = depth
    BY <1>1 DEF CrawlInv, CrawlTypeOK, WorkOfCurrent
  <1>4. /\ Tail(toRecord) \in UrlSeqs
        /\ SameOrigin(url) => url \in Urls
        /\ Found(toRecord) = Found(Tail(toRecord)) \cup (IF SameOrigin(url) THEN {key} ELSE {})
    BY <1>1, FoundFacts, TypeFacts DEF CrawlInv
  <1>5. Found(toRecord)' = Found(Tail(toRecord))
    BY <1>1 DEF Found
  <1>6. WorkOfCurrent'
    <2>1. Found(toRecord)' \subseteq Links(Current)
      BY <1>4, <1>5 DEF CrawlInv, WorkOfCurrent
    <2> QED
      BY <1>1, <1>2, <1>3, <2>1 DEF CrawlInv, WorkOfCurrent, Found
  <1>7. assets \in Seq(Urls) /\ Len(assets) \in Nat /\ DOMAIN assets = 1 .. Len(assets)
    BY LenProperties DEF CrawlInv, CrawlTypeOK
  <1>8. /\ queue \in Seq(Items) /\ Len(queue) \in Nat /\ depth \in Nat /\ crawl.max_depth \in Nat
        /\ \A p \in pages : depthOf[p] \in Nat /\ depthOf[p] <= depth
    BY TypeFacts DEF CrawlInv, CrawlTypeOK, QueueOrdered
  <1>9. Bounded'
    BY <1>1, <1>3 DEF CrawlInv, Bounded, MaxPages
  <1>10. CASE ~SameOrigin(url)
    <2>1. UNCHANGED <<assets, queue>> /\ Found(toRecord)' = Found(toRecord)
      BY <1>4, <1>5, <1>10 DEF TakeUrl
    <2>2. CrawlTypeOK' /\ QueueOrdered'
      BY <1>1, <1>2, <1>4, <2>1 DEF CrawlInv, CrawlTypeOK, QueueOrdered, UrlSeqs
    <2>3. PagesSound' /\ PagesComplete' /\ AssetsExact'
      BY <1>1, <1>2, <2>1
         DEF CrawlInv, PagesSound, Reached, PagesComplete, Accounted, WaitsAt, AssetsExact, IsAsset
    <2> QED
      BY <1>6, <1>9, <2>2, <2>3 DEF CrawlInv
  <1>11. CASE SameOrigin(url)
    <2>1. /\ url \in Urls /\ key \in Urls /\ key \in Links(Current) /\ key.path = url.path
          /\ CrawlAsPage(key) <=> CrawlAsPage(url)
      BY <1>4, <1>11, CanonicalFacts DEF CrawlInv, WorkOfCurrent
    <2>2. /\ assets' = IF url.path \in Destructive \/ key \in Range(assets)
                       THEN assets ELSE Append(assets, key)
          /\ queue' = IF depth < crawl.max_depth /\ CrawlAsPage(url)
                      THEN Append(queue, item) ELSE queue
      BY <1>11 DEF TakeUrl, RecordUrl, Enqueue
    <2>3. depth < crawl.max_depth => item \in Items
      BY <1>8, <2>1 DEF Items
    <2>4. item.url = url /\ item.depth = depth + 1
      OBVIOUS
    <2>5. Found(toRecord) = Found(toRecord)' \cup {key}
      BY <1>4, <1>5, <1>11
    <2> HIDE DEF item, url
    <2>6. /\ assets' \in Seq(Urls) /\ Len(assets') \in Nat
          /\ \A i \in 1 .. Len(assets) : i \in 1 .. Len(assets') /\ assets'[i] = assets[i]
          /\ \/ assets' = assets /\ (key.path \in Destructive \/ IsAsset(key))
             \/ /\ key.path \notin Destructive /\ ~IsAsset(key)
                /\ Len(assets') = Len(assets) + 1 /\ assets'[Len(assets) + 1] = key
      <3>1. IsAsset(key) <=> key \in Range(assets)
        BY <1>7 DEF IsAsset, Range
      <3>2. CASE key.path \in Destructive \/ IsAsset(key)
        BY <1>7, <2>1, <2>2, <3>1, <3>2
      <3>3. CASE ~(key.path \in Destructive \/ IsAsset(key))
        <4>1. assets' = Append(assets, key)
          BY <2>1, <2>2, <3>1, <3>3
        <4>2. /\ assets' \in Seq(Urls) /\ Len(assets') = Len(assets) + 1
              /\ assets'[Len(assets) + 1] = key
              /\ \A i \in 1 .. Len(assets) : assets'[i] = assets[i]
          BY <1>7, <2>1, <4>1, AppendProperties
        <4> QED
          BY <1>7, <3>3, <4>2
      <3> QED
        BY <3>2, <3>3
    <2>7. AssetsExact'
      <3>1. (\A i, j \in 1 .. Len(assets) : assets[i] = assets[j] => i = j)'
        <4>1. CASE assets' = assets
          BY <4>1 DEF CrawlInv, AssetsExact
        <4>2. CASE /\ key.path \notin Destructive /\ ~IsAsset(key)
                   /\ Len(assets') = Len(assets) + 1 /\ assets'[Len(assets) + 1] = key
          <5>1. \A i \in 1 .. Len(assets') : i \in 1 .. Len(assets) \/ i = Len(assets) + 1
            BY <1>7, <4>2
          <5>2. \A i \in 1 .. Len(assets) : assets[i] # key
            BY <4>2 DEF IsAsset
          <5> SUFFICES ASSUME NEW i \in 1 .. Len(assets'), NEW j \in 1 .. Len(assets'),
                              assets'[i] = assets'[j]
                       PROVE  i = j
            OBVIOUS
          <5>3. CASE i \in 1 .. Len(assets) /\ j \in 1 .. Len(assets)
            BY <2>6, <5>3 DEF CrawlInv, AssetsExact
          <5>4. CASE i = Len(assets) + 1 \/ j = Len(assets) + 1
            BY <2>6, <4>2, <5>1, <5>2, <5>4
          <5> QED
            BY <5>1, <5>3, <5>4
        <4> QED
          BY <2>6, <4>1, <4>2
      <3>2. (\A i \in 1 .. Len(assets) :
               assets[i].path \notin Destructive /\ \E p \in pages : assets[i] \in Links(p))'
        <4> SUFFICES ASSUME NEW i \in 1 .. Len(assets')
                     PROVE  /\ assets'[i].path \notin Destructive
                            /\ \E p \in pages : assets'[i] \in Links(p)
          BY <1>1, <1>2
        <4>1. CASE i \in 1 .. Len(assets)
          BY <2>6, <4>1 DEF CrawlInv, AssetsExact
        <4>2. CASE i \notin 1 .. Len(assets)
          <5>1. assets'[i] = key /\ key.path \notin Destructive
            BY <1>7, <2>6, <4>2
          <5> QED
            BY <1>3, <2>1, <5>1
        <4> QED
          BY <4>1, <4>2
      <3>3. (\A p \in pages : \A u \in Links(p) :
               u.path \notin Destructive => IsAsset(u) \/ u \in Found(toRecord))'
        <4> SUFFICES ASSUME NEW p \in pages, NEW u \in Links(p), u.path \notin Destructive,
                            u \notin Found(toRecord)'
                     PROVE  IsAsset(u)'
          BY <1>1, <1>2
        <4>1. IsAsset(u) \/ u = key
          BY <2>5 DEF CrawlInv, AssetsExact
        <4>2. ASSUME IsAsset(u) PROVE IsAsset(u)'
          BY <2>6, <4>2 DEF IsAsset
        <4>3. CASE u = key /\ ~IsAsset(u)
          <5>1. Len(assets) + 1 \in 1 .. Len(assets') /\ assets'[Len(assets) + 1] = u
            BY <1>7, <2>6, <4>3
          <5> QED
            BY <5>1 DEF IsAsset
        <4> QED
          BY <4>1, <4>2, <4>3
      <3> QED
        BY <3>1, <3>2, <3>3 DEF AssetsExact
    <2>8. CASE ~(depth < crawl.max_depth /\ CrawlAsPage(url))
      <3>1. queue' = queue
        BY <2>2, <2>8
      <3>2. CrawlTypeOK' /\ QueueOrdered' /\ PagesSound'
        BY <1>1, <1>2, <1>4, <2>6, <3>1
           DEF CrawlInv, CrawlTypeOK, QueueOrdered, PagesSound, Reached, UrlSeqs
      <3>3. PagesComplete'
        <4>1. ASSUME NEW p \in pages, NEW u \in Links(p), NEW n, n = depthOf[p],
                     CrawlAsPage(u), n < crawl.max_depth
              PROVE  Accounted(u, n)'
          <5>1. Accounted(u, n) /\ n \in Nat
            BY <1>3, <1>8, <4>1 DEF CrawlInv, PagesComplete
          <5>2. u = key => ~(depth <= n)
            BY <1>8, <2>1, <2>8, <4>1, <5>1
          <5> QED
            BY <1>1, <1>2, <2>5, <3>1, <5>1, <5>2 DEF Accounted, WaitsAt
        <4>2. (Canonical(Base) \in pages \/ WaitsAt(Canonical(Base), 0))'
          BY <1>1, <1>3, <3>1 DEF CrawlInv, PagesComplete, WaitsAt
        <4> QED
          BY <1>1, <1>2, <4>1, <4>2 DEF PagesComplete
      <3> QED
        BY <1>6, <1>9, <2>7, <3>2, <3>3 DEF CrawlInv
    <2>9. CASE depth < crawl.max_depth /\ CrawlAsPage(url)
      <3>1. PICK x \in Items : x = item /\ queue' = Append(queue, x)
        BY <2>2, <2>3, <2>9
      <3>2. /\ queue' \in Seq(Items) /\ Len(queue') = Len(queue) + 1
            /\ queue'[Len(queue) + 1] = item
            /\ \A i \in 1 .. Len(queue) : queue'[i] = queue[i]
            /\ \A i \in 1 .. Len(queue') : i \in 1 .. Len(queue) \/ i = Len(queue) + 1
            /\ \A u : \A n \in Nat : WaitsAt(u, n) => WaitsAt(u, n)'
        BY <1>1, <3>1, PushFacts DEF CrawlInv
      <3>3. CrawlTypeOK'
        BY <1>1, <1>2, <1>4, <2>6, <3>2 DEF CrawlInv, CrawlTypeOK, UrlSeqs, Items
      <3>4. QueueOrdered'
        <4>1. \A i \in 1 .. Len(queue') :
                depth <= queue'[i].depth /\ queue'[i].depth <= depth + 1
          BY <1>8, <2>4, <3>2 DEF CrawlInv, QueueOrdered
        <4>2. ASSUME NEW i \in 1 .. Len(queue'), NEW j \in 1 .. Len(queue'), i <= j
              PROVE  queue'[i].depth <= queue'[j].depth
          <5>1. CASE j \in 1 .. Len(queue)
            <6>1. i \in 1 .. Len(queue)
              BY <1>8, <3>2, <4>2, <5>1
            <6> QED
              BY <3>2, <4>2, <5>1, <6>1 DEF CrawlInv, QueueOrdered
          <5>2. CASE j = Len(queue) + 1
            BY <2>4, <3>2, <4>1, <5>2
          <5> QED
            BY <3>2, <5>1, <5>2
        <4> QED
          BY <1>1, <1>2, <4>1, <4>2 DEF CrawlInv, QueueOrdered
      <3>5. PagesSound'
        <4>1. Reached(key, depth + 1)
          BY <1>3, <2>1, <2>9 DEF Reached
        <4>2. \A i \in 1 .. Len(queue') : Reached(Canonical(queue'[i].url), queue'[i].depth)
          BY <2>4, <3>2, <4>1 DEF CrawlInv, PagesSound
        <4> QED
          BY <1>1, <1>2, <4>2 DEF CrawlInv, PagesSound, Reached
      <3>6. PagesComplete'
        <4>1. ASSUME NEW p \in pages, NEW u \in Links(p), NEW n, n = depthOf[p],
                     CrawlAsPage(u), n < crawl.max_depth
              PROVE  Accounted(u, n)'
          <5>1. Accounted(u, n) /\ n \in Nat /\ n + 1 \in Nat
            BY <1>3, <1>8, <4>1 DEF CrawlInv, PagesComplete
          <5>2. CASE u \in pages /\ depthOf[u] <= n + 1
            BY <1>1, <1>2, <5>2 DEF Accounted
          <5>3. CASE WaitsAt(u, n + 1)
            BY <3>2, <5>1, <5>3 DEF Accounted
          <5>4. CASE u \in Found(toRecord)' /\ depth <= n
            BY <1>1, <5>4 DEF Accounted
          <5>5. CASE u = key /\ depth <= n
            <6>1. depth + 1 <= n + 1 /\ Len(queue) + 1 \in 1 .. Len(queue')
              BY <1>8, <3>2, <5>1, <5>5
            <6>2. Canonical(queue'[Len(queue) + 1].url) = u /\ queue'[Len(queue) + 1].depth <= n + 1
              BY <2>4, <3>2, <5>5, <6>1
            <6> QED
              BY <6>1, <6>2 DEF Accounted, WaitsAt
          <5> QED
            BY <2>5, <5>1, <5>2, <5>3, <5>4, <5>5 DEF Accounted
        <4>2. (Canonical(Base) \in pages \/ WaitsAt(Canonical(Base), 0))'
          <5>1. 0 \in Nat
            OBVIOUS
          <5> QED
            BY <1>1, <1>3, <3>2, <5>1 DEF CrawlInv, PagesComplete
        <4> QED
          BY <1>1, <1>2, <4>1, <4>2 DEF PagesComplete
      <3> QED
        BY <1>6, <1>9, <2>7, <3>3, <3>4, <3>5, <3>6 DEF CrawlInv
    <2> QED
      BY <2>8, <2>9
  <1> QED
    BY <1>10, <1>11

\* A link that is a script was visited before, or its page is the only one to have it.
LEMMA TakeLinkFacts ==
  ASSUME CrawlInv, NEW isNew \in BOOLEAN, TakeLink(isNew)
  PROVE  LET key == Canonical(Head(toRun))
         IN  /\ UNCHANGED <<crawl, stop, queue, pages, assets, page, depth, depthOf, pageDoc>>
             /\ \A p : ScriptsOf(p)' = ScriptsOf(p)
             /\ toRecord = <<>> /\ Found(toRecord) = {}
             /\ stop = "no" /\ Current' = Current
             /\ Current \in DOMAIN pageDoc /\ Current \in pages /\ depthOf[Current] = depth
             /\ toRun' \in UrlSeqs
             /\ \A s \in Found(toRun)' : IsScript(s) => s \in ScriptsOf(Current)
             /\ isNew =>
                  /\ Head(toRun) \in Urls /\ key \in Urls /\ key \notin scripts
                  /\ key \in ScriptsOf(Current)
                  /\ \A p \in DOMAIN pageDoc : key \in ScriptsOf(p) => p = Current
             /\ \A p \in DOMAIN pageDoc : \A s \in ScriptsOf(p) :
                  s \in scripts \/ (isNew /\ s = key) \/ (p = Current /\ s \in Found(toRun)')
PROOF
  <1> DEFINE head == Head(toRun)
             key == Canonical(head)
  <1>1. /\ toRecord = <<>> /\ toRun # <<>> /\ toRun' = Tail(toRun)
        /\ isNew <=> SameOrigin(head) /\ IsScript(head) /\ key \notin scripts
        /\ UNCHANGED <<crawl, stop, queue, pages, assets, page, depth, depthOf, pageDoc>>
    BY DEF TakeLink
  <1>2. stop = "no" /\ Current \in DOMAIN pageDoc /\ Current \in pages /\ depthOf[Current] = depth
    BY <1>1 DEF CrawlInv, CrawlTypeOK, WorkOfCurrent
  <1>3. /\ Tail(toRun) \in UrlSeqs
        /\ SameOrigin(head) => head \in Urls
        /\ Found(toRun) = Found(Tail(toRun)) \cup (IF SameOrigin(head) THEN {key} ELSE {})
    BY <1>1, FoundFacts, TypeFacts DEF CrawlInv
  <1>4. Found(toRecord) = {}
    BY <1>1, FoundFacts, TypeFacts DEF CrawlInv
  <1>5. Found(toRun)' = Found(Tail(toRun))
    BY <1>1 DEF Found
  <1>6. /\ \A p : ScriptsOf(p)' = ScriptsOf(p)
        /\ Current' = Current
    BY <1>1 DEF ScriptsOf, Current
  <1>7. \A s \in Found(toRun)' : IsScript(s) => s \in ScriptsOf(Current)
    BY <1>3, <1>5 DEF CrawlInv, WorkOfCurrent
  <1>8. SameOrigin(head) => key \in Urls /\ (IsScript(key) <=> IsScript(head))
    BY <1>3, CanonicalFacts
  <1>9. ASSUME isNew
        PROVE  /\ head \in Urls /\ key \in Urls /\ key \notin scripts
               /\ key \in ScriptsOf(Current)
               /\ \A p \in DOMAIN pageDoc : key \in ScriptsOf(p) => p = Current
    <2>1. head \in Urls /\ key \in Urls /\ key \notin scripts /\ IsScript(key) /\ key \in Found(toRun)
      BY <1>1, <1>3, <1>8, <1>9
    <2> QED
      BY <2>1 DEF CrawlInv, WorkOfCurrent
  <1>10. ASSUME NEW p \in DOMAIN pageDoc, NEW s \in ScriptsOf(p)
         PROVE  s \in scripts \/ (isNew /\ s = key) \/ (p = Current /\ s \in Found(toRun)')
    <2>1. s \in scripts \/ (p = Current /\ s \in Found(toRun))
      BY DEF CrawlInv, WorkOfCurrent
    <2>2. IsScript(s)
      BY DEF ScriptsOf
    <2> QED
      BY <1>1, <1>3, <1>5, <1>8, <2>1, <2>2
  <1> QED
    BY <1>1, <1>2, <1>3, <1>4, <1>6, <1>7, <1>9, <1>10

LEMMA SkipLinkKeeps ==
  ASSUME CrawlInv, SkipLink \/ FailScript
  PROVE  CrawlInv'
PROOF
  <1>1. PICK isNew \in BOOLEAN :
          /\ TakeLink(isNew) /\ UNCHANGED <<toRecord, scriptDoc>>
          /\ scripts' = IF isNew THEN scripts \cup {Canonical(Head(toRun))} ELSE scripts
    <2>1. CASE SkipLink
      BY <2>1 DEF SkipLink
    <2>2. CASE FailScript
      BY <2>2 DEF FailScript
    <2> QED
      BY <2>1, <2>2
  <1> DEFINE key == Canonical(Head(toRun))
  <1>2. /\ UNCHANGED <<crawl, stop, queue, pages, assets, page, depth, depthOf, pageDoc>>
        /\ Found(toRecord) = {} /\ stop = "no"
        /\ Current \in DOMAIN pageDoc /\ depthOf[Current] = depth /\ Current' = Current
        /\ toRun' \in UrlSeqs
        /\ \A s \in Found(toRun)' : IsScript(s) => s \in ScriptsOf(Current)
        /\ isNew => key \in Urls
        /\ \A p \in DOMAIN pageDoc : \A s \in ScriptsOf(p) :
             s \in scripts \/ (isNew /\ s = key) \/ (p = Current /\ s \in Found(toRun)')
    BY <1>1, TakeLinkFacts
  <1> HIDE DEF key
  <1>3. \A p : Links(p)' = Links(p) /\ ScriptsOf(p)' = ScriptsOf(p)
    BY <1>1, <1>2, SameLinks
  <1>4. scripts' \subseteq Urls /\ scripts \subseteq scripts' /\ (isNew => key \in scripts')
    BY <1>1, <1>2 DEF CrawlInv, CrawlTypeOK, key
  <1>5. CrawlTypeOK'
    BY <1>1, <1>2, <1>4 DEF CrawlInv, CrawlTypeOK, UrlSeqs
  <1>6. Bounded' /\ QueueOrdered' /\ PagesSound'
    BY <1>1, <1>2, <1>3 DEF CrawlInv, Bounded, MaxPages, QueueOrdered, PagesSound, Reached
  <1>7. WorkOfCurrent'
    BY <1>1, <1>2, <1>3, <1>4 DEF CrawlInv, WorkOfCurrent
  <1>8. PagesComplete' /\ AssetsExact'
    BY <1>1, <1>2, <1>3 DEF CrawlInv, PagesComplete, Accounted, WaitsAt, AssetsExact, IsAsset
  <1> QED
    BY <1>5, <1>6, <1>7, <1>8 DEF CrawlInv

\* A script adds its URLs to those of the current page, and to no other.
LEMMA FetchScriptKeeps ==
  ASSUME CrawlInv, NEW candidates \in Scripts, FetchScript(candidates)
  PROVE  CrawlInv'
PROOF
  <1> DEFINE key == Canonical(Head(toRun))
  <1>1. /\ TakeLink(TRUE) /\ TRUE \in BOOLEAN
        /\ scripts' = scripts \cup {key}
        /\ toRecord' = Resolve(Head(toRun), candidates)
        /\ scriptDoc' = [s \in DOMAIN scriptDoc \cup {key} |->
                           IF s = key THEN candidates ELSE scriptDoc[s]]
    BY DEF FetchScript
  <1>2. /\ UNCHANGED <<crawl, stop, queue, pages, assets, page, depth, depthOf, pageDoc>>
        /\ \A p : ScriptsOf(p)' = ScriptsOf(p)
        /\ Found(toRecord) = {} /\ stop = "no" /\ Current' = Current
        /\ Current \in DOMAIN pageDoc /\ Current \in pages /\ depthOf[Current] = depth
        /\ toRun' \in UrlSeqs
        /\ \A s \in Found(toRun)' : IsScript(s) => s \in ScriptsOf(Current)
        /\ Head(toRun) \in Urls /\ key \in Urls /\ key \notin scripts
        /\ key \in ScriptsOf(Current)
        /\ \A p \in DOMAIN pageDoc : key \in ScriptsOf(p) => p = Current
        /\ \A p \in DOMAIN pageDoc : \A s \in ScriptsOf(p) :
             s \in scripts \/ s = key \/ (p = Current /\ s \in Found(toRun)')
    BY <1>1, TakeLinkFacts
  <1>3. toRecord' \in UrlSeqs /\ toRecord' = Resolve(key, candidates)
    BY <1>1, <1>2, ResolveFacts, CrawlAssumption
  <1> HIDE DEF key
  <1>4. /\ DOMAIN scriptDoc \subseteq scripts /\ key \notin DOMAIN scriptDoc
        /\ scriptDoc \in [DOMAIN scriptDoc -> Scripts] /\ DOMAIN pageDoc \subseteq pages
    BY <1>2 DEF CrawlInv, CrawlTypeOK
  <1>5. /\ DOMAIN scriptDoc' = DOMAIN scriptDoc \cup {key}
        /\ scriptDoc'[key] = candidates
        /\ \A s \in DOMAIN scriptDoc : scriptDoc'[s] = scriptDoc[s]
        /\ scriptDoc' \in [DOMAIN scriptDoc' -> Scripts]
    BY <1>1, <1>4
  <1>6. \A p : Links(p)' = (IF p = Current THEN Links(p) \cup Found(toRecord)' ELSE Links(p))
    <2>1. Found(toRecord)' = Found(Resolve(key, candidates))
      BY <1>3 DEF Found
    <2> SUFFICES ASSUME NEW p
                 PROVE  Links(p)' = (IF p = Current THEN Links(p) \cup Found(toRecord)' ELSE Links(p))
      OBVIOUS
    <2>2. CASE p \notin DOMAIN pageDoc
      BY <1>2, <2>2 DEF Links
    <2>3. CASE p \in DOMAIN pageDoc
      <3> DEFINE ran == ScriptsOf(p) \cap DOMAIN scriptDoc
      <3>1. /\ Links(p) = Found(PageUrls(p, pageDoc[p].doc, pageDoc[p].rendered))
                            \cup UNION {Found(Resolve(s, scriptDoc[s])) : s \in ran}
            /\ Links(p)' = Found(PageUrls(p, pageDoc[p].doc, pageDoc[p].rendered))
                            \cup UNION {Found(Resolve(s, scriptDoc'[s])) :
                                          s \in ScriptsOf(p) \cap DOMAIN scriptDoc'}
        BY <1>2, <2>3 DEF Links
      <3>2. \A s \in ran : Found(Resolve(s, scriptDoc'[s])) = Found(Resolve(s, scriptDoc[s]))
        BY <1>5
      <3>3. CASE p = Current
        <4>1. ScriptsOf(p) \cap DOMAIN scriptDoc' = ran \cup {key}
          BY <1>2, <1>5, <3>3
        <4>2. Found(Resolve(key, scriptDoc'[key])) = Found(toRecord)'
          BY <1>5, <2>1
        <4> HIDE DEF ran
        <4> QED
          BY <3>1, <3>2, <3>3, <4>1, <4>2
      <3>4. CASE p # Current
        <4>1. ScriptsOf(p) \cap DOMAIN scriptDoc' = ran
          BY <1>2, <1>5, <2>3, <3>4
        <4> HIDE DEF ran
        <4> QED
          BY <3>1, <3>2, <3>4, <4>1
      <3> QED
        BY <3>3, <3>4
    <2> QED
      BY <2>2, <2>3
  <1>7. CrawlTypeOK'
    BY <1>1, <1>2, <1>3, <1>4, <1>5 DEF CrawlInv, CrawlTypeOK, UrlSeqs, key
  <1>8. Bounded' /\ QueueOrdered'
    BY <1>2 DEF CrawlInv, Bounded, MaxPages, QueueOrdered
  <1>9. WorkOfCurrent'
    <2>1. (\A s \in DOMAIN scriptDoc : \E p \in DOMAIN pageDoc : s \in ScriptsOf(p))'
      BY <1>2, <1>5 DEF CrawlInv, WorkOfCurrent
    <2>2. (\A p \in DOMAIN pageDoc : \A s \in ScriptsOf(p) :
             s \in scripts \/ (p = Current /\ s \in Found(toRun)))'
      BY <1>1, <1>2 DEF key
    <2>3. (Found(toRecord) \subseteq Links(Current))'
      <3>1. ASSUME NEW p, p = Current PROVE Found(toRecord)' \subseteq Links(p)'
        BY <1>6, <3>1
      <3> QED
        BY <1>2, <3>1
    <2>4. (\A s \in Found(toRun) : IsScript(s) => s \in ScriptsOf(Current))'
      BY <1>2
    <2> QED
      BY <1>2, <2>1, <2>2, <2>3, <2>4 DEF WorkOfCurrent
  <1>10. PagesSound'
    <2>1. ASSUME NEW u, NEW n, Reached(u, n) PROVE Reached(u, n)'
      BY <1>2, <1>6, <2>1 DEF Reached
    <2> QED
      BY <1>2, <2>1 DEF CrawlInv, PagesSound
  <1>11. PagesComplete'
    <2>1. ASSUME NEW p \in pages, NEW u \in Links(p)', NEW n, n = depthOf[p],
                 CrawlAsPage(u), n < crawl.max_depth
          PROVE  Accounted(u, n)'
      <3>1. CASE u \in Links(p)
        <4>1. Accounted(u, n)
          BY <1>2, <2>1, <3>1 DEF CrawlInv, PagesComplete
        <4> QED
          BY <1>2, <4>1 DEF Accounted, WaitsAt
      <3>2. CASE p = Current /\ u \in Found(toRecord)'
        BY <1>2, <2>1, <3>2, TypeFacts DEF Accounted, CrawlInv
      <3> QED
        BY <1>6, <2>1, <3>1, <3>2
    <2>2. (Canonical(Base) \in pages \/ WaitsAt(Canonical(Base), 0))'
      BY <1>2 DEF CrawlInv, PagesComplete, WaitsAt
    <2> QED
      BY <1>2, <2>1, <2>2 DEF PagesComplete
  <1>12. AssetsExact'
    <2>1. (\A p \in pages : \A u \in Links(p) :
             u.path \notin Destructive => IsAsset(u) \/ u \in Found(toRecord))'
      <3> SUFFICES ASSUME NEW p \in pages, NEW u \in Links(p)', u.path \notin Destructive,
                          u \notin Found(toRecord)'
                   PROVE  IsAsset(u)'
        BY <1>2
      <3>1. u \in Links(p)
        BY <1>6
      <3> QED
        BY <1>2, <3>1 DEF CrawlInv, AssetsExact, IsAsset
    <2> QED
      BY <1>2, <1>6, <2>1 DEF CrawlInv, AssetsExact
  <1> QED
    BY <1>7, <1>8, <1>9, <1>10, <1>11, <1>12 DEF CrawlInv

-----------------------------------------------------------------------------
(* The invariant, and what follows from it.                                 *)

LEMMA CrawlInitial == CrawlInit => CrawlInv
PROOF
  <1> SUFFICES ASSUME CrawlInit PROVE CrawlInv
    OBVIOUS
  <1> DEFINE first == [url |-> Base, depth |-> 0]
  <1>1. /\ crawl \in CrawlConfigs /\ stop = "no" /\ queue = <<first>>
        /\ pages = {} /\ scripts = {} /\ assets = <<>> /\ page = Base /\ depth = 0
        /\ toRecord = <<>> /\ toRun = <<>> /\ depthOf = << >> /\ pageDoc = << >> /\ scriptDoc = << >>
    BY DEF CrawlInit
  <1>2. crawl.max_depth \in Nat /\ crawl.max_pages \in Nat /\ Base \in Urls
    BY <1>1, CrawlAssumption
  <1>3. first \in Items /\ first.url = Base /\ first.depth = 0
    BY <1>2 DEF Items
  <1> HIDE DEF first
  <1>4. Len(queue) = 1 /\ queue[1] = first /\ queue \in Seq(Items)
    BY <1>1, <1>3
  <1>5. toRecord \in UrlSeqs /\ toRun \in UrlSeqs /\ assets \in Seq(Urls) /\ Len(assets) = 0
    BY <1>1, EmptySeq DEF UrlSeqs
  <1>6. Found(toRecord) = {} /\ Found(toRun) = {}
    BY <1>1, <1>5, FoundFacts
  <1>7. DOMAIN depthOf = {} /\ DOMAIN pageDoc = {} /\ DOMAIN scriptDoc = {}
    BY <1>1
  <1>8. CrawlTypeOK
    <2>1. depthOf \in [pages -> 0 .. crawl.max_depth]
      BY <1>1, <1>7
    <2>2. /\ pageDoc \in [DOMAIN pageDoc -> [doc : Documents, rendered : BOOLEAN]]
          /\ scriptDoc \in [DOMAIN scriptDoc -> Scripts]
      BY <1>1, <1>7
    <2> QED
      BY <1>1, <1>2, <1>4, <1>5, <1>7, <2>1, <2>2 DEF CrawlTypeOK, Items, UrlSeqs
  <1>9. Bounded
    BY <1>1, <1>2, FS_EmptySet DEF Bounded, MaxPages
  <1>10. QueueOrdered
    BY <1>1, <1>3, <1>4 DEF QueueOrdered
  <1>11. WorkOfCurrent
    BY <1>1, <1>6, <1>7 DEF WorkOfCurrent
  <1>12. PagesSound
    BY <1>1, <1>3, <1>4 DEF PagesSound, Reached
  <1>13. PagesComplete
    BY <1>1, <1>3, <1>4 DEF PagesComplete, WaitsAt
  <1>14. AssetsExact
    BY <1>1, <1>5 DEF AssetsExact
  <1> QED
    BY <1>8, <1>9, <1>10, <1>11, <1>12, <1>13, <1>14 DEF CrawlInv

LEMMA CrawlStep == CrawlInv /\ [CrawlNext]_crawlVars => CrawlInv'
PROOF
  <1> SUFFICES ASSUME CrawlInv, [CrawlNext]_crawlVars PROVE CrawlInv'
    OBVIOUS
  <1>1. CASE Exhaust \/ StopAtLimit
    BY <1>1, StopKeeps
  <1>2. CASE SkipPage
    BY <1>2, SkipPageKeeps
  <1>3. CASE FailPage
    BY <1>3, FailPageKeeps
  <1>4. ASSUME NEW doc \in Documents, NEW rendered \in BOOLEAN, VisitPage(doc, rendered)
        PROVE  CrawlInv'
    BY <1>4, VisitPageKeeps
  <1>5. CASE TakeUrl
    BY <1>5, TakeUrlKeeps
  <1>6. CASE SkipLink \/ FailScript
    BY <1>6, SkipLinkKeeps
  <1>7. ASSUME NEW candidates \in Scripts, FetchScript(candidates)
        PROVE  CrawlInv'
    BY <1>7, FetchScriptKeeps
  <1>8. CASE UNCHANGED crawlVars
    <2>1. /\ UNCHANGED <<crawl, stop, queue, pages, scripts, assets, page, depth, toRecord, toRun,
                         depthOf, pageDoc, scriptDoc>>
          /\ \A p : Links(p)' = Links(p) /\ ScriptsOf(p)' = ScriptsOf(p)
      BY <1>8, SameLinks DEF crawlVars, looked
    <2>2. CrawlTypeOK' /\ Bounded' /\ QueueOrdered'
      BY <2>1 DEF CrawlInv, CrawlTypeOK, Bounded, MaxPages, QueueOrdered
    <2>3. WorkOfCurrent'
      BY <2>1 DEF CrawlInv, WorkOfCurrent, Current, Found
    <2>4. PagesSound' /\ PagesComplete' /\ AssetsExact'
      BY <2>1 DEF CrawlInv, PagesSound, Reached, PagesComplete, Accounted, WaitsAt,
                  AssetsExact, IsAsset, Found
    <2> QED
      BY <2>2, <2>3, <2>4 DEF CrawlInv
  <1> QED
    BY <1>1, <1>2, <1>3, <1>4, <1>5, <1>6, <1>7, <1>8 DEF CrawlNext

LEMMA CrawlConclusion == CrawlInv => CrawlExact
PROOF
  <1> SUFFICES ASSUME CrawlInv PROVE CrawlExact
    OBVIOUS
  <1>1. Cardinality(pages) <= MaxPages /\ (stop = "limit" => Cardinality(pages) = MaxPages)
    BY DEF CrawlInv, Bounded
  <1>2. DOMAIN assets = 1 .. Len(assets)
    BY LenProperties DEF CrawlInv, CrawlTypeOK
  <1>3. IsInjective(assets)
    BY <1>2 DEF IsInjective, CrawlInv, AssetsExact
  <1>4. \A p \in pages : depthOf[p] <= crawl.max_depth /\ Reached(p, depthOf[p])
    BY TypeFacts DEF CrawlInv, CrawlTypeOK, PagesSound
  <1>5. ASSUME stop = "empty"
        PROVE  /\ Canonical(Base) \in pages
               /\ \A p \in pages : \A u \in Links(p) :
                    CrawlAsPage(u) /\ depthOf[p] < crawl.max_depth =>
                      u \in pages /\ depthOf[u] <= depthOf[p] + 1
               /\ Range(assets) = {u \in UNION {Links(p) : p \in pages} : u.path \notin Destructive}
    <2>1. Len(queue) = 0 /\ Found(toRecord) = {}
      BY <1>5, FoundFacts, TypeFacts DEF CrawlInv, Bounded
    <2>2. \A u, n : ~WaitsAt(u, n)
      BY <2>1 DEF WaitsAt
    <2>3. Canonical(Base) \in pages
      BY <1>5, <2>2 DEF CrawlInv, PagesComplete
    <2>4. \A p \in pages : \A u \in Links(p) :
            CrawlAsPage(u) /\ depthOf[p] < crawl.max_depth =>
              u \in pages /\ depthOf[u] <= depthOf[p] + 1
      BY <1>5, <2>1, <2>2 DEF CrawlInv, PagesComplete, Accounted
    <2>5. ASSUME NEW u
          PROVE  u \in Range(assets) <=> u.path \notin Destructive /\ \E p \in pages : u \in Links(p)
      <3>1. u \in Range(assets) <=> IsAsset(u)
        BY <1>2 DEF Range, IsAsset
      <3> QED
        BY <2>1, <3>1 DEF CrawlInv, AssetsExact, IsAsset
    <2> QED
      BY <2>3, <2>4, <2>5
  <1> QED
    BY <1>1, <1>3, <1>4, <1>5 DEF CrawlExact

\* Whatever the target answers, what the crawl visits and records is exact, in every
\* state (run_browser_crawl).
THEOREM CrawlAlwaysExact == CrawlSpec => []CrawlExact
PROOF
  <1>1. CrawlSpec => []CrawlInv
    BY CrawlInitial, CrawlStep, PTL DEF CrawlSpec
  <1> QED
    BY <1>1, CrawlConclusion, PTL

-----------------------------------------------------------------------------
(* CrawlExact speaks of links one by one.  Together they say that the crawl  *)
(* has visited what can be reached from the base URL: the members of every  *)
(* set that has the base at depth 0 and, with a page above the limit on     *)
(* depth, the pages that it links to, one deeper.                           *)

Closed(R) ==
  /\ <<Canonical(Base), 0>> \in R
  /\ \A p \in Urls, n \in Nat : <<p, n>> \in R /\ n < crawl.max_depth =>
       \A u \in Links(p) : CrawlAsPage(u) => <<u, n + 1>> \in R

ReachableAt(u, n) == \A R \in SUBSET (Urls \X Nat) : Closed(R) => <<u, n>> \in R

Reachable == {u \in Urls : \E n \in Nat : ReachableAt(u, n)}

OnlyReachable ==
  /\ \A p \in pages : ReachableAt(p, depthOf[p])
  /\ \A i \in 1 .. Len(queue) : ReachableAt(Canonical(queue[i].url), queue[i].depth)

\* When the queue is empty, what was visited is what can be reached.
VisitedIsReachable == stop = "empty" => pages = Reachable

\* The page of the base URL is the first.
BaseFirst ==
  IF pages = {} THEN queue = <<[url |-> Base, depth |-> 0]>>
  ELSE Canonical(Base) \in pages /\ depthOf[Canonical(Base)] = 0

\* Where the pages of a step come from, and those of its queue.
Grows ==
  /\ crawl' = crawl /\ \A p : Links(p) \subseteq Links(p)'
  /\ \A p \in pages : p \in pages' /\ depthOf'[p] = depthOf[p]
  /\ \A p \in pages' \ pages : \E i \in 1 .. Len(queue) :
       p = Canonical(queue[i].url) /\ depthOf'[p] = queue[i].depth
  /\ pages' = {} => queue' = queue
  /\ \A i \in 1 .. Len(queue') :
       \/ \E j \in 1 .. Len(queue) : queue'[i] = queue[j]
       \/ /\ Canonical(queue'[i].url) \in Links(Current) /\ CrawlAsPage(Canonical(queue'[i].url))
          /\ Current \in pages /\ depthOf[Current] = depth /\ depth < crawl.max_depth
          /\ queue'[i].depth = depth + 1

LEMMA StepGrows ==
  ASSUME CrawlInv, [CrawlNext]_crawlVars
  PROVE  Grows
PROOF
  <1>1. ASSUME UNCHANGED <<crawl, queue, pages, depthOf, pageDoc, scriptDoc>> PROVE Grows
    BY <1>1, SameLinks DEF Grows
  <1>2. ASSUME queue # <<>>, queue' = Tail(queue), pages # {}, UNCHANGED <<crawl, pages, depthOf, pageDoc, scriptDoc>>
        PROVE  Grows
    BY <1>2, SameLinks, PopFacts DEF CrawlInv, Grows
  <1>3. ASSUME EnterPage, \A p \in pages : Links(p) \subseteq Links(p)' PROVE Grows
    <2>1. /\ PopPage(TRUE) /\ pages' = pages \cup {Canonical(Head(queue).url)}
          /\ Canonical(Head(queue).url) \notin pages
          /\ depthOf'[Canonical(Head(queue).url)] = depth' /\ \A p \in pages : depthOf'[p] = depthOf[p]
          /\ crawl' = crawl
      BY <1>3, EnterFacts
    <2>2. queue # <<>> /\ queue' = Tail(queue) /\ depth' = Head(queue).depth
      BY <2>1 DEF PopPage
    <2>3. /\ Head(queue) = queue[1] /\ 1 \in 1 .. Len(queue)
          /\ \A i \in 1 .. Len(queue') : i + 1 \in 1 .. Len(queue) /\ queue'[i] = queue[i + 1]
      BY <2>1, <2>2, PopFacts DEF CrawlInv
    <2>4. \A p : Links(p) \subseteq Links(p)'
      <3>1. \A p : p \notin pages => Links(p) = {}
        BY DEF Links, CrawlInv, CrawlTypeOK
      <3> QED
        BY <1>3, <3>1
    <2> QED
      BY <2>1, <2>2, <2>3, <2>4 DEF Grows
  <1>4. ASSUME TakeUrl PROVE Grows
    <2> DEFINE url == Head(toRecord)
    <2>1. /\ toRecord # <<>>
          /\ UNCHANGED <<crawl, pages, depthOf, pageDoc, scriptDoc>>
          /\ IF SameOrigin(url) THEN Enqueue(url) ELSE queue' = queue
      BY <1>4 DEF TakeUrl, looked
    <2>2. /\ Current \in pages /\ depthOf[Current] = depth
          /\ SameOrigin(url) => /\ url \in Urls /\ Canonical(url) \in Links(Current)
                                /\ CrawlAsPage(Canonical(url)) <=> CrawlAsPage(url)
      <3>1. SameOrigin(url) => url \in Urls /\ Canonical(url) \in Found(toRecord)
        BY <2>1, FoundFacts, TypeFacts DEF CrawlInv
      <3> QED
        BY <2>1, <3>1, CanonicalFacts DEF CrawlInv, CrawlTypeOK, WorkOfCurrent
    <2>3. CASE queue' = queue
      BY <1>1, <2>1, <2>3
    <2>4. CASE queue' # queue
      <3> DEFINE item == [url |-> url, depth |-> depth + 1]
      <3>1. /\ SameOrigin(url) /\ depth < crawl.max_depth /\ CrawlAsPage(url)
            /\ queue' = Append(queue, item)
        BY <2>1, <2>4 DEF Enqueue
      <3>2. item \in Items
        BY <2>2, <3>1, TypeFacts DEF Items, CrawlInv
      <3>3. PICK x \in Items : x = item /\ queue' = Append(queue, x)
        BY <3>1, <3>2
      <3>4. /\ queue'[Len(queue) + 1] = item
            /\ \A i \in 1 .. Len(queue) : queue'[i] = queue[i]
            /\ \A i \in 1 .. Len(queue') : i \in 1 .. Len(queue) \/ i = Len(queue) + 1
        BY <2>1, <3>3, PushFacts DEF CrawlInv
      <3>5. item.url = url /\ item.depth = depth + 1
        OBVIOUS
      <3> HIDE DEF item
      <3> QED
        BY <2>1, <2>2, <3>1, <3>4, <3>5, SameLinks DEF Grows
    <2> QED
      BY <2>3, <2>4
  <1>5. ASSUME NEW candidates \in Scripts, FetchScript(candidates) PROVE Grows
    <2>1. /\ TakeLink(TRUE) /\ TRUE \in BOOLEAN
          /\ scriptDoc' = [s \in DOMAIN scriptDoc \cup {Canonical(Head(toRun))} |->
                             IF s = Canonical(Head(toRun)) THEN candidates ELSE scriptDoc[s]]
      BY <1>5 DEF FetchScript
    <2>2. /\ UNCHANGED <<crawl, queue, pages, depthOf, pageDoc>>
          /\ \A p : ScriptsOf(p)' = ScriptsOf(p)
          /\ Canonical(Head(toRun)) \notin scripts
      BY <2>1, TakeLinkFacts
    <2>3. Canonical(Head(toRun)) \notin DOMAIN scriptDoc
      BY <2>2 DEF CrawlInv, CrawlTypeOK
    <2>4. /\ DOMAIN scriptDoc \subseteq DOMAIN scriptDoc'
          /\ \A s \in DOMAIN scriptDoc : scriptDoc'[s] = scriptDoc[s]
      BY <2>1, <2>3
    <2>5. \A p : Links(p) \subseteq Links(p)'
      BY <2>2, <2>4 DEF Links
    <2>6. pages' = pages /\ queue' = queue
      BY <2>2
    <2> QED
      BY <2>2, <2>5, <2>6 DEF Grows
  <1>6. CASE Exhaust
    BY <1>1, <1>6 DEF Exhaust, looked
  <1>7. CASE StopAtLimit
    <2>1. Cardinality(pages) >= 1
      <3>1. MaxPages >= 1
        BY TypeFacts DEF MaxPages, CrawlInv
      <3>2. MaxPages \in Nat /\ Cardinality(pages) \in Nat
        BY TypeFacts, FS_CardinalityType DEF MaxPages, CrawlInv, Bounded
      <3> QED
        BY <1>7, <3>1, <3>2 DEF StopAtLimit
    <2>2. pages # {}
      BY <2>1, FS_EmptySet
    <2> QED
      BY <1>2, <1>7, <2>2 DEF StopAtLimit, looked
  <1>8. CASE SkipPage
    <2>1. PopPage(FALSE) /\ UNCHANGED <<pages, toRecord, toRun, depthOf, pageDoc>>
      BY <1>8 DEF SkipPage
    <2>2. /\ queue # <<>> /\ queue' = Tail(queue) /\ pages # {}
          /\ UNCHANGED <<crawl, pages, depthOf, pageDoc, scriptDoc>>
      BY <2>1 DEF PopPage
    <2> QED
      BY <1>2, <2>2
  <1>9. CASE FailPage
    <2>1. EnterPage /\ UNCHANGED <<pageDoc, scriptDoc>>
      BY <1>9 DEF FailPage, EnterPage, PopPage
    <2> QED
      BY <1>3, <2>1, SameLinks
  <1>10. ASSUME NEW doc \in Documents, NEW rendered \in BOOLEAN, VisitPage(doc, rendered) PROVE Grows
    <2>1. EnterPage /\ \A p \in pages : Links(p)' = Links(p)
      BY <1>10, VisitFacts DEF VisitPage
    <2> QED
      BY <1>3, <2>1
  <1>11. CASE SkipLink \/ FailScript
    <2>1. UNCHANGED <<crawl, queue, pages, depthOf, pageDoc, scriptDoc>>
      BY <1>11 DEF SkipLink, FailScript, TakeLink
    <2> QED
      BY <1>1, <2>1
  <1>12. CASE UNCHANGED crawlVars
    BY <1>1, <1>12 DEF crawlVars, looked
  <1> QED
    BY <1>4, <1>5, <1>6, <1>7, <1>8, <1>9, <1>10, <1>11, <1>12 DEF CrawlNext

LEMMA ReachableStep == CrawlInv /\ OnlyReachable /\ [CrawlNext]_crawlVars => OnlyReachable'
PROOF
  <1> SUFFICES ASSUME CrawlInv, OnlyReachable, [CrawlNext]_crawlVars PROVE OnlyReachable'
    OBVIOUS
  <1>1. crawl' = crawl /\ \A p : Links(p) \subseteq Links(p)'
    BY StepGrows DEF Grows
  <1>2. \A R : Closed(R)' => Closed(R)
    BY <1>1 DEF Closed
  <1>3. ASSUME NEW u, NEW n, ReachableAt(u, n) PROVE ReachableAt(u, n)'
    BY <1>2, <1>3 DEF ReachableAt
  <1>4. ASSUME NEW p \in pages' PROVE ReachableAt(p, depthOf[p])'
    <2>1. ReachableAt(p, depthOf'[p])
      BY StepGrows DEF OnlyReachable, Grows
    <2>2. PICK n : n = depthOf'[p]
      OBVIOUS
    <2>3. ReachableAt(p, n)'
      BY <1>3, <2>1, <2>2
    <2> QED
      BY <2>2, <2>3 DEF ReachableAt
  <1>5. ASSUME NEW i \in 1 .. Len(queue')
        PROVE  ReachableAt(Canonical(queue[i].url), queue[i].depth)'
    <2>1. PICK u, n : u = Canonical(queue'[i].url) /\ n = queue'[i].depth
      OBVIOUS
    <2>2. ReachableAt(u, n)
      <3>1. CASE \E j \in 1 .. Len(queue) : queue'[i] = queue[j]
        BY <2>1, <3>1 DEF OnlyReachable
      <3>2. CASE /\ u \in Links(Current) /\ CrawlAsPage(u)
                 /\ Current \in pages /\ depthOf[Current] = depth /\ depth < crawl.max_depth
                 /\ n = depth + 1
        <4>1. ReachableAt(Current, depth) /\ Current \in Urls /\ depth \in Nat
          BY <3>2, TypeFacts DEF OnlyReachable, CrawlInv
        <4>2. ASSUME NEW R \in SUBSET (Urls \X Nat), Closed(R) PROVE <<u, n>> \in R
          <5>1. <<Current, depth>> \in R
            BY <4>1, <4>2 DEF ReachableAt
          <5> QED
            BY <3>2, <4>1, <4>2, <5>1 DEF Closed
        <4> QED
          BY <4>2 DEF ReachableAt
      <3> QED
        BY <2>1, <3>1, <3>2, StepGrows DEF Grows
    <2>3. ReachableAt(u, n)'
      BY <1>3, <2>2
    <2> QED
      BY <2>1, <2>3 DEF ReachableAt
  <1> QED
    BY <1>4, <1>5 DEF OnlyReachable

LEMMA BaseStep == CrawlInv /\ BaseFirst /\ [CrawlNext]_crawlVars => BaseFirst'
PROOF
  <1> SUFFICES ASSUME CrawlInv, BaseFirst, [CrawlNext]_crawlVars PROVE BaseFirst'
    OBVIOUS
  <1> DEFINE first == [url |-> Base, depth |-> 0]
  <1>1. Grows
    BY StepGrows
  <1>2. first.url = Base /\ first.depth = 0
    OBVIOUS
  <1>3. PICK b : b = Canonical(Base)
    OBVIOUS
  <1>4. CASE pages # {}
    <2>1. b \in pages /\ depthOf[b] = 0
      BY <1>3, <1>4 DEF BaseFirst
    <2>2. b \in pages' /\ depthOf'[b] = 0
      BY <1>1, <2>1 DEF Grows
    <2> QED
      BY <1>3, <2>2 DEF BaseFirst, Canonical
  <1>5. CASE pages = {} /\ pages' = {}
    BY <1>1, <1>5 DEF Grows, BaseFirst
  <1>6. CASE pages = {} /\ pages' # {}
    <2>1. queue = <<first>>
      BY <1>6 DEF BaseFirst
    <2> HIDE DEF first
    <2>2. Len(queue) = 1 /\ queue[1] = first
      BY <2>1
    <2>3. PICK p \in pages' : p \notin pages
      BY <1>6
    <2>4. p = b /\ depthOf'[p] = 0
      BY <1>1, <1>2, <1>3, <2>2, <2>3 DEF Grows
    <2> QED
      BY <1>3, <2>3, <2>4 DEF BaseFirst, Canonical
  <1> QED
    BY <1>4, <1>5, <1>6

\* A crawl that came to the end of its queue has visited the pages that can be reached
\* from the base URL within the limit on depth, and no others (run_browser_crawl).
THEOREM CrawlIsComplete == CrawlSpec => []VisitedIsReachable
PROOF
  <1>1. CrawlInit => OnlyReachable
    <2> SUFFICES ASSUME CrawlInit PROVE OnlyReachable
      OBVIOUS
    <2> DEFINE first == [url |-> Base, depth |-> 0]
    <2>1. queue = <<first>> /\ pages = {} /\ first.url = Base /\ first.depth = 0
      BY DEF CrawlInit
    <2> HIDE DEF first
    <2>2. Len(queue) = 1 /\ queue[1] = first
      BY <2>1
    <2>3. ReachableAt(Canonical(Base), 0)
      BY DEF ReachableAt, Closed
    <2> QED
      BY <2>1, <2>2, <2>3 DEF OnlyReachable
  <1>2. CrawlInv /\ OnlyReachable /\ BaseFirst => VisitedIsReachable
    <2> SUFFICES ASSUME CrawlInv, OnlyReachable, BaseFirst, stop = "empty" PROVE pages = Reachable
      BY DEF VisitedIsReachable
    <2>1. pages \subseteq Urls /\ \A p \in pages : depthOf[p] \in Nat
      BY TypeFacts DEF CrawlInv, CrawlTypeOK
    <2>2. pages \subseteq Reachable
      BY <2>1 DEF OnlyReachable, Reachable
    <2>3. ASSUME NEW u \in Reachable PROVE u \in pages
      <3> DEFINE V == {x \in Urls \X Nat : x[1] \in pages /\ depthOf[x[1]] <= x[2]}
      <3>1. /\ Canonical(Base) \in pages
            /\ \A p \in pages : \A v \in Links(p) :
                 CrawlAsPage(v) /\ depthOf[p] < crawl.max_depth =>
                   v \in pages /\ depthOf[v] <= depthOf[p] + 1
        BY CrawlConclusion DEF CrawlExact
      <3>2. depthOf[Canonical(Base)] = 0
        BY <3>1 DEF BaseFirst
      <3>3. Closed(V)
        <4>1. \A p \in Urls, n \in Nat : <<p, n>> \in V <=> p \in pages /\ depthOf[p] <= n
          OBVIOUS
        <4>2. <<Canonical(Base), 0>> \in V
          BY <2>1, <3>1, <3>2, <4>1
        <4>3. ASSUME NEW p \in Urls, NEW n \in Nat, <<p, n>> \in V, n < crawl.max_depth,
                     NEW v \in Links(p), CrawlAsPage(v)
              PROVE  <<v, n + 1>> \in V
          <5>1. p \in pages /\ depthOf[p] <= n /\ depthOf[p] \in Nat /\ crawl.max_depth \in Nat
            BY <2>1, <4>1, <4>3, TypeFacts DEF CrawlInv
          <5>2. v \in pages /\ depthOf[v] <= depthOf[p] + 1 /\ depthOf[v] \in Nat /\ v \in Urls
            BY <2>1, <3>1, <4>3, <5>1
          <5> QED
            BY <4>1, <5>1, <5>2
        <4> HIDE DEF V
        <4> QED
          BY <4>2, <4>3 DEF Closed
      <3> QED
        BY <3>3 DEF Reachable, ReachableAt
    <2> QED
      BY <2>2, <2>3
  <1>3. CrawlInit => BaseFirst
    BY DEF CrawlInit, BaseFirst
  <1>4. CrawlSpec => [](CrawlInv /\ OnlyReachable /\ BaseFirst)
    BY <1>1, <1>3, CrawlInitial, CrawlStep, ReachableStep, BaseStep, PTL DEF CrawlSpec
  <1> QED
    BY <1>2, <1>4, PTL

=============================================================================
