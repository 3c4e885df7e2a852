---------------------------- MODULE BrowserCrawl ----------------------------
(***************************************************************************)
(* The crawl of discovery/src/browser.rs: pages are fetched breadth first  *)
(* from the base URL, the scripts of a page after the page, and every URL  *)
(* of the same origin is recorded as an asset.                             *)
(*                                                                         *)
(* A URL is its origin, its path, whether it has a query (the token of a   *)
(* form) and whether it has a fragment.  What a page or a script holds is  *)
(* chosen when it is fetched, which happens at most once.  The loops over  *)
(* the URLs of a page and over those of a script are one action per URL.   *)
(***************************************************************************)
EXTENDS Naturals, Sequences, FiniteSets, Functions

CONSTANTS
  Base,         \* the URL the crawl starts from
  NoUrl,        \* a candidate that is no URL
  Origins,      \* scheme, host and port
  PathKind,     \* "page", "script" or "media", for every path
  Destructive,  \* the paths that log out, delete, remove...
  Documents,    \* the pages a server may answer with
  Scripts,      \* the strings that a script may hold
  CrawlConfigs  \* browser_crawl_max_pages, _max_depth, _render_js, session

Urls == [origin : Origins, path : DOMAIN PathKind, query : BOOLEAN, fragment : BOOLEAN]

CandidateTexts == [form : {"ignored", "route", "relative", "absolute"}, url : Urls]

ASSUME CrawlAssumption ==
  /\ Base \in Urls /\ NoUrl \notin Urls
  /\ Documents \subseteq
       [links : Seq(CandidateTexts), strings : Seq(CandidateTexts),
        forms : Seq([action : CandidateTexts, csrf : BOOLEAN]), network : Seq(Urls)]
  /\ Scripts \subseteq Seq(CandidateTexts)
  /\ CrawlConfigs \subseteq [max_pages : Nat, max_depth : Nat, render : BOOLEAN, session : BOOLEAN]

VARIABLES
  crawl,       \* the configuration
  stop,        \* why the crawl stopped: "empty", "limit", or "no" while it runs
  queue,       \* pages to visit, with their depth
  pages,       \* visited_pages
  scripts,     \* visited_scripts
  assets,      \* the assets in the order of their discovery
  page,        \* page_url, the page that was taken from the queue
  depth,       \* its depth
  toRecord,    \* the URLs of the page or of a script of it that are not recorded yet
  toRun,       \* the links of the page that are not tried as scripts yet
  depthOf,     \* history: the depth at which each page was visited
  pageDoc,     \* history: what each fetched page held
  scriptDoc    \* history: what each fetched script held

looked == <<depthOf, pageDoc, scriptDoc>>
crawlVars == <<crawl, stop, queue, pages, scripts, assets, page, depth, toRecord, toRun, looked>>

-----------------------------------------------------------------------------

Canonical(url) == [url EXCEPT !.fragment = FALSE]

SameOrigin(url) == url # NoUrl /\ url.origin = Base.origin

IsScript(url) == PathKind[url.path] = "script"

CrawlAsPage(url) == PathKind[url.path] = "page"

\* A candidate is a text without a URL in it (mailto:, data:, ...), a route
\* of the application (#/users), which is taken from the root of the origin, a
\* relative URL or an absolute one.
Normalize(base, candidate) ==
  CASE candidate.form = "ignored"  -> NoUrl
    [] candidate.form = "route"    ->
         [candidate.url EXCEPT !.origin = base.origin, !.query = FALSE, !.fragment = FALSE]
    [] candidate.form = "relative" -> [candidate.url EXCEPT !.origin = base.origin]
    [] candidate.form = "absolute" -> candidate.url

\* The action of a form; the hidden token becomes a query.
FormCandidate(form) ==
  IF form.csrf THEN [form.action EXCEPT !.url.query = TRUE] ELSE form.action

\* The candidates of a page: its links, the strings of its inline scripts and
\* the actions of its forms.
Candidates(doc) ==
  doc.links \o doc.strings \o [i \in DOMAIN doc.forms |-> FormCandidate(doc.forms[i])]

Resolve(url, candidates) == [i \in DOMAIN candidates |-> Normalize(url, candidates[i])]

\* Only a page without session headers is rendered, and only a rendered page
\* has a network log.
Renders == crawl.render /\ ~crawl.session

NetworkUrls(doc, rendered) == IF rendered THEN doc.network ELSE <<>>

\* The URLs of a page, but for those of its scripts.
PageUrls(url, doc, rendered) == NetworkUrls(doc, rendered) \o Resolve(url, Candidates(doc))

-----------------------------------------------------------------------------

CrawlInit ==
  /\ crawl \in CrawlConfigs /\ stop = "no"
  /\ queue = <<[url |-> Base, depth |-> 0]>>
  /\ pages = {} /\ scripts = {} /\ assets = <<>>
  /\ page = Base /\ depth = 0 /\ toRecord = <<>> /\ toRun = <<>>
  /\ depthOf = << >> /\ pageDoc = << >> /\ scriptDoc = << >>

Crawling == stop = "no" /\ toRecord = <<>> /\ toRun = <<>>

MaxPages == IF crawl.max_pages = 0 THEN 1 ELSE crawl.max_pages

\* The queue is empty.
Exhaust ==
  /\ Crawling /\ queue = <<>>
  /\ stop' = "empty"
  /\ UNCHANGED <<crawl, queue, pages, scripts, assets, page, depth, toRecord, toRun, looked>>

StopAtLimit ==
  /\ Crawling /\ queue # <<>>
  /\ Cardinality(pages) >= MaxPages
  /\ stop' = "limit" /\ queue' = Tail(queue)
  /\ UNCHANGED <<crawl, pages, scripts, assets, page, depth, toRecord, toRun, looked>>

\* The page at the head of the queue comes up and is new or not.
PopPage(isNew) ==
  /\ Crawling /\ queue # <<>>
  /\ Cardinality(pages) < MaxPages
  /\ isNew <=> Canonical(Head(queue).url) \notin pages
  /\ page' = Head(queue).url /\ depth' = Head(queue).depth
  /\ queue' = Tail(queue)
  /\ UNCHANGED <<crawl, stop, scripts, assets, scriptDoc>>

SkipPage ==
  /\ PopPage(FALSE)
  /\ UNCHANGED <<pages, toRecord, toRun, depthOf, pageDoc>>

EnterPage ==
  /\ PopPage(TRUE)
  /\ pages' = pages \cup {Canonical(page')}
  /\ depthOf' = [p \in pages' |-> IF p = Canonical(page') THEN depth' ELSE depthOf[p]]

\* The request fails or is answered with an error.
FailPage ==
  /\ EnterPage
  /\ UNCHANGED <<toRecord, toRun, pageDoc>>

VisitPage(doc, rendered) ==
  /\ EnterPage
  /\ rendered => Renders
  /\ toRecord' = PageUrls(page', doc, rendered)
  /\ toRun' = Resolve(page', doc.links)
  /\ pageDoc' = [p \in DOMAIN pageDoc \cup {Canonical(page')} |->
                   IF p = Canonical(page') THEN [doc |-> doc, rendered |-> rendered]
                   ELSE pageDoc[p]]

\* record_url_if_safe
RecordUrl(url) ==
  assets' = IF url.path \in Destructive \/ Canonical(url) \in Range(assets)
            THEN assets ELSE Append(assets, Canonical(url))

\* Faulty variant of Enqueue: the newest page first, a depth-first crawl.
EnqueueFirst(url) ==
  queue' = IF depth < crawl.max_depth /\ CrawlAsPage(url)
           THEN <<[url |-> url, depth |-> depth + 1]>> \o queue ELSE queue

\* A page within the limit is visited later.
Enqueue(url) ==
  queue' = IF depth < crawl.max_depth /\ CrawlAsPage(url)
           THEN Append(queue, [url |-> url, depth |-> depth + 1]) ELSE queue

\* The next URL of a page or a script.
TakeUrl ==
  /\ toRecord # <<>>
  /\ IF SameOrigin(Head(toRecord))
     THEN RecordUrl(Head(toRecord)) /\ Enqueue(Head(toRecord))
     ELSE UNCHANGED <<assets, queue>>
  /\ toRecord' = Tail(toRecord)
  /\ UNCHANGED <<crawl, stop, pages, scripts, page, depth, toRun, looked>>

\* The next link of the page is a script, new or visited, or nothing to run.
TakeLink(isNew) ==
  /\ toRecord = <<>> /\ toRun # <<>>
  /\ isNew <=> /\ SameOrigin(Head(toRun)) /\ IsScript(Head(toRun))
               /\ Canonical(Head(toRun)) \notin scripts
  /\ toRun' = Tail(toRun)
  /\ UNCHANGED <<crawl, stop, queue, pages, assets, page, depth, depthOf, pageDoc>>

SkipLink == TakeLink(FALSE) /\ UNCHANGED <<scripts, toRecord, scriptDoc>>

FailScript ==
  /\ TakeLink(TRUE)
  /\ scripts' = scripts \cup {Canonical(Head(toRun))}
  /\ UNCHANGED <<toRecord, scriptDoc>>

FetchScript(candidates) ==
  /\ TakeLink(TRUE)
  /\ scripts' = scripts \cup {Canonical(Head(toRun))}
  /\ toRecord' = Resolve(Head(toRun), candidates)
  /\ scriptDoc' = [s \in DOMAIN scriptDoc \cup {Canonical(Head(toRun))} |->
                     IF s = Canonical(Head(toRun)) THEN candidates ELSE scriptDoc[s]]

CrawlNext ==
  \/ Exhaust \/ StopAtLimit
  \/ SkipPage \/ FailPage
  \/ \E doc \in Documents, rendered \in BOOLEAN : VisitPage(doc, rendered)
  \/ TakeUrl
  \/ SkipLink \/ FailScript
  \/ \E candidates \in Scripts : FetchScript(candidates)

CrawlSpec == CrawlInit /\ [][CrawlNext]_crawlVars

-----------------------------------------------------------------------------

CrawlTypeOK ==
  /\ crawl \in CrawlConfigs /\ stop \in {"no", "empty", "limit"}
  /\ queue \in Seq([url : Urls, depth : 0 .. crawl.max_depth])
  /\ pages \subseteq Urls /\ scripts \subseteq Urls /\ assets \in Seq(Urls)
  /\ page \in Urls /\ depth \in 0 .. crawl.max_depth
  /\ toRecord \in Seq(Urls \cup {NoUrl}) /\ toRun \in Seq(Urls \cup {NoUrl})
  /\ depthOf \in [pages -> 0 .. crawl.max_depth]
  /\ DOMAIN pageDoc \subseteq pages
  /\ pageDoc \in [DOMAIN pageDoc -> [doc : Documents, rendered : BOOLEAN]]
  /\ DOMAIN scriptDoc \subseteq scripts /\ scriptDoc \in [DOMAIN scriptDoc -> Scripts]

\* The URLs of the same origin among some.
Found(urls) == {Canonical(u) : u \in {x \in Range(urls) : SameOrigin(x)}}

\* The scripts of a fetched page.
ScriptsOf(p) == {u \in Found(Resolve(p, pageDoc[p].doc.links)) : IsScript(u)}

\* The URLs of the same origin that a page holds, its scripts included.
Links(p) ==
  IF p \notin DOMAIN pageDoc THEN {}
  ELSE Found(PageUrls(p, pageDoc[p].doc, pageDoc[p].rendered))
         \cup UNION {Found(Resolve(s, scriptDoc[s])) : s \in ScriptsOf(p) \cap DOMAIN scriptDoc}

\* u may be visited at depth n.
Reached(u, n) ==
  \/ u = Canonical(Base) /\ n = 0
  \/ CrawlAsPage(u) /\ \E p \in pages : depthOf[p] + 1 = n /\ u \in Links(p)

\* The crawl never leaves its bounds; a page is visited at a depth that a chain of
\* links from the base URL has; and a crawl that was not stopped by the limit on
\* pages has visited the target of every link of its pages down to the limit on
\* depth, none of them deeper than that link makes it, so that what it visited is
\* exactly what can be reached, wherever the links point (no page is seen first too
\* deep, and then not again). It has recorded every URL that it saw once, but for
\* the destructive ones (run_browser_crawl: the queue, the two visited sets and the
\* depth together).
CrawlExact ==
  /\ Cardinality(pages) <= MaxPages
  /\ stop = "limit" => Cardinality(pages) = MaxPages
  /\ IsInjective(assets)
  /\ \A p \in pages : depthOf[p] <= crawl.max_depth /\ Reached(p, depthOf[p])
  /\ stop = "empty" =>
       /\ Canonical(Base) \in pages
       /\ \A p \in pages : \A u \in Links(p) :
            CrawlAsPage(u) /\ depthOf[p] < crawl.max_depth => u \in pages /\ depthOf[u] <= depthOf[p] + 1
       /\ Range(assets) = {u \in UNION {Links(p) : p \in pages} : u.path \notin Destructive}

\* No page that logs out or deletes something is requested ("detect
\* logout/destructive links and skip them by default", TASK.md:1282).
NoDestructiveVisit == \A p \in pages : p.path \notin Destructive

=============================================================================
