---------------------------- MODULE StatefulScan ----------------------------
(***************************************************************************)
(* run_stateful_dast of cli/src/stateful.rs: the pages of the target and    *)
(* their forms, then the probes with another identifier, then the same page *)
(* with two roles, all with one budget of requests.                         *)
(*                                                                         *)
(* A URL is its origin, its path, and the number in it with the place where *)
(* it stands: "query", "path", "empty" when an empty segment of the path    *)
(* comes first, or "none".                                                  *)
(***************************************************************************)
EXTENDS Naturals, Sequences, FiniteSets, Functions

CONSTANTS
  BaseUrl,       \* the target
  AssetLists,    \* the assets of the earlier stages
  Answers,       \* what a page may answer with
  NoResponse,    \* the request failed
  NoOther,       \* no redirect; no other identifier
  Origins,       \* scheme, host and port
  UrlPaths,
  SensitivePaths,
  Limits,        \* values of min(80, max(concurrency, 1))
  RoleCounts,    \* roles of the session profile
  MaxRequests,   \* MAX_STATEFUL_REQUESTS: 80
  MaxReplay,     \* MAX_REPLAY_REQUESTS: 20
  MaxSignals,    \* 5
  MaxCompared,   \* 8
  MaxNumber      \* u64::MAX

Urls == [origin : Origins, path : UrlPaths, number : 0 .. MaxNumber,
         place : {"query", "path", "empty", "none"}]

InOrigin(url) == url.origin = BaseUrl.origin

\* What a page may show, but for what the probes find.
LeakKinds == {"secret", "stack trace", "personal data", "directory listing"}

Assets == [web : BOOLEAN, network : BOOLEAN, url : Urls]
Forms == [get : BOOLEAN, url : Urls]

ASSUME StatefulAssumption ==
  /\ BaseUrl \in Urls /\ NoOther \notin Urls
  /\ AssetLists \subseteq Seq(Assets)
  /\ Answers \subseteq [moved : {u \in Urls : InOrigin(u)} \cup {NoOther}, status : Nat, length : Nat,
                        leaks : SUBSET LeakKinds, forms : Seq(Forms)]
  /\ NoResponse \notin Answers
  /\ Limits \subseteq Nat /\ RoleCounts \subseteq Nat
  /\ MaxRequests \in Nat \ {0, 1}
  /\ MaxReplay \in Nat /\ MaxSignals \in Nat /\ MaxCompared \in Nat /\ MaxNumber \in Nat

VARIABLES
  assetList,  \* the input
  limit,      \* request_budget at the start
  roles,      \* named roles
  budget,     \* request_budget
  step,       \* "assets", "pages", "numbers", "roles" or "done"
  assets,     \* assets that are left
  replayed,   \* of those taken, the ones only the browser's network log showed
  candidates, \* candidate_urls
  todo,       \* URLs or snapshots that are left
  forms,      \* forms of the current page that are left
  snapshots,  \* the pages that answered
  compared,   \* pages that the roles were compared on
  signals,    \* findings: [kind, url]
  sent        \* history: the requests [for, url, counted]

given == <<assetList, limit, roles>>
listing == <<assets, replayed, candidates>>
statefulVars ==
  <<given, budget, step, listing, todo, forms, snapshots, compared, signals, sent>>

-----------------------------------------------------------------------------

Succeeded(r) == r.status \in 200 .. 299

\* similar_size: at most a quarter of the larger one.
SimilarSize(a, b) ==
  LET larger == IF a > b THEN a ELSE b IN 4 * (larger - (IF a > b THEN b ELSE a)) <= larger

NextNumber(n) == IF n = MaxNumber THEN n ELSE n + 1

\* mutate_numeric_identifier: an empty segment passes for a number and stays.
Mutated(url) ==
  CASE ~InOrigin(url) \/ url.place = "none" -> NoOther
    [] url.place = "empty"                  -> url
    [] OTHER                                -> [url EXCEPT !.number = NextNumber(@)]

Sensitive(url) == url.path \in SensitivePaths

\* inspect_data_exposure and accessible_sensitive_endpoint, for one page.
PageSignals(page) ==
  {[kind |-> leak, url |-> page.url] : leak \in page.leaks}
  \cup (IF Sensitive(page.url) /\ page.status \in 200 .. 399
        THEN {[kind |-> "sensitive", url |-> page.url]} ELSE {})

\* fetch_snapshot: redirects stay in the origin.
Snapshot(url, answer) ==
  [url |-> IF answer.moved = NoOther THEN url ELSE answer.moved,
   status |-> answer.status, length |-> answer.length, leaks |-> answer.leaks]

Request(for, url, counted) == [for |-> for, url |-> url, counted |-> counted]

StatefulInit ==
  /\ assetList \in AssetLists /\ limit \in Limits /\ roles \in RoleCounts
  /\ budget = limit
  /\ step = "assets" /\ assets = assetList /\ replayed = 0 /\ candidates = <<BaseUrl>>
  /\ todo = <<>> /\ forms = <<>> /\ snapshots = <<>> /\ compared = 0
  /\ signals = {} /\ sent = <<>>

-----------------------------------------------------------------------------
(* candidate_urls: every URL of the origin once, at most MaxReplay of those *)
(* that only the browser's network log showed.                              *)

MoreAssets == step = "assets" /\ assets # <<>> /\ Len(candidates) < MaxRequests

Usable(asset) == asset.web /\ (asset.network => replayed < MaxReplay)

PassAsset ==
  /\ MoreAssets /\ ~Usable(Head(assets))
  /\ assets' = Tail(assets)
  /\ UNCHANGED <<given, budget, step, replayed, candidates, todo, forms, snapshots, compared,
                 signals, sent>>

TakeAsset ==
  /\ MoreAssets /\ Usable(Head(assets))
  /\ assets' = Tail(assets)
  /\ replayed' = IF Head(assets).network THEN replayed + 1 ELSE replayed
  /\ candidates' = IF InOrigin(Head(assets).url) /\ Head(assets).url \notin Range(candidates)
                   THEN Append(candidates, Head(assets).url) ELSE candidates
  /\ UNCHANGED <<given, budget, step, todo, forms, snapshots, compared, signals, sent>>

EndAssets ==
  /\ step = "assets" /\ ~MoreAssets
  /\ step' = "pages" /\ todo' = candidates
  /\ UNCHANGED <<given, budget, listing, forms, snapshots, compared, signals, sent>>

-----------------------------------------------------------------------------

FetchPage(answer) ==
  /\ step = "pages" /\ forms = <<>> /\ todo # <<>> /\ budget > 0
  /\ budget' = budget - 1
  /\ todo' = Tail(todo)
  /\ sent' = Append(sent, Request("page", Head(todo), TRUE))
  /\ IF answer = NoResponse THEN UNCHANGED <<forms, snapshots, signals>>
     ELSE LET page == Snapshot(Head(todo), answer)
          IN  /\ forms' = answer.forms
              /\ snapshots' = Append(snapshots, page)
              /\ signals' = signals \cup PageSignals(page)
  /\ UNCHANGED <<given, step, listing, compared>>

Probed(form) == form.get /\ budget > 0

\* probe_get_form_reflection; only a finding counts against the budget.
ProbeForm(reflected) ==
  /\ forms # <<>> /\ Probed(Head(forms))
  /\ sent' = Append(sent, Request("form", Head(forms).url, reflected))
  /\ IF reflected
     THEN /\ budget' = budget - 1
          /\ signals' = signals \cup {[kind |-> "reflection", url |-> Head(forms).url]}
     ELSE UNCHANGED <<budget, signals>>
  /\ forms' = Tail(forms)
  /\ UNCHANGED <<given, step, listing, todo, snapshots, compared>>

PassForm ==
  /\ forms # <<>> /\ ~Probed(Head(forms))
  /\ forms' = Tail(forms)
  /\ UNCHANGED <<given, budget, step, listing, todo, snapshots, compared, signals, sent>>

EndPages ==
  /\ step = "pages" /\ forms = <<>>
  /\ todo = <<>> \/ budget = 0
  /\ step' = "numbers" /\ todo' = snapshots
  /\ UNCHANGED <<given, budget, listing, forms, snapshots, compared, signals, sent>>

SignalsOf(kind) == {s \in signals : s.kind = kind}

Tried == {sent[i].url : i \in {j \in DOMAIN sent : sent[j].for = "number"}}

MayMutate == step = "numbers" /\ todo # <<>> /\ budget > 0
             /\ Cardinality(SignalsOf("number")) < MaxSignals

\* The snapshot has no number in its URL, or the result was tried before.
PassNumber ==
  /\ MayMutate
  /\ Mutated(Head(todo).url) \in Tried \cup {NoOther}
  /\ todo' = Tail(todo)
  /\ UNCHANGED <<given, budget, step, listing, forms, snapshots, compared, signals, sent>>

TryNumber(answer) ==
  /\ MayMutate
  /\ LET url == Mutated(Head(todo).url)
     IN  /\ url \notin Tried \cup {NoOther}
         /\ sent' = Append(sent, Request("number", url, TRUE))
  /\ budget' = budget - 1
  /\ todo' = Tail(todo)
  /\ signals' = signals \cup
       (IF /\ answer # NoResponse /\ Succeeded(answer) /\ Succeeded(Head(todo))
           /\ SimilarSize(Head(todo).length, answer.length)
        THEN {[kind |-> "number", url |-> Head(todo).url]} ELSE {})
  /\ UNCHANGED <<given, step, listing, forms, snapshots, compared>>

EndNumbers ==
  /\ step = "numbers" /\ ~MayMutate
  /\ step' = "roles" /\ todo' = snapshots
  /\ UNCHANGED <<given, budget, listing, forms, snapshots, compared, signals, sent>>

Worth(page) == Sensitive(page.url) \/ page.url.place = "query"

MayCompare == step = "roles" /\ todo # <<>> /\ roles >= 2 /\ compared < MaxCompared /\ budget >= 2

\* The roles are not compared on this page.
PassPage ==
  /\ MayCompare /\ ~Worth(Head(todo))
  /\ todo' = Tail(todo)
  /\ UNCHANGED <<given, budget, step, listing, forms, snapshots, compared, signals, sent>>

RoleRequest == Request("role", Head(todo).url, TRUE)

\* Faulty variant: one request is enough to go on.
CompareRolesOneLeft(left, right) ==
  /\ step = "roles" /\ todo # <<>> /\ roles >= 2 /\ compared < MaxCompared /\ budget >= 1
  /\ Worth(Head(todo))
  /\ budget' = IF budget < 2 THEN 0 ELSE budget - 2
  /\ todo' = Tail(todo) /\ compared' = compared + 1
  /\ sent' = Append(Append(sent, RoleRequest), RoleRequest)
  /\ UNCHANGED <<given, step, listing, forms, snapshots, signals>>

\* run_multi_role_differential: both roles ask for the page.
CompareRoles(left, right) ==
  /\ MayCompare /\ Worth(Head(todo))
  /\ budget' = budget - 2
  /\ todo' = Tail(todo) /\ compared' = compared + 1
  /\ sent' = Append(Append(sent, RoleRequest), RoleRequest)
  /\ signals' = signals \cup
       (IF /\ NoResponse \notin {left, right} /\ Succeeded(left) /\ Succeeded(right)
           /\ SimilarSize(left.length, right.length)
        THEN {[kind |-> "role", url |-> Head(todo).url]} ELSE {})
  /\ UNCHANGED <<given, step, listing, forms, snapshots>>

EndRoles ==
  /\ step = "roles" /\ ~MayCompare
  /\ step' = "done"
  /\ UNCHANGED <<given, budget, listing, todo, forms, snapshots, compared, signals, sent>>

StatefulNext ==
  \/ PassAsset \/ TakeAsset \/ EndAssets
  \/ \E answer \in Answers \cup {NoResponse} :
       FetchPage(answer) \/ TryNumber(answer)
  \/ \E reflected \in BOOLEAN : ProbeForm(reflected)
  \/ PassForm \/ EndPages \/ PassNumber \/ EndNumbers \/ PassPage \/ EndRoles
  \/ \E left, right \in Answers \cup {NoResponse} : CompareRoles(left, right)

StatefulSpec == StatefulInit /\ [][StatefulNext]_statefulVars

-----------------------------------------------------------------------------

Pages == [url : {u \in Urls : InOrigin(u)}, status : Nat, length : Nat, leaks : SUBSET LeakKinds]
Requests == [for : {"page", "form", "number", "role"}, url : Urls, counted : BOOLEAN]
Signals == [kind : LeakKinds \cup {"sensitive", "reflection", "number", "role"}, url : Urls]

StatefulTypeOK ==
  /\ assetList \in AssetLists /\ limit \in Limits /\ roles \in RoleCounts
  /\ budget \in 0 .. limit
  /\ step \in {"assets", "pages", "numbers", "roles", "done"}
  /\ assets \in Seq(Assets) /\ replayed \in Nat /\ candidates \in Seq({u \in Urls : InOrigin(u)})
  /\ step = "assets" => todo = <<>>
  /\ step = "pages" => todo \in Seq({u \in Urls : InOrigin(u)})
  /\ step \in {"numbers", "roles", "done"} => todo \in Seq(Pages)
  /\ forms \in Seq(Forms) /\ snapshots \in Seq(Pages) /\ compared \in 0 .. MaxCompared
  /\ signals \subseteq Signals /\ sent \in Seq(Requests)

Counted == {i \in 1 .. Len(sent) : sent[i].counted}

IsSent(for, url) == \E i \in 1 .. Len(sent) : sent[i].for = for /\ sent[i].url = url

Stage(for) == CASE for = "number" -> 2 [] for = "role" -> 3 [] OTHER -> 1

\* The asset is a candidate, or of no use.
IsListed(asset) ==
  asset.web /\ InOrigin(asset.url) =>
    asset.url \in Range(candidates) \/ (asset.network /\ replayed >= MaxReplay)

\* The budget is exact on every path: what was counted and what is left is the
\* limit; pages come before identifiers before roles; no page and no changed
\* identifier is asked for twice; all but the forms stay in the origin; a signal has
\* the request it tells of; and a scan that ends has asked for every candidate or
\* spent everything, the candidates being every URL of the assets, each once, up to
\* their limits (run_stateful_dast).
StatefulExact ==
  /\ Cardinality(Counted) + budget = limit
  /\ \A i, j \in 1 .. Len(sent) :
       /\ i < j => Stage(sent[i].for) <= Stage(sent[j].for)
       /\ sent[i].for \in {"page", "number"} /\ sent[i].for = sent[j].for /\ i # j =>
            sent[i].url # sent[j].url
  /\ \A i \in 1 .. Len(sent) : sent[i].for # "form" => InOrigin(sent[i].url)
  /\ Cardinality(SignalsOf("number")) <= MaxSignals
  /\ \A s \in signals :
       /\ s.kind = "number" => IsSent("number", Mutated(s.url))
       /\ s.kind \in {"role", "reflection"} =>
            IsSent(IF s.kind = "role" THEN "role" ELSE "form", s.url)
  /\ IsInjective(candidates) /\ Len(candidates) <= MaxRequests
  /\ step # "assets" =>
       Len(candidates) = MaxRequests \/ \A i \in 1 .. Len(assetList) : IsListed(assetList[i])
  /\ step = "done" =>
       budget = 0 \/ \A i \in 1 .. Len(candidates) : IsSent("page", candidates[i])

=============================================================================
