-------------------------- MODULE StatefulScanProofs --------------------------
(***************************************************************************)
(* Theorems about StatefulScan: for any assets, any answers and any budget, *)
(* every request is counted on every path, nothing is asked for twice, and  *)
(* what the scan did not ask for is what it had no budget for.              *)
(***************************************************************************)
EXTENDS StatefulScan, SequenceTheorems, FiniteSetTheorems, TLAPS

OriginUrls == {u \in Urls : InOrigin(u)}

\* Of some requests, those that count, and whether one is among them.
Counting(s) == {i \in 1 .. Len(s) : s[i].counted}
In(s, for, url) == \E i \in 1 .. Len(s) : s[i].for = for /\ s[i].url = url

\* Requests that were sent in order, up to a stage, and none of them twice.
InOrder(s, n) ==
  /\ \A i \in 1 .. Len(s) : Stage(s[i].for) <= n /\ (s[i].for # "form" => InOrigin(s[i].url))
  /\ \A i, j \in 1 .. Len(s) :
       /\ i < j => Stage(s[i].for) <= Stage(s[j].for)
       /\ s[i].for \in {"page", "number"} /\ s[i].for = s[j].for /\ i # j => s[i].url # s[j].url

Now == CASE step = "numbers" -> 2 [] step \in {"roles", "done"} -> 3 [] OTHER -> 1

SentExact == InOrder(sent, Now) /\ Cardinality(Counting(sent)) + budget = limit

\* The candidates, while they are listed and after.
CandidatesExact ==
  /\ \A i, j \in 1 .. Len(candidates) : i # j => candidates[i] # candidates[j]
  /\ Len(candidates) <= MaxRequests
  /\ \A i \in 1 .. Len(assetList) :
       \/ IsListed(assetList[i])
       \/ step = "assets" /\ \E k \in 1 .. Len(assets) : assets[k] = assetList[i]
       \/ step # "assets" /\ Len(candidates) = MaxRequests

\* The pages that are left.
PagesLeft ==
  /\ step = "pages" =>
       /\ \A i, j \in 1 .. Len(todo) : i # j => todo[i] # todo[j]
       /\ \A i \in 1 .. Len(todo) : ~In(sent, "page", todo[i])
       /\ \A i \in 1 .. Len(candidates) :
            In(sent, "page", candidates[i]) \/ \E k \in 1 .. Len(todo) : todo[k] = candidates[i]
  /\ step \in {"numbers", "roles", "done"} =>
       budget = 0 \/ \A i \in 1 .. Len(candidates) : In(sent, "page", candidates[i])
  /\ step # "pages" => forms = <<>>
  /\ step = "assets" => sent = <<>>

\* Why a signal was raised.
Told(s, g) ==
  /\ g.kind = "number" => In(s, "number", Mutated(g.url))
  /\ g.kind = "role" => In(s, "role", g.url)
  /\ g.kind = "reflection" => In(s, "form", g.url)

SignalsSound ==
  /\ IsFiniteSet(SignalsOf("number")) /\ Cardinality(SignalsOf("number")) <= MaxSignals
  /\ \A g \in signals : Told(sent, g)

StatefulInv == StatefulTypeOK /\ SentExact /\ CandidatesExact /\ PagesLeft /\ SignalsSound

-----------------------------------------------------------------------------

\* A request that is sent.
LEMMA SendFacts ==
  ASSUME NEW s \in Seq(Requests), NEW r \in Requests
  PROVE  /\ Append(s, r) \in Seq(Requests) /\ Len(Append(s, r)) = Len(s) + 1
         /\ \A i \in 1 .. Len(s) : Append(s, r)[i] = s[i]
         /\ Append(s, r)[Len(s) + 1] = r
         /\ \A i : i \in 1 .. Len(s) + 1 <=> i \in 1 .. Len(s) \/ i = Len(s) + 1
         /\ Len(s) + 1 \notin 1 .. Len(s) /\ Len(s) \in Nat
PROOF
  BY AppendProperties, LenProperties

LEMMA CountFacts ==
  ASSUME NEW s \in Seq(Requests), NEW r \in Requests
  PROVE  /\ IsFiniteSet(Counting(s)) /\ Cardinality(Counting(s)) \in Nat
         /\ Cardinality(Counting(Append(s, r)))
              = IF r.counted THEN Cardinality(Counting(s)) + 1 ELSE Cardinality(Counting(s))
PROOF
  <1>1. IsFiniteSet(Counting(s))
    <2>1. IsFiniteSet(1 .. Len(s)) /\ Counting(s) \in SUBSET (1 .. Len(s))
      BY LenProperties, FS_Interval DEF Counting
    <2> QED
      BY <2>1, FS_Subset
  <1>2. Counting(Append(s, r))
          = IF r.counted THEN Counting(s) \cup {Len(s) + 1} ELSE Counting(s)
    BY SendFacts DEF Counting
  <1>3. Len(s) + 1 \notin Counting(s)
    BY SendFacts DEF Counting
  <1> QED
    BY <1>1, <1>2, <1>3, FS_CardinalityType, FS_AddElement

LEMMA InFacts ==
  ASSUME NEW s \in Seq(Requests), NEW r \in Requests, NEW for, NEW url
  PROVE  In(Append(s, r), for, url) <=> In(s, for, url) \/ (r.for = for /\ r.url = url)
PROOF
  BY SendFacts DEF In

\* A request of the current stage that was not made before.
LEMMA OrderFacts ==
  ASSUME NEW s \in Seq(Requests), NEW r \in Requests, NEW n \in 1 .. 3,
         InOrder(s, n), Stage(r.for) = n, r.for # "form" => InOrigin(r.url),
         r.for \in {"page", "number"} => ~In(s, r.for, r.url)
  PROVE  InOrder(Append(s, r), n)
PROOF
  <1> DEFINE t == Append(s, r)
  <1>1. /\ \A i \in 1 .. Len(s) : t[i] = s[i] /\ s[i] \in Requests
        /\ t[Len(s) + 1] = r /\ Len(s) \in Nat /\ Len(t) = Len(s) + 1
        /\ \A i \in 1 .. Len(t) : i \in 1 .. Len(s) \/ i = Len(s) + 1
    BY SendFacts, ElementOfSeq
  <1> HIDE DEF t
  <1>2. \A i \in 1 .. Len(t) : Stage(t[i].for) <= n /\ (t[i].for # "form" => InOrigin(t[i].url))
    BY <1>1 DEF InOrder
  <1>3. \A i, j \in 1 .. Len(t) : i < j => i \in 1 .. Len(s)
    BY <1>1
  <1>4. \A i, j \in 1 .. Len(t) : i < j => Stage(t[i].for) <= Stage(t[j].for)
    BY <1>1, <1>3 DEF InOrder
  <1>5. ASSUME NEW i \in 1 .. Len(t), NEW j \in 1 .. Len(t), i < j,
               t[i].for \in {"page", "number"}, t[i].for = t[j].for
        PROVE  t[i].url # t[j].url
    <2>1. i \in 1 .. Len(s)
      BY <1>3, <1>5
    <2>2. CASE j \in 1 .. Len(s)
      BY <1>1, <1>5, <2>1, <2>2 DEF InOrder
    <2>3. CASE j = Len(s) + 1
      BY <1>1, <1>5, <2>1, <2>3 DEF In
    <2> QED
      BY <1>1, <2>2, <2>3
  <1>6. \A i, j \in 1 .. Len(t) :
          t[i].for \in {"page", "number"} /\ t[i].for = t[j].for /\ i # j => t[i].url # t[j].url
    <2> SUFFICES ASSUME NEW i \in 1 .. Len(t), NEW j \in 1 .. Len(t),
                        t[i].for \in {"page", "number"}, t[i].for = t[j].for, i # j
                 PROVE  t[i].url # t[j].url
      OBVIOUS
    <2>1. i < j \/ j < i
      OBVIOUS
    <2> QED
      BY <1>5, <2>1
  <1>7. InOrder(t, n)
    BY <1>2, <1>4, <1>6 DEF InOrder
  <1> QED
    BY <1>7 DEF t

LEMMA LaterFacts ==
  ASSUME NEW s \in Seq(Requests), NEW n \in 1 .. 3, NEW m \in 1 .. 3, n <= m, InOrder(s, n)
  PROVE  InOrder(s, m)
PROOF
  BY DEF InOrder, Stage

\* What is left after the first.
LEMMA NextFacts ==
  ASSUME NEW S, NEW s \in Seq(S), s # <<>>
  PROVE  /\ Head(s) \in S /\ Tail(s) \in Seq(S) /\ Len(Tail(s)) = Len(s) - 1
         /\ Head(s) = s[1] /\ 1 \in 1 .. Len(s) /\ Len(s) \in Nat
         /\ \A i \in 1 .. Len(Tail(s)) : i + 1 \in 1 .. Len(s) /\ Tail(s)[i] = s[i + 1]
         /\ \A i \in 1 .. Len(s) : i # 1 => i - 1 \in 1 .. Len(Tail(s)) /\ Tail(s)[i - 1] = s[i]
PROOF
  <1>1. /\ Head(s) \in S /\ Tail(s) \in Seq(S) /\ Len(Tail(s)) = Len(s) - 1
        /\ \A i \in 1 .. Len(Tail(s)) : Tail(s)[i] = s[i + 1]
    BY HeadTailProperties
  <1>2. Len(s) \in Nat /\ Len(s) > 0 /\ Head(s) = s[1]
    BY LenProperties, EmptySeq
  <1> QED
    BY <1>1, <1>2

-----------------------------------------------------------------------------
(* The parts of the invariant that a kind of step keeps.                    *)

\* A request of the current step.
LEMMA SentKept ==
  ASSUME SentExact, StatefulTypeOK, NEW r \in Requests, sent' = Append(sent, r),
         step' = step, limit' = limit, budget' = IF r.counted THEN budget - 1 ELSE budget,
         Stage(r.for) = Now, r.for # "form" => InOrigin(r.url),
         r.for \in {"page", "number"} => ~In(sent, r.for, r.url)
  PROVE  SentExact'
PROOF
  <1>1. sent \in Seq(Requests) /\ Now \in 1 .. 3 /\ budget \in Int /\ limit \in Int
    BY StatefulAssumption DEF StatefulTypeOK, Now
  <1>2. PICK t : t = sent' /\ t = Append(sent, r)
    OBVIOUS
  <1>3. InOrder(t, Now)
    BY <1>1, <1>2, OrderFacts DEF SentExact
  <1>4. /\ Cardinality(Counting(t)) = IF r.counted THEN Cardinality(Counting(sent)) + 1
                                      ELSE Cardinality(Counting(sent))
        /\ Cardinality(Counting(sent)) \in Nat
    BY <1>1, <1>2, CountFacts
  <1>5. Cardinality(Counting(t)) + budget' = limit'
    BY <1>1, <1>4 DEF SentExact
  <1>6. Now' = Now
    BY DEF Now
  <1> QED
    BY <1>2, <1>3, <1>5, <1>6 DEF SentExact

\* The next step begins.
LEMMA SentLater ==
  ASSUME SentExact, StatefulTypeOK, UNCHANGED <<sent, limit, budget>>, Now' \in 1 .. 3, Now <= Now'
  PROVE  SentExact'
PROOF
  <1>1. sent \in Seq(Requests) /\ Now \in 1 .. 3
    BY DEF StatefulTypeOK, Now
  <1>2. PICK n : n = Now'
    OBVIOUS
  <1>3. InOrder(sent, n)
    BY <1>1, <1>2, LaterFacts DEF SentExact
  <1> QED
    BY <1>2, <1>3 DEF SentExact

LEMMA SentSame ==
  ASSUME SentExact, UNCHANGED <<sent, limit, budget, step>>
  PROVE  SentExact'
PROOF
  BY DEF SentExact, Now

LEMMA CandidatesKept ==
  ASSUME CandidatesExact, UNCHANGED <<assetList, listing>>, step # "assets", step' # "assets"
  PROVE  CandidatesExact'
PROOF
  BY DEF CandidatesExact, listing, IsListed

\* A signal is told of by the requests that were sent.
LEMMA ToldFacts ==
  ASSUME NEW s \in Seq(Requests), NEW r \in Requests, NEW g, Told(s, g)
  PROVE  Told(Append(s, r), g)
PROOF
  BY InFacts DEF Told

LEMMA SignalsKept ==
  ASSUME SignalsSound, NEW new, signals' = signals \cup new,
         \A g \in new : g.kind # "number" /\ Told(sent, g)',
         \A g \in signals : Told(sent, g)'
  PROVE  SignalsSound'
PROOF
  <1>1. SignalsOf("number")' = SignalsOf("number")
    BY DEF SignalsOf
  <1> QED
    BY <1>1 DEF SignalsSound

LEMMA SignalsSame ==
  ASSUME SignalsSound, UNCHANGED <<signals, sent>>
  PROVE  SignalsSound'
PROOF
  BY DEF SignalsSound, SignalsOf

LEMMA MutatedFacts ==
  ASSUME NEW url \in Urls, InOrigin(url), Mutated(url) # NoOther
  PROVE  Mutated(url) \in Urls /\ InOrigin(Mutated(url))
PROOF
  BY StatefulAssumption DEF Mutated, Urls, InOrigin, NextNumber

\* A page is of the origin, redirected or not.
LEMMA SnapshotFacts ==
  ASSUME NEW url \in OriginUrls, NEW answer \in Answers
  PROVE  /\ Snapshot(url, answer) \in Pages
         /\ PageSignals(Snapshot(url, answer)) \subseteq Signals
         /\ \A g \in PageSignals(Snapshot(url, answer)) : g.kind \in LeakKinds \cup {"sensitive"}
         /\ answer.forms \in Seq(Forms)
PROOF
  <1>1. /\ answer.moved \in OriginUrls \cup {NoOther} /\ answer.status \in Nat
        /\ answer.length \in Nat /\ answer.leaks \subseteq LeakKinds /\ answer.forms \in Seq(Forms)
    BY StatefulAssumption DEF OriginUrls
  <1> DEFINE p == Snapshot(url, answer)
  <1>2. p \in Pages /\ p.url \in Urls /\ p.leaks \subseteq LeakKinds
    BY <1>1 DEF Snapshot, Pages, OriginUrls
  <1> HIDE DEF p
  <1>3. /\ PageSignals(p) \subseteq Signals
        /\ \A g \in PageSignals(p) : g.kind \in LeakKinds \cup {"sensitive"}
    BY <1>2 DEF PageSignals, Signals
  <1> QED
    BY <1>1, <1>2, <1>3 DEF p

-----------------------------------------------------------------------------
(* The candidates.                                                          *)

LEMMA PassAssetKeeps ==
  ASSUME StatefulInv, PassAsset
  PROVE  StatefulInv'
PROOF
  <1>1. /\ step = "assets" /\ assets # <<>> /\ ~Usable(Head(assets)) /\ assets' = Tail(assets)
        /\ UNCHANGED <<assetList, limit, roles, budget, step, replayed, candidates, todo, forms,
                       snapshots, compared, signals, sent>>
    BY DEF PassAsset, MoreAssets, given
  <1>2. /\ Head(assets) \in Assets /\ Tail(assets) \in Seq(Assets) /\ Head(assets) = assets[1]
        /\ \A i \in 1 .. Len(assets) : i # 1 =>
             i - 1 \in 1 .. Len(Tail(assets)) /\ Tail(assets)[i - 1] = assets[i]
    BY <1>1, NextFacts DEF StatefulInv, StatefulTypeOK
  <1>3. StatefulTypeOK'
    BY <1>1, <1>2 DEF StatefulInv, StatefulTypeOK
  <1>4. CandidatesExact'
    <2>1. ASSUME NEW i \in 1 .. Len(assetList), ~IsListed(assetList[i])
          PROVE  \E k \in 1 .. Len(assets') : assets'[k] = assetList[i]
      <3>1. PICK k \in 1 .. Len(assets) : assets[k] = assetList[i]
        BY <1>1, <2>1 DEF StatefulInv, CandidatesExact
      <3>2. k # 1
        BY <1>1, <1>2, <2>1, <3>1, StatefulAssumption
        DEF Usable, IsListed, StatefulInv, StatefulTypeOK, Assets
      <3> QED
        BY <1>1, <1>2, <3>1, <3>2
    <2>2. \A a : IsListed(a)' <=> IsListed(a)
      BY <1>1 DEF IsListed
    <2> QED
      BY <1>1, <2>1, <2>2 DEF StatefulInv, CandidatesExact
  <1> QED
    BY <1>1, <1>3, <1>4, SentSame, SignalsSame DEF StatefulInv, PagesLeft

LEMMA TakeAssetKeeps ==
  ASSUME StatefulInv, TakeAsset
  PROVE  StatefulInv'
PROOF
  <1> DEFINE url == Head(assets).url
  <1>1. /\ step = "assets" /\ assets # <<>> /\ Len(candidates) < MaxRequests
        /\ Usable(Head(assets)) /\ assets' = Tail(assets)
        /\ replayed' = IF Head(assets).network THEN replayed + 1 ELSE replayed
        /\ candidates' = IF InOrigin(url) /\ url \notin Range(candidates)
                         THEN Append(candidates, url) ELSE candidates
        /\ UNCHANGED <<assetList, limit, roles, budget, step, todo, forms, snapshots, compared,
                       signals, sent>>
    BY DEF TakeAsset, MoreAssets, given
  <1>2. /\ Head(assets) \in Assets /\ Tail(assets) \in Seq(Assets) /\ Head(assets) = assets[1]
        /\ \A i \in 1 .. Len(assets) : i # 1 =>
             i - 1 \in 1 .. Len(Tail(assets)) /\ Tail(assets)[i - 1] = assets[i]
    BY <1>1, NextFacts DEF StatefulInv, StatefulTypeOK
  <1>3. /\ candidates \in Seq(OriginUrls) /\ Len(candidates) \in Nat /\ replayed \in Nat
        /\ MaxRequests \in Nat /\ MaxReplay \in Nat /\ DOMAIN candidates = 1 .. Len(candidates)
    BY StatefulAssumption, LenProperties DEF StatefulInv, StatefulTypeOK, OriginUrls
  <1>4. PICK c : c = candidates'
    OBVIOUS
  <1>5. /\ c \in Seq(OriginUrls) /\ Len(c) <= MaxRequests /\ Range(candidates) \subseteq Range(c)
        /\ InOrigin(url) => url \in Range(c)
        /\ \A i, j \in 1 .. Len(c) : i # j => c[i] # c[j]
    <2>1. CASE InOrigin(url) /\ url \notin Range(candidates)
      <3>1. url \in OriginUrls /\ c = Append(candidates, url)
        BY <1>1, <1>2, <1>4, <2>1 DEF OriginUrls, Assets
      <3>2. /\ c \in Seq(OriginUrls) /\ Len(c) = Len(candidates) + 1 /\ DOMAIN c = 1 .. Len(c)
            /\ c[Len(candidates) + 1] = url /\ \A i \in 1 .. Len(candidates) : c[i] = candidates[i]
        BY <1>3, <3>1, AppendProperties, LenProperties
      <3>3. \A i \in 1 .. Len(c) : i \in 1 .. Len(candidates) \/ i = Len(candidates) + 1
        BY <1>3, <3>2
      <3>4. \A i \in 1 .. Len(candidates) : candidates[i] # url
        BY <1>3, <2>1 DEF Range
      <3>5. Range(candidates) \subseteq Range(c) /\ url \in Range(c)
        BY <1>3, <3>2 DEF Range
      <3>6. \A i, j \in 1 .. Len(c) : i # j => c[i] # c[j]
        BY <3>2, <3>3, <3>4 DEF StatefulInv, CandidatesExact
      <3> QED
        BY <1>1, <1>3, <3>2, <3>5, <3>6
    <2>2. CASE ~(InOrigin(url) /\ url \notin Range(candidates))
      BY <1>1, <1>3, <1>4, <2>2 DEF StatefulInv, CandidatesExact
    <2> QED
      BY <2>1, <2>2
  <1>6. replayed' \in Nat /\ replayed' >= replayed
    BY <1>1, <1>3
  <1>7. StatefulTypeOK'
    BY <1>1, <1>2, <1>4, <1>5, <1>6 DEF StatefulInv, StatefulTypeOK, OriginUrls
  <1>8. CandidatesExact'
    <2>1. ASSUME NEW a, IsListed(a) PROVE IsListed(a)'
      <3>1. Range(candidates) \subseteq Range(candidates')
        BY <1>4, <1>5
      <3> QED
        BY <1>3, <1>6, <2>1, <3>1 DEF IsListed
    <2>3. ASSUME NEW i \in 1 .. Len(assetList)
          PROVE  IsListed(assetList[i])' \/ \E k \in 1 .. Len(assets') : assets'[k] = assetList[i]
      <3>1. PICK a : a = assetList[i]
        OBVIOUS
      <3>2. IsListed(a) \/ \E k \in 1 .. Len(assets) : assets[k] = a
        BY <1>1, <3>1 DEF StatefulInv, CandidatesExact
      <3>3. CASE IsListed(a)
        BY <1>1, <2>1, <3>1, <3>3
      <3>4. ASSUME NEW k \in 1 .. Len(assets), assets[k] = a
            PROVE  IsListed(a)' \/ \E j \in 1 .. Len(assets') : assets'[j] = a
        <4>1. CASE k = 1
          <5>1. PICK b : b = assets[1]
            OBVIOUS
          <5>2. IsListed(b)'
            <6>1. InOrigin(b.url) => b.url \in Range(candidates')
              BY <1>2, <1>4, <1>5, <5>1
            <6> QED
              BY <6>1 DEF IsListed
          <5> QED
            BY <3>4, <4>1, <5>1, <5>2
        <4>2. CASE k # 1
          BY <1>1, <1>2, <3>4, <4>2
        <4> QED
          BY <4>1, <4>2
      <3> QED
        BY <1>1, <3>1, <3>2, <3>3, <3>4
    <2>4. \A i, j \in 1 .. Len(candidates') : i # j => candidates'[i] # candidates'[j]
      BY <1>4, <1>5
    <2>5. Len(candidates') <= MaxRequests /\ step' = "assets" /\ assetList' = assetList
      BY <1>1, <1>4, <1>5
    <2> QED
      BY <2>3, <2>4, <2>5 DEF CandidatesExact
  <1> QED
    BY <1>1, <1>7, <1>8, SentSame, SignalsSame DEF StatefulInv, PagesLeft

LEMMA EndAssetsKeeps ==
  ASSUME StatefulInv, EndAssets
  PROVE  StatefulInv'
PROOF
  <1>1. /\ step = "assets" /\ step' = "pages" /\ todo' = candidates
        /\ assets = <<>> \/ Len(candidates) >= MaxRequests
        /\ UNCHANGED <<assetList, limit, roles, budget, assets, replayed, candidates, forms,
                       snapshots, compared, signals, sent>>
    BY StatefulAssumption, LenProperties
    DEF EndAssets, MoreAssets, given, listing, StatefulInv, StatefulTypeOK
  <1>2. Len(candidates) \in Nat /\ MaxRequests \in Nat
    BY StatefulAssumption, LenProperties DEF StatefulInv, StatefulTypeOK
  <1>3. StatefulTypeOK'
    BY <1>1 DEF StatefulInv, StatefulTypeOK
  <1>4. CandidatesExact'
    <2>1. \A a : IsListed(a)' <=> IsListed(a)
      BY <1>1 DEF IsListed
    <2>2. CASE assets = <<>>
      <3>1. \A k : k \notin 1 .. Len(assets)
        BY <2>2
      <3> QED
        BY <1>1, <2>1, <3>1 DEF StatefulInv, CandidatesExact
    <2>3. CASE Len(candidates) >= MaxRequests
      <3>1. Len(candidates) = MaxRequests
        BY <1>2, <2>3 DEF StatefulInv, CandidatesExact
      <3> QED
        BY <1>1, <2>1, <3>1 DEF StatefulInv, CandidatesExact
    <2> QED
      BY <1>1, <2>2, <2>3
  <1>5. SentExact'
    BY <1>1 DEF StatefulInv, SentExact, Now
  <1>6. PagesLeft'
    <2>1. sent = <<>> /\ forms = <<>>
      BY <1>1 DEF StatefulInv, PagesLeft
    <2>2. Len(sent) = 0
      BY <2>1
    <2>3. \A u : ~In(sent, "page", u)
      BY <2>2 DEF In
    <2> QED
      BY <1>1, <2>1, <2>3 DEF StatefulInv, CandidatesExact, PagesLeft, In
  <1> QED
    BY <1>1, <1>3, <1>4, <1>5, <1>6, SignalsSame DEF StatefulInv

-----------------------------------------------------------------------------
(* The pages and their forms.                                               *)

LEMMA FetchPageKeeps ==
  ASSUME StatefulInv, NEW answer \in Answers \cup {NoResponse}, FetchPage(answer)
  PROVE  StatefulInv'
PROOF
  <1> DEFINE r == Request("page", Head(todo), TRUE)
             p == Snapshot(Head(todo), answer)
  <1>1. /\ step = "pages" /\ forms = <<>> /\ todo # <<>> /\ budget > 0
        /\ budget' = budget - 1 /\ todo' = Tail(todo) /\ sent' = Append(sent, r)
        /\ IF answer = NoResponse THEN UNCHANGED <<forms, snapshots, signals>>
           ELSE /\ forms' = answer.forms /\ snapshots' = Append(snapshots, p)
                /\ signals' = signals \cup PageSignals(p)
        /\ UNCHANGED <<assetList, limit, roles, step, listing, compared>>
    BY DEF FetchPage, given
  <1>2. /\ Head(todo) \in OriginUrls /\ Tail(todo) \in Seq(OriginUrls)
        /\ Head(todo) = todo[1] /\ 1 \in 1 .. Len(todo)
        /\ \A i \in 1 .. Len(Tail(todo)) : i + 1 \in 1 .. Len(todo) /\ Tail(todo)[i] = todo[i + 1]
        /\ \A i \in 1 .. Len(todo) : i # 1 =>
             i - 1 \in 1 .. Len(Tail(todo)) /\ Tail(todo)[i - 1] = todo[i]
    BY <1>1, NextFacts DEF StatefulInv, StatefulTypeOK, OriginUrls
  <1>3. /\ r \in Requests /\ r.for = "page" /\ r.url = Head(todo) /\ r.counted
        /\ sent \in Seq(Requests) /\ budget \in Nat /\ limit \in Nat
    BY <1>2, StatefulAssumption DEF Request, Requests, OriginUrls, StatefulInv, StatefulTypeOK
  <1> HIDE DEF r
  <1>4. /\ Append(sent, r) \in Seq(Requests)
        /\ \A for, url : In(sent, for, url)' <=> In(sent, for, url) \/ (for = "page" /\ url = Head(todo))
    <2>1. PICK t : t = sent' /\ t = Append(sent, r)
      BY <1>1
    <2>2. \A for, url : In(t, for, url) <=> In(sent, for, url) \/ (for = "page" /\ url = Head(todo))
      BY <1>3, <2>1, InFacts
    <2> QED
      BY <1>3, <2>1, <2>2, SendFacts DEF In
  <1>5. answer # NoResponse =>
          /\ p \in Pages /\ PageSignals(p) \subseteq Signals /\ answer.forms \in Seq(Forms)
          /\ \A g \in PageSignals(p) : g.kind \in LeakKinds \cup {"sensitive"}
    BY <1>2, SnapshotFacts
  <1> HIDE DEF p
  <1>6. StatefulTypeOK'
    <2>1. snapshots' \in Seq(Pages) /\ signals' \subseteq Signals /\ forms' \in Seq(Forms)
      <3>1. snapshots \in Seq(Pages) /\ signals \subseteq Signals /\ forms \in Seq(Forms)
        BY DEF StatefulInv, StatefulTypeOK
      <3>2. CASE answer = NoResponse
        BY <1>1, <3>1, <3>2
      <3>3. CASE answer # NoResponse
        <4>1. /\ snapshots' = Append(snapshots, p) /\ forms' = answer.forms
              /\ signals' = signals \cup PageSignals(p)
          BY <1>1, <3>3
        <4>2. Append(snapshots, p) \in Seq(Pages)
          BY <1>5, <3>1, <3>3, AppendProperties
        <4> QED
          BY <1>5, <3>1, <3>3, <4>1, <4>2
      <3> QED
        BY <3>2, <3>3
    <2>2. budget' \in 0 .. limit
      BY <1>1, <1>3 DEF StatefulInv, StatefulTypeOK
    <2> QED
      BY <1>1, <1>2, <1>4, <2>1, <2>2 DEF StatefulInv, StatefulTypeOK, OriginUrls, listing
  <1>7. SentExact'
    <2>1. Now = 1 /\ Stage(r.for) = 1
      BY <1>1, <1>3 DEF Now, Stage
    <2>2. ~In(sent, "page", r.url) /\ InOrigin(r.url)
      BY <1>1, <1>2, <1>3 DEF StatefulInv, PagesLeft, OriginUrls
    <2> QED
      BY <1>1, <1>3, <2>1, <2>2, SentKept DEF StatefulInv
  <1>8. PagesLeft'
    <2>1. \A i, j \in 1 .. Len(todo') : i # j => todo'[i] # todo'[j]
      BY <1>1, <1>2 DEF StatefulInv, PagesLeft
    <2>2. \A i \in 1 .. Len(todo') : ~In(sent, "page", todo[i])'
      <3>1. \A i \in 1 .. Len(todo') : /\ ~In(sent, "page", todo'[i]) /\ todo'[i] # Head(todo)
        BY <1>1, <1>2 DEF StatefulInv, PagesLeft
      <3>2. ASSUME NEW i \in 1 .. Len(todo') PROVE ~In(sent, "page", todo[i])'
        <4>1. PICK u : u = todo'[i]
          OBVIOUS
        <4>2. ~In(sent, "page", u)'
          BY <1>4, <3>1, <4>1
        <4> QED
          BY <4>1, <4>2 DEF In
      <3> QED
        BY <3>2
    <2>3. ASSUME NEW i \in 1 .. Len(candidates')
          PROVE  In(sent, "page", candidates[i])' \/ \E k \in 1 .. Len(todo') : todo'[k] = candidates'[i]
      <3>1. PICK c : c = candidates[i] /\ c = candidates'[i]
        BY <1>1 DEF listing
      <3>2. In(sent, "page", c) \/ \E k \in 1 .. Len(todo) : todo[k] = c
        BY <1>1, <3>1 DEF StatefulInv, PagesLeft, listing
      <3>3. In(sent, "page", c)' \/ \E k \in 1 .. Len(todo') : todo'[k] = c
        BY <1>1, <1>2, <1>4, <3>2
      <3> QED
        BY <3>1, <3>3 DEF In
    <2> QED
      BY <1>1, <2>1, <2>2, <2>3 DEF PagesLeft
  <1>9. SignalsSound'
    <2>1. \A g \in signals : Told(sent, g)'
      BY <1>4 DEF StatefulInv, SignalsSound, Told
    <2> DEFINE new == IF answer = NoResponse THEN {} ELSE PageSignals(p)
    <2>2. signals' = signals \cup new /\ \A g \in new : g.kind \in LeakKinds \cup {"sensitive"}
      BY <1>1, <1>5
    <2> HIDE DEF new
    <2>3. \A g \in new : g.kind # "number" /\ Told(sent, g)'
      BY <2>2 DEF LeakKinds, Told
    <2> QED
      BY <2>1, <2>2, <2>3, SignalsKept DEF StatefulInv
  <1> QED
    BY <1>1, <1>6, <1>7, <1>8, <1>9, CandidatesKept DEF StatefulInv

\* A request that is no page leaves the pages as they are.
LEMMA PagesKept ==
  ASSUME PagesLeft, UNCHANGED <<candidates, todo, step>>, step # "assets",
         step # "pages" => forms' = <<>>, budget' \in Nat, budget = 0 => budget' = 0,
         \A url : In(sent, "page", url)' <=> In(sent, "page", url)
  PROVE  PagesLeft'
PROOF
  <1>1. ASSUME NEW url PROVE In(sent, "page", url)' <=> In(sent, "page", url)
    OBVIOUS
  <1>2. \A i : In(sent, "page", candidates[i])' <=> In(sent, "page", candidates[i])
    BY DEF In
  <1>3. \A i : In(sent, "page", todo[i])' <=> In(sent, "page", todo[i])
    BY DEF In
  <1> QED
    BY <1>2, <1>3 DEF PagesLeft

LEMMA ProbeFormKeeps ==
  ASSUME StatefulInv, NEW reflected \in BOOLEAN, ProbeForm(reflected)
  PROVE  StatefulInv'
PROOF
  <1> DEFINE r == Request("form", Head(forms).url, reflected)
             g == [kind |-> "reflection", url |-> Head(forms).url]
  <1>1. /\ forms # <<>> /\ budget > 0 /\ sent' = Append(sent, r) /\ forms' = Tail(forms)
        /\ IF reflected THEN budget' = budget - 1 /\ signals' = signals \cup {g}
           ELSE UNCHANGED <<budget, signals>>
        /\ UNCHANGED <<assetList, limit, roles, step, listing, candidates, todo, snapshots, compared>>
    BY DEF ProbeForm, Probed, given, listing
  <1>2. Head(forms) \in Forms /\ Tail(forms) \in Seq(Forms) /\ Head(forms).url \in Urls
    <2>1. Head(forms) \in Forms /\ Tail(forms) \in Seq(Forms)
      BY <1>1, NextFacts DEF StatefulInv, StatefulTypeOK
    <2> QED
      BY <2>1 DEF Forms
  <1>3. /\ r \in Requests /\ r.for = "form" /\ r.url = Head(forms).url /\ (r.counted <=> reflected)
        /\ g \in Signals /\ g.kind = "reflection" /\ g.url = Head(forms).url
        /\ sent \in Seq(Requests) /\ budget \in Nat /\ limit \in Nat /\ step = "pages"
    BY <1>1, <1>2, StatefulAssumption
    DEF Request, Requests, Signals, StatefulInv, StatefulTypeOK, PagesLeft
  <1> HIDE DEF r, g
  <1>4. /\ Append(sent, r) \in Seq(Requests)
        /\ \A for, url : In(sent, for, url)' <=>
             In(sent, for, url) \/ (for = "form" /\ url = Head(forms).url)
    <2>1. PICK t : t = sent' /\ t = Append(sent, r)
      BY <1>1
    <2>2. \A for, url : In(t, for, url) <=>
            In(sent, for, url) \/ (for = "form" /\ url = Head(forms).url)
      BY <1>3, <2>1, InFacts
    <2> QED
      BY <1>3, <2>1, <2>2, SendFacts DEF In
  <1>5. StatefulTypeOK'
    <2>1. budget' \in 0 .. limit /\ signals' \subseteq Signals
      BY <1>1, <1>3 DEF StatefulInv, StatefulTypeOK
    <2> QED
      BY <1>1, <1>2, <1>4, <2>1 DEF StatefulInv, StatefulTypeOK, listing
  <1>6. SentExact'
    <2>1. Now = 1 /\ Stage(r.for) = 1
      BY <1>3 DEF Now, Stage
    <2> QED
      BY <1>1, <1>3, <2>1, SentKept DEF StatefulInv
  <1>7. PagesLeft'
    BY <1>1, <1>3, <1>4, <1>5, PagesKept DEF StatefulInv
  <1>8. SignalsSound'
    <2>1. \A x \in signals : Told(sent, x)'
      BY <1>4 DEF StatefulInv, SignalsSound, Told
    <2> DEFINE new == IF reflected THEN {g} ELSE {}
    <2>2. signals' = signals \cup new /\ new \subseteq {g}
      BY <1>1
    <2> HIDE DEF new
    <2>3. \A x \in new : x.kind # "number" /\ Told(sent, x)'
      BY <1>3, <1>4, <2>2 DEF Told
    <2> QED
      BY <2>1, <2>2, <2>3, SignalsKept DEF StatefulInv
  <1> QED
    BY <1>1, <1>3, <1>5, <1>6, <1>7, <1>8, CandidatesKept DEF StatefulInv

LEMMA PassFormKeeps ==
  ASSUME StatefulInv, PassForm
  PROVE  StatefulInv'
PROOF
  <1>1. /\ forms # <<>> /\ forms' = Tail(forms)
        /\ UNCHANGED <<assetList, limit, roles, budget, step, listing, candidates, todo, snapshots,
                       compared, signals, sent>>
    BY DEF PassForm, given, listing
  <1>2. Tail(forms) \in Seq(Forms) /\ step = "pages"
    BY <1>1, NextFacts DEF StatefulInv, StatefulTypeOK, PagesLeft
  <1>3. StatefulTypeOK'
    BY <1>1, <1>2 DEF StatefulInv, StatefulTypeOK, listing
  <1>4. PagesLeft'
    BY <1>1, <1>2 DEF StatefulInv, PagesLeft
  <1> QED
    BY <1>1, <1>2, <1>3, <1>4, CandidatesKept, SentSame, SignalsSame DEF StatefulInv

LEMMA EndPagesKeeps ==
  ASSUME StatefulInv, EndPages
  PROVE  StatefulInv'
PROOF
  <1>1. /\ step = "pages" /\ forms = <<>> /\ (todo = <<>> \/ budget = 0)
        /\ step' = "numbers" /\ todo' = snapshots
        /\ UNCHANGED <<assetList, limit, roles, budget, listing, candidates, forms, snapshots,
                       compared, signals, sent>>
    BY DEF EndPages, given, listing
  <1>2. StatefulTypeOK'
    BY <1>1 DEF StatefulInv, StatefulTypeOK, listing
  <1>3. PagesLeft'
    <2>1. todo = <<>> => \A k : k \notin 1 .. Len(todo)
      OBVIOUS
    <2> QED
      BY <1>1, <2>1 DEF StatefulInv, PagesLeft
  <1>4. SentExact'
    BY <1>1, SentLater DEF StatefulInv, Now
  <1> QED
    BY <1>1, <1>2, <1>3, <1>4, CandidatesKept, SignalsSame DEF StatefulInv

-----------------------------------------------------------------------------
(* The identifiers and the roles.                                           *)

\* A page that is passed over.
LEMMA PassKeeps ==
  ASSUME StatefulInv, step \in {"numbers", "roles"}, todo # <<>>, todo' = Tail(todo),
         UNCHANGED <<given, budget, step, listing, forms, snapshots, compared, signals, sent>>
  PROVE  StatefulInv'
PROOF
  <1>1. Tail(todo) \in Seq(Pages)
    BY NextFacts DEF StatefulInv, StatefulTypeOK
  <1>2. UNCHANGED <<assetList, limit, roles, assets, replayed, candidates>>
    BY DEF given, listing
  <1>3. StatefulTypeOK'
    BY <1>1, <1>2 DEF StatefulInv, StatefulTypeOK
  <1>4. PagesLeft'
    BY <1>2 DEF StatefulInv, PagesLeft
  <1> QED
    BY <1>2, <1>3, <1>4, CandidatesKept, SentSame, SignalsSame DEF StatefulInv

LEMMA TryNumberKeeps ==
  ASSUME StatefulInv, NEW answer \in Answers \cup {NoResponse}, TryNumber(answer)
  PROVE  StatefulInv'
PROOF
  <1> DEFINE url == Mutated(Head(todo).url)
             r == Request("number", url, TRUE)
             g == [kind |-> "number", url |-> Head(todo).url]
  <1>1. /\ step = "numbers" /\ todo # <<>> /\ budget > 0
        /\ Cardinality(SignalsOf("number")) < MaxSignals
        /\ url # NoOther /\ url \notin Tried
        /\ budget' = budget - 1 /\ todo' = Tail(todo) /\ sent' = Append(sent, r)
        /\ (signals' = signals \/ signals' = signals \cup {g})
        /\ UNCHANGED <<assetList, limit, roles, step, listing, forms, snapshots, compared>>
    BY DEF TryNumber, MayMutate, given
  <1>2. Head(todo) \in Pages /\ Tail(todo) \in Seq(Pages)
    BY <1>1, NextFacts DEF StatefulInv, StatefulTypeOK
  <1>3. Head(todo).url \in Urls /\ InOrigin(Head(todo).url) /\ url \in Urls /\ InOrigin(url)
    <2>1. Head(todo).url \in Urls /\ InOrigin(Head(todo).url)
      BY <1>2 DEF Pages
    <2> QED
      BY <1>1, <2>1, MutatedFacts
  <1>4. /\ r \in Requests /\ r.for = "number" /\ r.url = url /\ r.counted
        /\ g \in Signals /\ g.kind = "number" /\ g.url = Head(todo).url
        /\ sent \in Seq(Requests) /\ budget \in Nat /\ limit \in Nat
    BY <1>3, StatefulAssumption DEF Request, Requests, Signals, StatefulInv, StatefulTypeOK
  <1>5. ~In(sent, "number", url)
    BY <1>1, <1>4, LenProperties DEF In, Tried
  <1> HIDE DEF r, g
  <1>6. PICK u : u = url /\ u = Mutated(Head(todo).url)
    OBVIOUS
  <1> HIDE DEF url
  <1>7. /\ Append(sent, r) \in Seq(Requests)
        /\ \A for, v : In(sent, for, v)' <=> In(sent, for, v) \/ (for = "number" /\ v = u)
    <2>1. PICK t : t = sent' /\ t = Append(sent, r)
      BY <1>1
    <2>2. \A for, v : In(t, for, v) <=> In(sent, for, v) \/ (for = "number" /\ v = u)
      BY <1>4, <1>6, <2>1, InFacts
    <2>3. Append(sent, r) \in Seq(Requests)
      BY <1>4, SendFacts
    <2>4. \A for, v : In(sent, for, v)' <=> In(t, for, v)
      BY <2>1 DEF In
    <2> QED
      BY <2>2, <2>3, <2>4
  <1>8. StatefulTypeOK'
    <2>1. budget' \in 0 .. limit /\ signals' \subseteq Signals
      BY <1>1, <1>4 DEF StatefulInv, StatefulTypeOK
    <2> QED
      BY <1>1, <1>2, <1>7, <2>1 DEF StatefulInv, StatefulTypeOK, listing
  <1>9. SentExact'
    <2>1. Now = 2 /\ Stage(r.for) = 2
      BY <1>1, <1>4 DEF Now, Stage
    <2> QED
      BY <1>1, <1>3, <1>4, <1>5, <2>1, SentKept DEF StatefulInv
  <1>10. PagesLeft'
    <2>1. ASSUME NEW i
          PROVE  In(sent, "page", candidates[i])' <=> In(sent, "page", candidates[i])
      <3>1. PICK c : c = candidates[i] /\ c = candidates'[i]
        BY <1>1 DEF listing
      <3>2. In(sent, "page", c)' <=> In(sent, "page", c)
        BY <1>7
      <3> QED
        BY <3>1, <3>2 DEF In
    <2> QED
      BY <1>1, <1>4, <2>1 DEF StatefulInv, PagesLeft, listing
  <1>11. SignalsSound'
    <2>1. \A x \in signals : Told(sent, x)'
      BY <1>7 DEF StatefulInv, SignalsSound, Told
    <2>2. CASE signals' = signals
      <3>1. SignalsOf("number")' = SignalsOf("number")
        BY <2>2 DEF SignalsOf
      <3> QED
        BY <2>1, <2>2, <3>1 DEF StatefulInv, SignalsSound
    <2>3. CASE signals' = signals \cup {g}
      <3>1. \A x : x = g => Told(sent, x)'
        <4>1. In(sent, "number", u)'
          BY <1>7
        <4>2. g.kind = "number" /\ Mutated(g.url) = u
          BY <1>4, <1>6
        <4> QED
          BY <4>1, <4>2 DEF Told
      <3>2. SignalsOf("number")' = SignalsOf("number") \cup {g}
        BY <1>4, <2>3 DEF SignalsOf
      <3>3. /\ IsFiniteSet(SignalsOf("number") \cup {g})
            /\ Cardinality(SignalsOf("number") \cup {g}) <= Cardinality(SignalsOf("number")) + 1
            /\ Cardinality(SignalsOf("number")) \in Nat
            /\ Cardinality(SignalsOf("number") \cup {g}) \in Nat
        BY FS_AddElement, FS_CardinalityType DEF StatefulInv, SignalsSound
      <3>4. Cardinality(SignalsOf("number") \cup {g}) <= MaxSignals
        BY <1>1, <3>3, StatefulAssumption
      <3> QED
        <4>1. \A x \in signals' : Told(sent, x)'
          BY <2>1, <2>3, <3>1
        <4> QED
          BY <3>2, <3>3, <3>4, <4>1, FS_AddElement DEF StatefulInv, SignalsSound
    <2> QED
      BY <1>1, <2>2, <2>3
  <1> QED
    BY <1>1, <1>8, <1>9, <1>10, <1>11, CandidatesKept DEF StatefulInv

LEMMA EndNumbersKeeps ==
  ASSUME StatefulInv, EndNumbers
  PROVE  StatefulInv'
PROOF
  <1>1. /\ step = "numbers" /\ step' = "roles" /\ todo' = snapshots
        /\ UNCHANGED <<assetList, limit, roles, budget, listing, candidates, forms, snapshots,
                       compared, signals, sent>>
    BY DEF EndNumbers, given, listing
  <1>2. StatefulTypeOK'
    BY <1>1 DEF StatefulInv, StatefulTypeOK, listing
  <1>3. PagesLeft'
    BY <1>1 DEF StatefulInv, PagesLeft
  <1>4. SentExact'
    BY <1>1, SentLater DEF StatefulInv, Now
  <1> QED
    BY <1>1, <1>2, <1>3, <1>4, CandidatesKept, SignalsSame DEF StatefulInv

\* Both requests of a comparison.
LEMMA CompareRolesKeeps ==
  ASSUME StatefulInv, NEW left, NEW right, CompareRoles(left, right)
  PROVE  StatefulInv'
PROOF
  <1> DEFINE r == RoleRequest
             g == [kind |-> "role", url |-> Head(todo).url]
  <1>1. /\ step = "roles" /\ todo # <<>> /\ compared < MaxCompared /\ budget >= 2
        /\ budget' = budget - 2 /\ todo' = Tail(todo) /\ compared' = compared + 1
        /\ sent' = Append(Append(sent, r), r)
        /\ (signals' = signals \/ signals' = signals \cup {g})
        /\ UNCHANGED <<assetList, limit, roles, step, listing, candidates, forms, snapshots>>
    BY DEF CompareRoles, MayCompare, given, listing
  <1>2. Head(todo) \in Pages /\ Tail(todo) \in Seq(Pages)
    BY <1>1, NextFacts DEF StatefulInv, StatefulTypeOK
  <1>3. /\ r \in Requests /\ r.for = "role" /\ r.url = Head(todo).url /\ r.counted
        /\ InOrigin(r.url) /\ g \in Signals /\ g.kind = "role" /\ g.url = r.url
    BY <1>2 DEF RoleRequest, Request, Requests, Signals, Pages
  <1>4. /\ sent \in Seq(Requests) /\ budget \in Nat /\ limit \in Nat /\ compared \in Nat
        /\ MaxCompared \in Nat
    BY StatefulAssumption DEF StatefulInv, StatefulTypeOK
  <1> HIDE DEF r, g
  <1>5. PICK q : q = r
    OBVIOUS
  <1>6. PICK s : s = Append(sent, q)
    OBVIOUS
  <1>7. PICK t : t = sent' /\ t = Append(s, q)
    BY <1>1, <1>5, <1>6
  <1>8. s \in Seq(Requests) /\ t \in Seq(Requests)
    BY <1>3, <1>4, <1>5, <1>6, <1>7, SendFacts
  <1>9. \A for, url : In(t, for, url) <=> In(sent, for, url) \/ (for = "role" /\ url = q.url)
    <2>1. \A for, url : In(s, for, url) <=> In(sent, for, url) \/ (for = "role" /\ url = q.url)
      BY <1>3, <1>4, <1>5, <1>6, InFacts
    <2>2. \A for, url : In(t, for, url) <=> In(s, for, url) \/ (for = "role" /\ url = q.url)
      BY <1>3, <1>5, <1>7, <1>8, InFacts
    <2> QED
      BY <2>1, <2>2
  <1>10. StatefulTypeOK'
    <2>1. budget' \in 0 .. limit /\ signals' \subseteq Signals /\ compared' \in 0 .. MaxCompared
      BY <1>1, <1>3, <1>4 DEF StatefulInv, StatefulTypeOK
    <2> QED
      BY <1>1, <1>2, <1>7, <1>8, <2>1 DEF StatefulInv, StatefulTypeOK, listing
  <1>11. SentExact'
    <2>1. Now = 3 /\ Now' = 3 /\ Stage(q.for) = 3
      BY <1>1, <1>3, <1>5 DEF Now, Stage
    <2>2. InOrder(s, 3)
      BY <1>3, <1>4, <1>5, <1>6, <2>1, OrderFacts DEF StatefulInv, SentExact
    <2>3. InOrder(t, 3)
      BY <1>3, <1>5, <1>7, <1>8, <2>1, <2>2, OrderFacts
    <2>4. /\ Cardinality(Counting(sent)) \in Nat
          /\ Cardinality(Counting(s)) = Cardinality(Counting(sent)) + 1
      BY <1>3, <1>4, <1>5, <1>6, CountFacts
    <2>5. Cardinality(Counting(t)) = Cardinality(Counting(s)) + 1
      BY <1>3, <1>5, <1>7, <1>8, CountFacts
    <2>6. Cardinality(Counting(t)) + budget' = limit'
      BY <1>1, <1>4, <2>4, <2>5 DEF StatefulInv, SentExact
    <2> QED
      BY <1>7, <2>1, <2>3, <2>6 DEF SentExact
  <1>12. PagesLeft'
    <2>1. ASSUME NEW i
          PROVE  In(sent, "page", candidates[i])' <=> In(sent, "page", candidates[i])
      <3>1. PICK c : c = candidates[i] /\ c = candidates'[i]
        BY <1>1 DEF listing
      <3>2. In(sent, "page", c)' <=> In(sent, "page", c)
        <4>1. In(sent, "page", c)' <=> In(t, "page", c)
          BY <1>7 DEF In
        <4> QED
          BY <1>9, <4>1
      <3> QED
        BY <3>1, <3>2 DEF In
    <2> QED
      BY <1>1, <1>4, <2>1 DEF StatefulInv, PagesLeft
  <1>13. SignalsSound'
    <2>1. \A x : Told(sent, x) => Told(t, x)
      BY <1>9 DEF Told
    <2>2. Told(t, g)
      BY <1>3, <1>5, <1>9 DEF Told
    <2> DEFINE new == IF signals' = signals THEN {} ELSE {g}
    <2>3. signals' = signals \cup new /\ new \subseteq {g}
      BY <1>1
    <2> HIDE DEF new
    <2>4. \A x : Told(t, x) => Told(sent, x)'
      BY <1>7 DEF Told, In
    <2>5. \A x \in new : x.kind # "number" /\ Told(sent, x)'
      BY <1>3, <2>2, <2>3, <2>4
    <2>6. \A x \in signals : Told(sent, x)'
      BY <2>1, <2>4 DEF StatefulInv, SignalsSound
    <2> QED
      BY <2>3, <2>5, <2>6, SignalsKept DEF StatefulInv
  <1> QED
    BY <1>1, <1>10, <1>11, <1>12, <1>13, CandidatesKept DEF StatefulInv

LEMMA EndRolesKeeps ==
  ASSUME StatefulInv, EndRoles
  PROVE  StatefulInv'
PROOF
  <1>1. /\ step = "roles" /\ step' = "done"
        /\ UNCHANGED <<assetList, limit, roles, budget, listing, candidates, todo, forms, snapshots,
                       compared, signals, sent>>
    BY DEF EndRoles, given, listing
  <1>2. StatefulTypeOK'
    BY <1>1 DEF StatefulInv, StatefulTypeOK, listing
  <1>3. PagesLeft'
    BY <1>1 DEF StatefulInv, PagesLeft
  <1>4. SentExact'
    BY <1>1, SentLater DEF StatefulInv, Now
  <1> QED
    BY <1>1, <1>2, <1>3, <1>4, CandidatesKept, SignalsSame DEF StatefulInv

-----------------------------------------------------------------------------

LEMMA StatefulInitial == StatefulInit => StatefulInv
PROOF
  <1> SUFFICES ASSUME StatefulInit PROVE StatefulInv
    OBVIOUS
  <1>1. /\ assetList \in AssetLists /\ limit \in Limits /\ roles \in RoleCounts /\ budget = limit
        /\ step = "assets" /\ assets = assetList /\ replayed = 0 /\ candidates = <<BaseUrl>>
        /\ todo = <<>> /\ forms = <<>> /\ snapshots = <<>> /\ compared = 0
        /\ signals = {} /\ sent = <<>>
    BY DEF StatefulInit
  <1>2. Len(candidates) = 1 /\ candidates \in Seq(OriginUrls) /\ Len(sent) = 0 /\ limit \in Nat
    BY <1>1, StatefulAssumption DEF OriginUrls, InOrigin
  <1>3. StatefulTypeOK
    BY <1>1, <1>2, StatefulAssumption DEF StatefulTypeOK, OriginUrls
  <1>4. SentExact
    <2>1. Counting(sent) = {}
      BY <1>2 DEF Counting
    <2>2. Cardinality(Counting(sent)) = 0
      BY <2>1, FS_EmptySet
    <2> QED
      BY <1>1, <1>2, <2>2 DEF SentExact, InOrder
  <1>5. CandidatesExact
    BY <1>1, <1>2, StatefulAssumption DEF CandidatesExact
  <1>6. PagesLeft
    BY <1>1 DEF PagesLeft
  <1>7. SignalsSound
    <2>1. SignalsOf("number") = {}
      BY <1>1 DEF SignalsOf
    <2> QED
      <3>1. IsFiniteSet({}) /\ Cardinality({}) = 0 /\ MaxSignals \in Nat
        BY FS_EmptySet, StatefulAssumption
      <3> QED
        <4>1. signals = {} /\ 0 <= MaxSignals
          BY <1>1, <3>1
        <4>2. IsFiniteSet(SignalsOf("number")) /\ Cardinality(SignalsOf("number")) <= MaxSignals
          BY <2>1, <3>1, <4>1
        <4> QED
          BY <4>1, <4>2 DEF SignalsSound
  <1> QED
    BY <1>3, <1>4, <1>5, <1>6, <1>7 DEF StatefulInv

LEMMA StatefulStep == StatefulInv /\ [StatefulNext]_statefulVars => StatefulInv'
PROOF
  <1> SUFFICES ASSUME StatefulInv, [StatefulNext]_statefulVars PROVE StatefulInv'
    OBVIOUS
  <1>1. CASE PassAsset
    BY <1>1, PassAssetKeeps
  <1>2. CASE TakeAsset
    BY <1>2, TakeAssetKeeps
  <1>3. CASE EndAssets
    BY <1>3, EndAssetsKeeps
  <1>4. ASSUME NEW answer \in Answers \cup {NoResponse}, FetchPage(answer) \/ TryNumber(answer)
        PROVE  StatefulInv'
    BY <1>4, FetchPageKeeps, TryNumberKeeps
  <1>5. ASSUME NEW reflected \in BOOLEAN, ProbeForm(reflected) PROVE StatefulInv'
    BY <1>5, ProbeFormKeeps
  <1>6. CASE PassForm
    BY <1>6, PassFormKeeps
  <1>7. CASE EndPages
    BY <1>7, EndPagesKeeps
  <1>8. CASE PassNumber
    BY <1>8, PassKeeps DEF PassNumber, MayMutate
  <1>9. CASE EndNumbers
    BY <1>9, EndNumbersKeeps
  <1>10. CASE PassPage
    BY <1>10, PassKeeps DEF PassPage, MayCompare
  <1>11. CASE EndRoles
    BY <1>11, EndRolesKeeps
  <1>12. ASSUME NEW left, NEW right, CompareRoles(left, right) PROVE StatefulInv'
    BY <1>12, CompareRolesKeeps
  <1>13. CASE UNCHANGED statefulVars
    <2>1. UNCHANGED <<given, budget, step, listing, todo, forms, snapshots, compared, signals, sent>>
      BY <1>13 DEF statefulVars
    <2>2. UNCHANGED <<assetList, limit, roles, assets, replayed, candidates>>
      BY <2>1 DEF given, listing
    <2>3. StatefulTypeOK' /\ PagesLeft'
      BY <2>1, <2>2 DEF StatefulInv, StatefulTypeOK, PagesLeft
    <2>4. CandidatesExact'
      BY <2>1, <2>2 DEF StatefulInv, CandidatesExact, IsListed
    <2> QED
      BY <2>1, <2>2, <2>3, <2>4, SentSame, SignalsSame DEF StatefulInv
  <1> QED
    BY <1>1, <1>2, <1>3, <1>4, <1>5, <1>6, <1>7, <1>8, <1>9, <1>10, <1>11, <1>12, <1>13
    DEF StatefulNext

LEMMA StatefulConclusion == StatefulInv => StatefulExact
PROOF
  <1> SUFFICES ASSUME StatefulInv PROVE StatefulExact
    OBVIOUS
  <1>1. Cardinality(Counted) + budget = limit
    BY DEF StatefulInv, SentExact, Counted, Counting
  <1>2. /\ \A i, j \in 1 .. Len(sent) :
             /\ i < j => Stage(sent[i].for) <= Stage(sent[j].for)
             /\ sent[i].for \in {"page", "number"} /\ sent[i].for = sent[j].for /\ i # j =>
                  sent[i].url # sent[j].url
        /\ \A i \in 1 .. Len(sent) : sent[i].for # "form" => InOrigin(sent[i].url)
    BY DEF StatefulInv, SentExact, InOrder
  <1>3. \A for, url : IsSent(for, url) <=> In(sent, for, url)
    BY DEF IsSent, In
  <1>4. /\ Cardinality(SignalsOf("number")) <= MaxSignals
        /\ \A s \in signals :
             /\ s.kind = "number" => IsSent("number", Mutated(s.url))
             /\ s.kind \in {"role", "reflection"} =>
                  IsSent(IF s.kind = "role" THEN "role" ELSE "form", s.url)
    BY <1>3 DEF StatefulInv, SignalsSound, Told
  <1>5. IsInjective(candidates) /\ Len(candidates) <= MaxRequests
    <2>1. DOMAIN candidates = 1 .. Len(candidates)
      BY LenProperties DEF StatefulInv, StatefulTypeOK
    <2> QED
      BY <2>1 DEF StatefulInv, CandidatesExact, IsInjective
  <1>6. step # "assets" =>
          Len(candidates) = MaxRequests \/ \A i \in 1 .. Len(assetList) : IsListed(assetList[i])
    BY DEF StatefulInv, CandidatesExact
  <1>7. step = "done" =>
          budget = 0 \/ \A i \in 1 .. Len(candidates) : IsSent("page", candidates[i])
    BY <1>3 DEF StatefulInv, PagesLeft
  <1> QED
    BY <1>1, <1>2, <1>4, <1>5, <1>6, <1>7 DEF StatefulExact

\* The values of the variables are those that the code's types allow, the budget never
\* runs below zero (request_budget: usize).
THEOREM StatefulTypeCorrect == StatefulSpec => []StatefulTypeOK
PROOF
  <1>1. StatefulInv => StatefulTypeOK
    BY DEF StatefulInv
  <1> QED
    BY <1>1, StatefulInitial, StatefulStep, PTL DEF StatefulSpec

\* Every request is accounted for, in order and once; the scan asks for all it should
\* or has no budget left (run_stateful_dast).
THEOREM StatefulAlwaysExact == StatefulSpec => []StatefulExact
PROOF
  BY StatefulInitial, StatefulStep, StatefulConclusion, PTL DEF StatefulSpec

=============================================================================
