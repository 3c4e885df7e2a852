------------------------------ MODULE Discovery ------------------------------
(***************************************************************************)
(* run_discovery of discovery/src/lib.rs: candidate host names from the     *)
(* CT logs (passive.rs, with its cache file), a word list, the heuristic    *)
(* generator and a zone transfer; DNS look-ups (dns.rs); HTTP probes of     *)
(* what was found (probe.rs).  A scan may be killed while it writes the     *)
(* cache file, and later scans find that file.                              *)
(*                                                                         *)
(* A host name is a label and how often the domain is written behind it:    *)
(* "www" is 0 times, "www.example.com" once.                               *)
(***************************************************************************)
EXTENDS Naturals, FiniteSets, Functions

CONSTANTS
  WordLabels,        \* the labels of the word list
  HeuristicLabels,   \* those of generate_candidates
  CertLists,         \* lists that crt.sh answers with: sets of [host, inside]
  ZoneRecords,       \* what a name server answers with: sets of [host, inside]
  Addresses,         \* what DNS returns for a host name that exists
  WildcardAddresses, \* and for one that does not: {} without a wildcard
  ProbeAnswers,      \* what a probed host answers with: [landing, location], where the
                     \* redirects end that the client follows, and the Location of the
                     \* response that it gets there
  NoLocation,
  CacheHours,        \* CACHE_TTL_SECS
  CertAttempts,      \* MAX_RETRIES of passive.rs: 3
  MaxScans           \* bound: scans in a row

ASSUME DiscoveryAssumption ==
  /\ CacheHours \in Nat /\ MaxScans \in Nat
  /\ CertAttempts \in Nat \ {0}

VARIABLES
  mode,        \* DiscoveryMode
  stages,      \* what is left to do, in the order of Order
  hosts,       \* hostname_set
  certAttempt, \* requests to crt.sh that failed in this scan
  cache,       \* the cache file
  wildcard,    \* the addresses of the wildcard record, as far as known
  asked,       \* the names that were looked up
  found,       \* subdomain_assets
  probed,      \* the results of probe_all, in the order of the hosts
  scans,       \* scans so far
  sources,     \* history: what crt.sh and the zone transfer gave this scan
  lastList     \* history: the latest list of crt.sh, and its age

namingVars == <<mode, stages, hosts, certAttempt, cache, wildcard, asked, found, probed, scans,
                sources, lastList>>

-----------------------------------------------------------------------------

Modes == {"PassiveOnly", "ActiveBruteforce", "SmartHeuristic", "Hybrid"}

\* The sources of each mode.
SourcesOf(m) ==
  CASE m = "PassiveOnly"      -> {"passive"}
    [] m = "ActiveBruteforce" -> {"bruteforce", "zone"}
    [] m = "SmartHeuristic"   -> {"heuristic"}
    [] m = "Hybrid"           -> {"passive", "bruteforce", "heuristic", "zone"}

StagesOf(m) == SourcesOf(m) \cup {"resolver", "wildcard", "lookup", "probe"}

\* The order of the code, the same in all modes.
Order == [passive |-> 1, bruteforce |-> 2, heuristic |-> 3, zone |-> 4, resolver |-> 5,
          wildcard |-> 6, lookup |-> 7, probe |-> 8]

\* format!("{label}.{domain}")
Fqdn(host) == [host EXCEPT !.under = @ + 1]

Named(labels) == {Fqdn([label |-> l, under |-> 0]) : l \in labels}

\* generate_candidates: the crossed tags, every one once.
Heuristic == Named(HeuristicLabels)

\* load_wordlist: blank lines and comments are no labels.
WordNames == Named(WordLabels)

\* The names of the domain in an answer of crt.sh, or in the records of a zone.
Inside(names) == {n.host : n \in {c \in names : c.inside}}

CacheUsable == cache.file = "whole" /\ cache.age < CacheHours

NamesInit ==
  /\ mode \in Modes
  /\ stages = StagesOf(mode)
  /\ hosts = {} /\ certAttempt = 0 /\ wildcard = {}
  /\ cache = [file |-> "missing", names |-> {}, age |-> 0]
  /\ asked = {} /\ found = {} /\ probed = <<>> /\ scans = 1
  /\ sources = [passive |-> {}, zone |-> {}]
  /\ lastList = [names |-> {}, age |-> CacheHours]

At(stage) == stage \in stages /\ \A s \in stages : Order[stage] <= Order[s]

Proceed(stage) == stages' = stages \ {stage}

Collect(names) == hosts' = hosts \cup names

\* What the stages that collect names leave alone.
later == <<mode, wildcard, asked, found, probed, scans>>

-----------------------------------------------------------------------------
(* collect_passive: fetch_crtsh_with_cache.                                *)

UseCache ==
  /\ At("passive") /\ CacheUsable
  /\ Collect(cache.names)
  /\ sources' = [sources EXCEPT !.passive = cache.names]
  /\ Proceed("passive")
  /\ UNCHANGED <<later, certAttempt, cache, lastList>>

\* No connection, or a server error: the request is repeated after a pause.
RetryPassive ==
  /\ At("passive") /\ ~CacheUsable
  /\ certAttempt + 1 < CertAttempts
  /\ certAttempt' = certAttempt + 1
  /\ UNCHANGED <<later, stages, hosts, cache, sources, lastList>>

\* Faulty variant of FailPassive: the failure is cached as an empty list.
FailPassiveCached ==
  /\ At("passive") /\ ~CacheUsable
  /\ Proceed("passive")
  /\ cache' = [file |-> "whole", names |-> {}, age |-> 0]
  /\ UNCHANGED <<later, hosts, certAttempt, sources, lastList>>

\* The last attempt failed, or the answer is another error or no JSON: the scan
\* goes on without the CT logs.
FailPassive ==
  /\ At("passive") /\ ~CacheUsable
  /\ Proceed("passive")
  /\ UNCHANGED <<later, hosts, certAttempt, cache, sources, lastList>>

\* A list arrives.  An error in writing the cache file is ignored.
FetchPassive(list, written) ==
  /\ At("passive") /\ ~CacheUsable
  /\ LET names == Inside(list)
     IN  /\ Collect(names)
         /\ sources' = [sources EXCEPT !.passive = names]
         /\ lastList' = [names |-> names, age |-> 0]
         /\ cache' = IF written THEN [file |-> "whole", names |-> names, age |-> 0] ELSE cache
  /\ Proceed("passive")
  /\ UNCHANGED <<later, certAttempt>>

\* Killed while the cache file is being written.
CrashWriting(list) ==
  /\ At("passive") /\ ~CacheUsable
  /\ lastList' = [names |-> Inside(list), age |-> 0]
  /\ cache' = [file |-> "torn", names |-> {}, age |-> 0]
  /\ stages' = {}
  /\ UNCHANGED <<later, hosts, certAttempt, sources>>

-----------------------------------------------------------------------------
(* The other sources.                                                      *)

CollectBruteforce ==
  /\ At("bruteforce")
  /\ Collect(WordNames)
  /\ Proceed("bruteforce")
  /\ UNCHANGED <<later, certAttempt, cache, sources, lastList>>

\* The two errors that are passed on: a word list that cannot be read and a
\* resolver that cannot be created.
Fail ==
  /\ At("bruteforce") \/ At("resolver")
  /\ stages' = {}
  /\ UNCHANGED <<later, hosts, certAttempt, cache, sources, lastList>>

CollectHeuristic ==
  /\ At("heuristic")
  /\ Collect(Heuristic)
  /\ Proceed("heuristic")
  /\ UNCHANGED <<later, certAttempt, cache, sources, lastList>>

\* The records of the name servers that answered; a refusal adds nothing.
CollectZone(records) ==
  /\ At("zone")
  /\ Collect(Inside(records))
  /\ sources' = [sources EXCEPT !.zone = Inside(records)]
  /\ Proceed("zone")
  /\ UNCHANGED <<later, certAttempt, cache, lastList>>

-----------------------------------------------------------------------------
(* DnsResolver::bruteforce and probe_all.                                  *)

collected == <<mode, hosts, certAttempt, cache, scans, sources, lastList>>

CreateResolver ==
  /\ At("resolver")
  /\ Proceed("resolver")
  /\ UNCHANGED <<collected, wildcard, asked, found, probed>>

\* wildcard_ips: a look-up that fails counts as "no wildcard".
DetectWildcard(answered) ==
  /\ At("wildcard")
  /\ wildcard' = IF answered THEN WildcardAddresses ELSE {}
  /\ Proceed("wildcard")
  /\ UNCHANGED <<collected, asked, found, probed>>

AddressesOf(name) ==
  IF name \in DOMAIN Addresses THEN Addresses[name] ELSE WildcardAddresses

\* A name is kept unless all its addresses are those of the wildcard.
IsAlive(name) ==
  AddressesOf(name) # {} /\ ~(wildcard # {} /\ AddressesOf(name) \subseteq wildcard)

\* The tasks of all words; they share nothing but a semaphore.  Each writes the
\* domain behind its word.  Those of the words in `unanswered` fail.
LookUp(unanswered) ==
  /\ At("lookup")
  /\ asked' = {Fqdn(word) : word \in hosts}
  /\ found' = {name \in {Fqdn(word) : word \in hosts \ unanswered} : IsAlive(name)}
  /\ Proceed("lookup")
  /\ UNCHANGED <<collected, wildcard, probed>>

\* Probes, each over HTTPS and then HTTP, whose client follows redirects: `live` are
\* the hosts that answer, in some order.  mark_duplicates compares the Locations of the
\* responses that are left.
ProbeAll(live, answers) ==
  /\ At("probe")
  /\ probed' = [i \in DOMAIN live |->
       [host      |-> live[i],
        url       |-> IF answers[i].landing = NoLocation THEN live[i] ELSE answers[i].landing,
        location  |-> answers[i].location,
        duplicate |-> /\ answers[i].location # NoLocation
                      /\ \E j \in 1 .. i - 1 : answers[j].location = answers[i].location]]
  /\ Proceed("probe")
  /\ UNCHANGED <<collected, wildcard, asked, found>>

\* Another scan, some hours later.
NextScan(hours) ==
  /\ stages = {} /\ scans < MaxScans
  /\ scans' = scans + 1
  /\ mode' \in Modes /\ stages' = StagesOf(mode')
  /\ hosts' = {} /\ certAttempt' = 0 /\ wildcard' = {} /\ asked' = {} /\ found' = {}
  /\ probed' = <<>> /\ sources' = [passive |-> {}, zone |-> {}]
  /\ cache' = [cache EXCEPT !.age = @ + hours]
  /\ lastList' = [lastList EXCEPT !.age = @ + hours]

\* What a scan does next, but for being killed.
NamesStep ==
  \/ UseCache
  \/ RetryPassive
  \/ FailPassive
  \/ \E list \in CertLists, written \in BOOLEAN : FetchPassive(list, written)
  \/ CollectBruteforce
  \/ Fail
  \/ CollectHeuristic
  \/ \E records \in ZoneRecords : CollectZone(records)
  \/ CreateResolver
  \/ \E answered \in BOOLEAN : DetectWildcard(answered)
  \/ \E unanswered \in SUBSET hosts : LookUp(unanswered)
  \/ \E n \in 0 .. Cardinality(found) :
       \E live \in {f \in [1 .. n -> found] : IsInjective(f)},
          answers \in [1 .. n -> ProbeAnswers] : ProbeAll(live, answers)

NamesNext ==
  \/ NamesStep
  \/ \E list \in CertLists : CrashWriting(list)
  \/ \E hours \in {1, CacheHours} : NextScan(hours)

NamesSpec == NamesInit /\ [][NamesNext]_namingVars

-----------------------------------------------------------------------------
(* Properties.                                                             *)

NamesTypeOK ==
  /\ mode \in Modes
  /\ certAttempt \in 0 .. CertAttempts - 1
  /\ cache.file \in {"missing", "whole", "torn"}
  /\ wildcard \in {{}, WildcardAddresses}
  /\ found \subseteq asked
  /\ \A i \in DOMAIN probed : probed[i].host \in found

\* The names that a source gave this scan.
NamesOf(source) ==
  CASE source = "passive"    -> sources.passive
    [] source = "bruteforce" -> WordNames
    [] source = "heuristic"  -> Heuristic
    [] source = "zone"       -> sources.zone

\* Each source adds its names whatever happens to the others: when a scan comes to the
\* look-ups, it has collected every name of every source of its mode and no other, a
\* source that failed being empty (what is looked up for them: CollectedIsLookedUp); a
\* cache file that is used holds the latest list of crt.sh, never the outcome of a
\* failed request, a torn file or a list that is a day old; and a wildcard that was
\* seen gives no subdomain.
DiscoveryFaithful ==
  /\ asked # {} => hosts = UNION {NamesOf(s) : s \in SourcesOf(mode)}
  /\ CacheUsable => cache.names = lastList.names /\ cache.age = lastList.age
  /\ wildcard # {} => found \cap {n \in asked : n \notin DOMAIN Addresses} = {}

\* A host name that was collected is looked up ("All three methods combined with
\* deduplication before DNS resolution", discovery/src/lib.rs:40).
CollectedIsLookedUp == asked # {} => hosts \subseteq asked

=============================================================================
