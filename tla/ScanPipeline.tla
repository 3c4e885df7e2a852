---------------------------- MODULE ScanPipeline ----------------------------
(***************************************************************************)
(* run_file_scan and run_scan_with_ports of cli/src/orchestrator.rs, with   *)
(* the collaborator of cli/src/collaborator.rs that stores callbacks while  *)
(* the scan runs.                                                           *)
(*                                                                         *)
(* A target is [host, plan]: host is "domain", "ip" or "none" (a URL        *)
(* without a host), and plan[s] is what stage s finds there, or NoResult if *)
(* the stage fails.  An asset is its kind, a finding [id, verified].  For   *)
(* "fingerprint", plan[s] has one outcome per URL.  A callback is           *)
(* [protocol, parts, host]: the parts of its path and the first label of    *)
(* its host, or for "dns" the labels before the domain.                     *)
(***************************************************************************)
EXTENDS Naturals, Sequences, FiniteSets, SequencesExt

CONSTANTS
  TargetLists,   \* the lines of the list
  Findings,      \* what the stages may report
  NoResult,
  Oast,          \* values of [url, id], id = NoId if there is none or no database
  NoId,
  Callbacks      \* what the payloads of one target may cause

VARIABLES
  list,        \* the targets
  index,       \* the next one
  oast,        \* the settings
  stage,       \* stage of this target; "next", "done" or "failed"
  looked,      \* URLs of it that were fingerprinted
  found,       \* stage -> what it found
  errors,      \* the error summary of this target
  reports,     \* results: one report per scanned target
  aggregate,   \* the report of all of them
  callbacks,   \* payloads sent whose callbacks have not arrived: <<target, callback>>
  database     \* callback_events, oldest first: [id, from]

scan == <<list, index, oast, stage, looked, found, errors, reports, aggregate>>
unheard == <<callbacks, database>>
pipelineVars == <<scan, unheard>>

AssetKinds == {"subdomain", "profile", "path", "parameter", "endpoint", "flow", "service"}
AssetStages == {"discovery", "session", "browser", "api", "fuzzing", "stateful_assets", "ports"}
FindingStages == {"vulnerability", "stateful", "network_rules", "cve"}

\* The stages that may fail and are then passed over, in their order.
Following == [browser |-> "api", api |-> "fuzzing", fuzzing |-> "stateful",
              stateful |-> "vulnerability", vulnerability |-> "network_rules",
              network_rules |-> "cve", cve |-> "callbacks"]

ASSUME PipelineAssumption ==
  /\ NoResult # <<>>
  /\ \A f \in Findings : f.verified \in BOOLEAN
  /\ \A l \in TargetLists :
       /\ Len(l) \in Nat /\ DOMAIN l = 1 .. Len(l)
       /\ \A n \in DOMAIN l :
            /\ \A s \in AssetStages \ {"stateful_assets"} :
                 l[n].plan[s] = NoResult \/ l[n].plan[s] \in Seq(AssetKinds)
            /\ l[n].plan["session"] # NoResult
            /\ \A s \in FindingStages :
                 l[n].plan[s] = NoResult \/ l[n].plan[s] \in Seq(Findings)

Target == list[index]

OtherResults == {"fingerprint", "callbacks", "loaded"}

\* Nothing found: "fingerprint" finds pairs of a URL and a technology, "callbacks"
\* positions of the database; "loaded", a history, is the part of the database that
\* they were found in.
NothingFound == [s \in AssetStages \cup FindingStages \cup OtherResults |->
                   IF s \in OtherResults THEN {} ELSE <<>>]

EmptyAggregate == [assets |-> <<>>, findings |-> <<>>, events |-> {}, paths |-> 0, vulns |-> 0,
                   summaries |-> <<>>]

PipelineInit ==
  /\ list \in TargetLists /\ index = 1 /\ oast \in Oast
  /\ stage = "next" /\ looked = 0 /\ found = NothingFound /\ errors = {}
  /\ reports = <<>> /\ aggregate = EmptyAggregate
  /\ callbacks = {} /\ database = <<>>

-----------------------------------------------------------------------------
(* One target.                                                              *)

\* A URL without a host is an error of this target only.
SkipTarget ==
  /\ stage = "next" /\ index <= Len(list) /\ Target.host = "none"
  /\ index' = index + 1
  /\ UNCHANGED <<list, oast, stage, looked, found, errors, reports, aggregate, unheard>>

\* Discovery is left out for an address; the profile of the session is an asset.
Discover ==
  /\ stage = "next" /\ index <= Len(list) /\ Target.host # "none"
  /\ LET outcome == IF Target.host = "ip" THEN <<>> ELSE Target.plan["discovery"]
     IN  /\ found' = [NothingFound EXCEPT
                        !["discovery"] = IF outcome = NoResult THEN <<>> ELSE outcome,
                        !["session"] = Target.plan["session"]]
         /\ errors' = IF outcome = NoResult THEN {"discovery"} ELSE {}
  /\ stage' = "ports" /\ looked' = 0
  /\ UNCHANGED <<list, index, oast, reports, aggregate, unheard>>

\* run_port_scan_for_domain: a name that cannot be resolved has no services, and
\* that is not in the summary.
ScanPorts ==
  /\ stage = "ports"
  /\ LET outcome == Target.plan["ports"]
     IN  found' = [found EXCEPT !["ports"] = IF outcome = NoResult THEN <<>> ELSE outcome]
  /\ stage' = "fingerprint"
  /\ UNCHANGED <<list, index, oast, looked, errors, reports, aggregate, unheard>>

CountOf(s, kind) == Cardinality({i \in DOMAIN s : s[i] = kind})

\* live_urls: the base URL and every subdomain.
LiveUrls == 1 + CountOf(found["discovery"], "subdomain")

\* One URL after the other, each on its own.
FingerprintUrl ==
  /\ stage = "fingerprint"
  /\ LET outcome == Target.plan["fingerprint"][looked + 1]
     IN  IF outcome = NoResult
         THEN /\ errors' = errors \cup {"fingerprint"}
              /\ UNCHANGED found
         ELSE /\ found' = [found EXCEPT !["fingerprint"] = @ \cup {<<looked + 1, t>> : t \in outcome}]
              /\ UNCHANGED errors
  /\ looked' = looked + 1
  /\ stage' = IF looked + 1 = LiveUrls THEN "browser" ELSE stage
  /\ UNCHANGED <<list, index, oast, reports, aggregate, unheard>>

\* Faulty variant: an error is returned (`?`).
CollectOrReturn ==
  /\ stage \in DOMAIN Following
  /\ LET outcome == Target.plan[stage]
     IN  IF outcome = NoResult
         THEN /\ stage' = "next" /\ index' = index + 1
              /\ UNCHANGED <<found, errors, callbacks>>
         ELSE /\ found' = [found EXCEPT ![stage] = outcome]
              /\ stage' = Following[stage]
              /\ UNCHANGED <<errors, index, callbacks>>
  /\ UNCHANGED <<list, oast, looked, reports, aggregate, database>>

\* A stage that fails finds nothing and is named in the summary.  The payloads of
\* the vulnerability scan carry the callback URL.
Collect ==
  /\ stage \in DOMAIN Following
  /\ LET outcome == Target.plan[stage]
     IN  IF outcome = NoResult
         THEN /\ errors' = errors \cup {stage}
              /\ UNCHANGED found
         ELSE /\ found' = [found EXCEPT
                             ![stage] = outcome,
                             !["stateful_assets"] = IF stage = "stateful" THEN <<"flow">> ELSE @]
              /\ UNCHANGED errors
  /\ callbacks' = callbacks \cup
       (IF stage = "vulnerability" /\ oast.url THEN {index} \X Callbacks ELSE {})
  /\ stage' = Following[stage]
  /\ UNCHANGED <<list, index, oast, looked, reports, aggregate, database>>

\* The events of the scan's identifier, whichever target they come from.
Matching == {e \in DOMAIN database : database[e].id = oast.id}

\* load_oast_callback_events, after the wait: an event that arrives later is not
\* in this report. A database that cannot be read is passed over.
LoadCallbacks(readable) ==
  /\ stage = "callbacks"
  /\ found' = [found EXCEPT
                 !["callbacks"] = IF oast.id # NoId /\ readable THEN Matching ELSE {},
                 !["loaded"] = IF oast.id # NoId /\ readable THEN DOMAIN database ELSE {}]
  /\ stage' = "verification"
  /\ UNCHANGED <<list, index, oast, looked, errors, reports, aggregate, unheard>>

\* callback_events_to_findings.
CallbackFinding == [id |-> "OAST", verified |-> TRUE]

Detected ==
  found["vulnerability"] \o found["stateful"] \o found["network_rules"] \o found["cve"]
  \o (IF found["callbacks"] = {} THEN <<>> ELSE <<CallbackFinding>>)

\* run_verification keeps the order and removes only what was not verified.
Kept ==
  {kept \in UNION {[1 .. n -> DOMAIN Detected] : n \in 0 .. Len(Detected)} :
     /\ \A i, j \in DOMAIN kept : i < j => kept[i] < kept[j]
     /\ \A d \in DOMAIN Detected : Detected[d].verified => \E i \in DOMAIN kept : kept[i] = d}

ReportTarget(kept) ==
  /\ stage = "verification"
  /\ reports' = Append(reports,
       [of       |-> index,
        assets   |-> found["discovery"] \o found["session"] \o found["browser"] \o found["api"]
                     \o found["fuzzing"] \o found["stateful_assets"] \o found["ports"],
        techs    |-> found["fingerprint"],
        findings |-> [i \in DOMAIN kept |-> Detected[kept[i]]],
        events   |-> found["callbacks"],
        loaded   |-> found["loaded"],
        errors   |-> errors,
        paths    |-> CountOf(found["fuzzing"], "path") + CountOf(found["browser"], "path")
                     + CountOf(found["api"], "endpoint"),
        vulns    |-> Len(kept)])
  /\ stage' = "next" /\ index' = index + 1
  /\ UNCHANGED <<list, oast, looked, found, errors, aggregate, unheard>>

-----------------------------------------------------------------------------
(* All targets.                                                             *)

FailAll ==
  /\ stage = "next" /\ index = Len(list) + 1 /\ reports = <<>>
  /\ stage' = "failed"
  /\ UNCHANGED <<list, index, oast, looked, found, errors, reports, aggregate, unheard>>

\* aggregate_scan_results: one report after the other.
Merge ==
  /\ stage = "next" /\ index = Len(list) + 1 /\ Len(aggregate.summaries) < Len(reports)
  /\ LET n == Len(aggregate.summaries) + 1
         r == reports[n]
     IN  aggregate' =
           [assets    |-> aggregate.assets \o r.assets,
            findings  |-> aggregate.findings \o r.findings,
            events    |-> aggregate.events \cup ({n} \X r.events),
            paths     |-> aggregate.paths + r.paths,
            vulns     |-> aggregate.vulns + r.vulns,
            summaries |-> Append(aggregate.summaries,
                                 [target |-> r.of, assets |-> Len(r.assets),
                                  vulns |-> Len(r.findings)])]
  /\ UNCHANGED <<list, index, oast, stage, looked, found, errors, reports, unheard>>

\* sort_by, the most vulnerable first, then by name (in any order here).
Orders(s) ==
  {p \in [DOMAIN s -> DOMAIN s] :
     /\ \A i, j \in DOMAIN s : p[i] = p[j] => i = j
     /\ \A i, j \in DOMAIN s : i < j => s[p[i]].vulns >= s[p[j]].vulns}

SortSummaries ==
  /\ stage = "next" /\ index = Len(list) + 1
  /\ reports # <<>> /\ Len(aggregate.summaries) = Len(reports)
  /\ \E p \in Orders(aggregate.summaries) :
       aggregate' = [aggregate EXCEPT !.summaries = [i \in DOMAIN @ |-> @[p[i]]]]
  /\ stage' = "done"
  /\ UNCHANGED <<list, index, oast, looked, found, errors, reports, unheard>>

-----------------------------------------------------------------------------
(* The collaborator.                                                        *)

\* correlation_from_path, or the first label of the host; for "dns" the first label.
Correlation(c) ==
  LET parts == SelectSeq(c.parts, LAMBDA p : p \notin {"cb", "callback"})
  IN  CASE c.protocol = "http" /\ parts # <<>> -> Head(parts)
        [] c.host # NoId -> c.host
        [] OTHER -> "unknown"

\* One task per connection; the database is behind a mutex. A connection that
\* cannot be read, or an insertion that fails, leaves nothing.
Arrive(callback) ==
  /\ callbacks' = callbacks \ {callback}
  /\ database' = Append(database, [id |-> Correlation(callback[2]), from |-> callback[1]])
  /\ UNCHANGED scan

LoseCallback(callback) ==
  /\ callbacks' = callbacks \ {callback}
  /\ UNCHANGED <<scan, database>>

-----------------------------------------------------------------------------
PipelineStep ==
  \/ SkipTarget \/ Discover \/ ScanPorts \/ FingerprintUrl \/ Collect
  \/ \E readable \in BOOLEAN : LoadCallbacks(readable)
  \/ \E kept \in Kept : ReportTarget(kept)
  \/ FailAll \/ Merge \/ SortSummaries

PipelineNext ==
  \/ PipelineStep
  \/ \E callback \in callbacks : Arrive(callback) \/ LoseCallback(callback)

PipelineSpec == PipelineInit /\ [][PipelineNext]_pipelineVars

-----------------------------------------------------------------------------
(* What the reports say.                                                    *)

Fails(t, s) == t.plan[s] = NoResult /\ ~(s = "discovery" /\ t.host = "ip")

Outcome(t, s) ==
  CASE s = "discovery" /\ t.host = "ip" -> <<>>
    [] s = "stateful_assets" -> IF t.plan["stateful"] = NoResult THEN <<>> ELSE <<"flow">>
    [] s \notin {"discovery", "stateful_assets"} \/ (s = "discovery" /\ t.host # "ip") ->
       IF t.plan[s] = NoResult THEN <<>> ELSE t.plan[s]

\* The outcomes for the base URL and the subdomains.
Fingerprints(t) ==
  LET urls == 1 .. 1 + CountOf(Outcome(t, "discovery"), "subdomain")
  IN  [u \in urls |-> t.plan["fingerprint"][u]]

FailedStages(t) ==
  {s \in {"discovery"} \cup DOMAIN Following : Fails(t, s)}
  \cup (IF \E u \in DOMAIN Fingerprints(t) : Fingerprints(t)[u] = NoResult
        THEN {"fingerprint"} ELSE {})

\* Every asset of every stage that succeeded, once; the technologies of every URL
\* that answered; every verified finding, and none that its stages did not detect;
\* the failed stages in the summary; and of the callbacks with the scan's identifier
\* those of its own payloads that were stored when they were loaded, and none that
\* was stored later.
ReportExact(r) ==
  LET t    == list[r.of]
      O(s) == Outcome(t, s)
  IN  /\ r.assets = O("discovery") \o O("session") \o O("browser") \o O("api")
                    \o O("fuzzing") \o O("stateful_assets") \o O("ports")
      /\ \A u \in DOMAIN Fingerprints(t) : Fingerprints(t)[u] # NoResult =>
           \A x \in Fingerprints(t)[u] : <<u, x>> \in r.techs
      /\ \A p \in r.techs : /\ p[1] \in DOMAIN Fingerprints(t)
                            /\ Fingerprints(t)[p[1]] # NoResult /\ p[2] \in Fingerprints(t)[p[1]]
      /\ \A f \in ToSet(r.findings) :
           (f = CallbackFinding /\ r.events # {}) \/ \E s \in FindingStages : f \in ToSet(O(s))
      /\ \A s \in FindingStages : \A f \in ToSet(O(s)) : f.verified => f \in ToSet(r.findings)
      /\ r.events # {} => CallbackFinding \in ToSet(r.findings)
      /\ r.vulns = Len(r.findings)
      /\ r.errors = FailedStages(t)
      /\ r.events \subseteq r.loaded /\ \A e \in r.events : database[e].id = oast.id
      /\ \A e \in r.loaded :
           e \in DOMAIN database /\ (database[e] = [id |-> oast.id, from |-> r.of] => e \in r.events)

\* whole is the concatenation of the parts.
Concatenates(whole, parts) ==
  \E ends \in [0 .. Len(parts) -> 0 .. Len(whole)] :
    /\ ends[0] = 0 /\ ends[Len(parts)] = Len(whole)
    /\ \A i \in 1 .. Len(parts) :
         /\ ends[i] = ends[i - 1] + Len(parts[i])
         /\ \A k \in 1 .. Len(parts[i]) : whole[ends[i - 1] + k] = parts[i][k]

\* The aggregate is the reports, one after the other, and a summary of each.
AggregateExact ==
  /\ Concatenates(aggregate.assets, [i \in DOMAIN reports |-> reports[i].assets])
  /\ Concatenates(aggregate.findings, [i \in DOMAIN reports |-> reports[i].findings])
  /\ aggregate.vulns = Len(aggregate.findings)
  /\ aggregate.events = UNION {{i} \X reports[i].events : i \in DOMAIN reports}
  /\ Len(aggregate.summaries) = Len(reports)
  /\ \A i \in DOMAIN reports : \E k \in DOMAIN aggregate.summaries :
       aggregate.summaries[k] = [target |-> reports[i].of, assets |-> Len(reports[i].assets),
                                 vulns |-> Len(reports[i].findings)]
  /\ \A k \in 2 .. Len(reports) : aggregate.summaries[k].vulns <= aggregate.summaries[k - 1].vulns

\* One failed stage takes nothing else with it, and one failed target no other:
\* every target with a host has its report, in the order of the list, which is exact
\* whatever fails in it: with the callbacks of its own payloads that came in time,
\* whatever else the collaborator stores at the same time. The aggregate is exactly
\* the reports, and there is one unless no target could be scanned
\* (run_scan_with_ports, load_oast_callback_events, run_file_scan,
\* aggregate_scan_results).
PipelineExact ==
  /\ \A r \in ToSet(reports) :
       ReportExact(r) /\ r.of \in 1 .. index - 1 /\ list[r.of].host # "none"
  /\ \A i \in DOMAIN reports : \A j \in 1 .. i - 1 : reports[j].of < reports[i].of
  /\ \A n \in 1 .. index - 1 : list[n].host # "none" => \E i \in DOMAIN reports : reports[i].of = n
  /\ stage \in {"done", "failed"} =>
       index = Len(list) + 1 /\ (stage = "failed") = (reports = <<>>)
  /\ stage = "done" => AggregateExact

\* A callback is evidence of the target whose payload caused it, and of no other:
\* with a correlation ID per target, a report has callbacks of its own target only.
\* load_oast_callback_events does not do this: the ID is one per command.
OwnCallbacksOnly == \A r \in ToSet(reports) : \A e \in r.events : database[e].from = r.of

=============================================================================
