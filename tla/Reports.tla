------------------------------- MODULE Reports -------------------------------
(***************************************************************************)
(* What is made of the results of successive scans: the findings about      *)
(* their services and the drift of these (cli/src/orchestrator.rs), the     *)
(* scan history, the report files, the graph with its groups of findings    *)
(* and actions, and the comparison with the scan before (reporter crate).   *)
(* One step is one file, and one group of findings in the loop over the     *)
(* actions.                                                                 *)
(*                                                                         *)
(* A scan is [target, started, assets, services, stacks, findings].  A URL   *)
(* is [tcp, host, port, path].  A finding is [id, class, url, parameter,    *)
(* severity, cvss, verified, proof, remediation], where class is "cve",     *)
(* "header" or "other" after its id, cvss is in tenths, and proof, like a   *)
(* banner, is a set of marks.  A service is [endpoint, protocol, product,   *)
(* version, tls, auth, signals, banner, handshake], an asset [type, url,    *)
(* admin], a stack [url, techs].                                            *)
(***************************************************************************)
EXTENDS Integers, Sequences, FiniteSets, SequencesExt, FiniteSetsExt

CONSTANTS
  ScanLists,
  Reviews,          \* [suppressions, now] of a comparison
  NoText,           \* None
  NoPort,           \* a URL without a port
  Forever,          \* no expiry
  Unwritten,        \* the file is not there yet
  Lower,            \* text with capitals -> the same in lower case
  PublicHosts,      \* hosts is_public_surface takes for public
  SensitiveMarks,   \* what the regular expressions of the redaction match
  MaxPoints,        \* 100
  MaxActions        \* 10

Severities == {"info", "low", "medium", "high", "critical"}

IsList(s) == s \in Seq({s[i] : i \in DOMAIN s})

IsFinding(f) ==
  /\ {"id", "class", "url", "parameter", "severity", "cvss", "verified", "proof", "remediation"}
       \subseteq DOMAIN f
  /\ f.cvss \in Nat /\ f.severity \in Severities

IsService(s) ==
  {"endpoint", "protocol", "product", "version", "tls", "auth", "signals", "banner", "handshake"}
    \subseteq DOMAIN s

IsScan(scan) ==
  /\ {"target", "started", "assets", "services", "stacks", "findings"} \subseteq DOMAIN scan
  /\ scan.started \in Nat
  /\ IsList(scan.findings) /\ \A i \in DOMAIN scan.findings : IsFinding(scan.findings[i])
  /\ IsList(scan.services) /\ \A i \in DOMAIN scan.services : IsService(scan.services[i])

ASSUME ReportAssumption ==
  /\ MaxPoints \in Nat \ {0} /\ MaxActions \in Nat \ {0}
  /\ \A list \in ScanLists :
       IsList(list) /\ list # <<>> /\ \A i \in DOMAIN list : IsScan(list[i])

VARIABLES
  series,     \* the results of successive scans
  review,    \* how they are compared
  at,        \* the scan whose files are written
  writing,   \* the next step
  rows,      \* scan_history: [target, started, findings]
  groups,    \* the deduplicated findings, the riskiest first
  merged,    \* how many of them were added to an action
  advice,    \* the actions so far: remediation -> [risk, findings]
  output     \* name -> content of the files of this scan

reportVars == <<series, review, at, writing, rows, groups, merged, advice, output>>

-----------------------------------------------------------------------------
(* compare_reports.                                                         *)

FindingKey(f) == <<f.id, f.url, f.parameter>>

\* finding_map: of findings with one key the last stays.
FindingMap(findings) ==
  [k \in {FindingKey(findings[i]) : i \in DOMAIN findings} |->
     findings[Max({i \in DOMAIN findings : FindingKey(findings[i]) = k})]]

SuppressionMatches(s, f, now) ==
  /\ s.id = f.id
  /\ s.contains = NoText \/ s.contains = f.url.path
  /\ s.expires = Forever \/ s.expires > now

DiffStatus(before, after, k) ==
  IF k \notin DOMAIN before THEN "new"
  ELSE IF k \notin DOMAIN after THEN "fixed"
  ELSE IF before[k].severity # after[k].severity THEN "severity_changed"
  ELSE "unchanged"

Suppressed(findings, suppressions, now) ==
  LET all == FindingMap(findings)
  IN  {k \in DOMAIN all : \E s \in suppressions : SuppressionMatches(s, all[k], now)}

Without(map, keys) == [k \in DOMAIN map \ keys |-> map[k]]

\* Faulty variant: a suppressed finding stays in the baseline.
CompareReportsOneSided(baseline, current, suppressions, now) ==
  LET suppressed == Suppressed(current, suppressions, now)
      before == FindingMap(baseline)
      after  == Without(FindingMap(current), suppressed)
  IN  [suppressed |-> suppressed,
       status |-> [k \in DOMAIN before \cup DOMAIN after |-> DiffStatus(before, after, k)]]

CompareReports(baseline, current, suppressions, now) ==
  LET suppressed == Suppressed(current, suppressions, now)
      before == Without(FindingMap(baseline), suppressed)
      after  == Without(FindingMap(current), suppressed)
  IN  [suppressed |-> suppressed,
       status |-> [k \in DOMAIN before \cup DOMAIN after |-> DiffStatus(before, after, k)]]

-----------------------------------------------------------------------------
(* Findings about services (orchestrator.rs).                               *)

HasSignal(service, signal) == signal \in service.signals

NotEncrypted(s) == s.tls # TRUE \/ HasSignal(s, "tls_not_supported")

Databases == {"postgresql", "mysql", "mssql", "mongodb"}

\* exposure_combination_findings: at most one per service, the first that applies.
ExposureOf(s) ==
  IF ~HasSignal(s, "publicly_routable") THEN "none"
  ELSE IF s.protocol \in Databases /\ NotEncrypted(s) THEN "database"
  ELSE IF s.protocol = "redis" /\ s.auth = FALSE THEN "redis"
  ELSE IF s.protocol = "rdp" /\ "windows server 2008" \in s.banner THEN "rdp"
  ELSE IF \E signal \in {"administrative_interface", "remote_management_service",
                         "message_broker_service"} : HasSignal(s, signal) THEN "management"
  ELSE "none"

ListenerOf(s) == <<s.endpoint, s.protocol>>

ListenerMap(services) ==
  [k \in {ListenerOf(services[i]) : i \in DOMAIN services} |->
     services[Max({i \in DOMAIN services : ListenerOf(services[i]) = k})]]

ProfileChanged(old, new) ==
  \E field \in {"product", "version"} : NoText \notin {old[field], new[field]} /\ old[field] # new[field]

\* service_drift_findings: one per new service, per listener that is gone, and per
\* listener whose product or version is another.
Drift(baseline, current) ==
  LET before == ListenerMap(baseline)
      after  == ListenerMap(current)
      Risky(s) == s.signals \cap {"publicly_routable", "remote_management_service",
                                  "administrative_interface", "database_or_cache_service",
                                  "message_broker_service"} # {}
      new == {i \in DOMAIN current : ListenerOf(current[i]) \notin DOMAIN before}
  IN  [new |-> [i \in new |-> [listener |-> ListenerOf(current[i]),
                               severity |-> IF Risky(current[i]) THEN "medium" ELSE "info"]],
       removed |-> DOMAIN before \ DOMAIN after,
       changed |-> {k \in DOMAIN before \cap DOMAIN after : ProfileChanged(before[k], after[k])}]

-----------------------------------------------------------------------------
(* The scan history.                                                        *)

\* INSERT OR REPLACE: one row per target and start.
RecordHistory(scan) ==
  {r \in rows : <<r.target, r.started>> # <<scan.target, scan.started>>}
  \cup {[target |-> scan.target, started |-> scan.started, findings |-> Len(scan.findings)]}

AllOf(s, S) == \A x \in S : \E i \in DOMAIN s : s[i] = x

\* The rows of a target, oldest first.
ByAge(S) ==
  {s \in [1 .. Cardinality(S) -> S] :
     AllOf(s, S) /\ \A i, j \in DOMAIN s : i < j => s[i].started < s[j].started}

FirstFew(s, n) == SubSeq(s, 1, IF Len(s) < n THEN Len(s) ELSE n)

-----------------------------------------------------------------------------
(* The graph.                                                               *)

SeverityScore(f) ==
  IF f.severity = "critical" THEN 100
  ELSE IF f.severity = "high" THEN 80
  ELSE IF f.severity = "medium" THEN 55
  ELSE IF f.severity = "low" THEN 25 ELSE 5

\* risk_score in tenths; factors in percent, at most 1000.
RiskScore(f) ==
  LET base == 10 * (IF f.cvss > SeverityScore(f) THEN f.cvss ELSE SeverityScore(f))
      Times(n, on, percent) == IF on THEN (n * percent) \div 100 ELSE n
      verified == Times(base, f.verified, 120)
      cve      == Times(verified, f.class = "cve", 120)
      kev      == Times(cve, "kev" \in f.proof, 125)
      epss     == Times(kev, "epss" \in f.proof, 110)
      auth     == Times(epss, "auth" \in f.proof, 85)
      exposed  == Times(auth, TRUE, IF f.url.host \in PublicHosts THEN 110 ELSE 90)
  IN  IF exposed > 1000 THEN 1000 ELSE exposed

\* root_cause_key: a missing header is one cause per host.
RootCause(f) ==
  <<f.id, f.url.host, IF f.class = "header" THEN NoText ELSE f.parameter>>

OfCause(findings, k) == {i \in DOMAIN findings : RootCause(findings[i]) = k}

\* max_by: the last of the riskiest findings.
Representative(findings, S) ==
  findings[Max({i \in S : \A j \in S : RiskScore(findings[j]) <= RiskScore(findings[i])})]

GroupOf(findings, k) ==
  LET top == Representative(findings, OfCause(findings, k))
  IN  [key |-> k, top |-> top, risk |-> RiskScore(top),
       occurrences |-> Cardinality(OfCause(findings, k))]

CausesOf(findings) == {RootCause(findings[i]) : i \in DOMAIN findings}

\* sort_by the risk. Which of equal risks comes first is left open.
ByRisk(S) ==
  {s \in [1 .. Cardinality(S) -> S] :
     AllOf(s, S) /\ \A i, j \in DOMAIN s : i < j => s[j].risk <= s[i].risk}

\* Groups with one remediation are one action.
AdviceOf(g) == <<g.top.remediation, IF g.top.remediation = NoText THEN g.top.id ELSE NoText>>

Segmented == {"database_or_cache_service", "message_broker_service",
              "remote_management_service", "administrative_interface"}

\* Sensitive services add one action.
Segmentation(services) ==
  LET sensitive == {i \in DOMAIN services : services[i].signals \cap Segmented # {}}
      public == {i \in sensitive : HasSignal(services[i], "publicly_routable")}
  IN  IF sensitive = {} THEN {}
      ELSE {[advice |-> <<"segment", NoText>>, risk |-> IF public = {} THEN 550 ELSE 950,
             findings |-> Cardinality(public)]}

AllActions(services) ==
  {[advice |-> a, risk |-> advice[a].risk, findings |-> advice[a].findings] : a \in DOMAIN advice}
  \cup Segmentation(services)

\* attack_path_hints.
Hints(scan) ==
  LET public == {i \in DOMAIN scan.services : HasSignal(scan.services[i], "publicly_routable")}
      Seen(class) == \E g \in ToSet(groups) : g.top.class = class
      reachable == \E a \in scan.assets : a.type \in {"service", "url"} /\ a.url.host \in PublicHosts
      Exposed(P(_)) == \E i \in public : P(scan.services[i])
  IN  {h \in {"admin", "cve", "database", "redis", "management"} :
         \/ h = "admin" /\ (\E a \in scan.assets : a.admin) /\ Seen("header") /\ reachable
         \/ h = "cve"   /\ Seen("cve") /\ reachable
         \/ h = "database" /\ Exposed(LAMBDA s : s.protocol \in Databases /\ s.tls # TRUE)
         \/ h = "redis" /\ Exposed(LAMBDA s : s.protocol = "redis" /\ s.auth = FALSE)
         \/ h = "management" /\ Exposed(LAMBDA s : HasSignal(s, "remote_management_service"))}

\* service_risk_score, in tenths.
ServiceRisk(s) ==
  LET public == HasSignal(s, "publicly_routable")
      sensitive == s.signals \cap Segmented # {}
      open == s.auth = FALSE
  IN  IF public THEN IF sensitive THEN IF open THEN 950 ELSE 750 ELSE 550
      ELSE IF sensitive THEN IF open THEN 450 ELSE 250 ELSE 50

GraphNode(id, risk) == [id |-> id, risk |-> risk]

Lowered(text) == IF text \in DOMAIN Lower THEN Lower[text] ELSE text

\* node_id: the text of a node in lower case, which can be that of another node.
NodeId(kind, text) == <<kind, Lowered(text)>>

UrlId(kind, u) == <<kind, [u EXCEPT !.host = Lowered(@), !.path = Lowered(@)]>>

CauseId(k) == <<"finding", <<Lowered(k[1]), Lowered(k[2]), Lowered(k[3])>>>>

Tech(name, version) == <<"tech", Lowered(name), Lowered(version)>>

\* A URL with a port is a service that listens on it.
ListensOn(u) == IF u.port = NoPort THEN {} ELSE {UrlId("service", u), <<"port", u.port>>}

AssetId(a) ==
  IF a.type \in {"subdomain", "ip"} THEN NodeId(a.type, a.url.host)
  ELSE UrlId(IF a.type = "service" THEN "service" ELSE "endpoint", a.url)

\* The product of the first service at the URL of a CVE.
AffectedTechs(services, u) ==
  {Tech(services[i].product, services[i].version) :
     i \in {k \in DOMAIN services : /\ services[k].endpoint = u /\ services[k].product # NoText
                                    /\ \A j \in 1 .. k - 1 : services[j].endpoint # u}}

\* What build_asset_graph adds for an asset, a service, a stack and a group, with the
\* risk in tenths; how sure a technology is is left out.
AssetNodes(a) == {GraphNode(id, 0) : id \in {AssetId(a)} \cup ListensOn(a.url)}

AssetEdges(target, a) ==
  {<<target, AssetId(a)>>}
  \cup (IF a.url.port = NoPort THEN {} ELSE {<<UrlId("service", a.url), <<"port", a.url.port>>>>})

ServiceNodes(s) ==
  LET public == HasSignal(s, "publicly_routable")
  IN  {GraphNode(NodeId("ip", s.endpoint.host), 0), GraphNode(UrlId("service", s.endpoint), ServiceRisk(s)),
       GraphNode(<<"port", s.endpoint.port>>, 0),
       GraphNode(<<"exposure", public>>, IF public THEN 550 ELSE 100)}
      \cup (IF s.product = NoText THEN {} ELSE {GraphNode(Tech(s.product, s.version), 0)})

ServiceEdges(target, s) ==
  LET service == UrlId("service", s.endpoint)
  IN  {<<target, NodeId("ip", s.endpoint.host)>>, <<NodeId("ip", s.endpoint.host), service>>,
       <<service, <<"port", s.endpoint.port>>>>,
       <<service, <<"exposure", HasSignal(s, "publicly_routable")>>>>}
      \cup (IF s.product = NoText THEN {} ELSE {<<service, Tech(s.product, s.version)>>})

StackNodes(k) ==
  {GraphNode(UrlId("endpoint", k.url), 0)} \cup {GraphNode(Tech(t[1], t[2]), 0) : t \in k.techs}

StackEdges(target, k) ==
  {<<target, UrlId("endpoint", k.url)>>} \cup {<<UrlId("endpoint", k.url), Tech(t[1], t[2])>> : t \in k.techs}

GroupNodes(services, g) ==
  {GraphNode(CauseId(g.key), g.risk), GraphNode(UrlId("endpoint", g.top.url), 0)}
  \cup (IF g.top.url.tcp THEN {GraphNode(UrlId("service", g.top.url), g.risk)} ELSE {})
  \cup (IF g.top.class = "cve"
        THEN {GraphNode(NodeId("cve", g.top.id), g.risk)}
             \cup {GraphNode(t, 0) : t \in AffectedTechs(services, g.top.url)}
        ELSE {})

GroupEdges(services, g) ==
  LET finding == CauseId(g.key)
      cve == NodeId("cve", g.top.id)
  IN  {<<UrlId("endpoint", g.top.url), finding>>}
      \cup (IF g.top.url.tcp THEN {<<UrlId("service", g.top.url), finding>>} ELSE {})
      \cup (IF g.top.class = "cve"
            THEN {<<finding, cve>>} \cup {<<t, cve>> : t \in AffectedTechs(services, g.top.url)}
            ELSE {})

TargetId(scan) == NodeId("domain", scan.target)

AddedNodes(scan) ==
  {GraphNode(TargetId(scan), 0)}
  \cup (UNION {AssetNodes(a) : a \in scan.assets})
  \cup (UNION {ServiceNodes(s) : s \in ToSet(scan.services)})
  \cup (UNION {StackNodes(k) : k \in scan.stacks})
  \cup (UNION {GroupNodes(scan.services, g) : g \in ToSet(groups)})

Edges(scan) ==
  (UNION {AssetEdges(TargetId(scan), a) : a \in scan.assets})
  \cup (UNION {ServiceEdges(TargetId(scan), s) : s \in ToSet(scan.services)})
  \cup (UNION {StackEdges(TargetId(scan), k) : k \in scan.stacks})
  \cup (UNION {GroupEdges(scan.services, g) : g \in ToSet(groups)})

\* add_node keeps the highest risk a node was added with.
Nodes(scan) ==
  LET added == AddedNodes(scan)
  IN  {n \in added : \A m \in added : m.id = n.id => m.risk <= n.risk}

-----------------------------------------------------------------------------
(* The other files.                                                         *)

RedactedFinding(f) == [f EXCEPT !.proof = @ \ SensitiveMarks]

RedactedService(s) == [s EXCEPT !.banner = @ \ SensitiveMarks, !.handshake = @ \ SensitiveMarks]

\* redact_scan_result: the proofs, banners and handshakes.
Redacted(scan) ==
  [scan EXCEPT
     !.findings = [i \in DOMAIN scan.findings |-> RedactedFinding(scan.findings[i])],
     !.services = [i \in DOMAIN scan.services |-> RedactedService(scan.services[i])]]

OfSeverity(findings, v) == {i \in DOMAIN findings : findings[i].severity = v}

\* severity_counts and risk_rating, of the HTML and the PDF report.
Summary(findings) ==
  LET Some(v) == OfSeverity(findings, v) # {}
  IN  [counts |-> [v \in Severities |-> Cardinality(OfSeverity(findings, v))],
       rating |-> IF Some("critical") THEN "critical" ELSE IF Some("high") THEN "high"
                  ELSE IF Some("medium") THEN "medium" ELSE IF Some("low") THEN "low"
                  ELSE "informational"]

\* sarif_level.
SarifLevel(f) ==
  IF f.severity \in {"critical", "high"} THEN "error"
  ELSE IF f.severity \in {"medium", "low"} THEN "warning" ELSE "note"

\* generate_sarif: one rule per id, one result per finding.
Sarif(findings) ==
  [rules |-> {findings[i].id : i \in DOMAIN findings},
   results |-> [i \in DOMAIN findings |-> [rule |-> findings[i].id, level |-> SarifLevel(findings[i])]]]

-----------------------------------------------------------------------------

FileNames == {"exposures", "drift", "json", "html", "graph", "trend", "sarif", "diff"}

Scan == series[at]

\* Nothing is written yet.
ReportStart ==
  /\ at = 1 /\ writing = "exposures" /\ rows = {}
  /\ groups = <<>> /\ merged = 0 /\ advice = <<>>
  /\ output = [name \in FileNames |-> Unwritten]

ReportInit == series \in ScanLists /\ review \in Reviews /\ ReportStart

Write(name, content) == output' = [output EXCEPT ![name] = content]

\* run_network_scan_multi_with_options: what the services add to the findings.
AssessServices ==
  /\ writing = "exposures" /\ writing' = "drift"
  /\ Write("exposures", [i \in DOMAIN Scan.services |-> ExposureOf(Scan.services[i])])
  /\ UNCHANGED <<series, review, at, rows, groups, merged, advice>>

\* detect_service_drift, if there is a baseline.
DetectDrift ==
  /\ writing = "drift" /\ writing' = "history"
  /\ IF at = 1 THEN UNCHANGED output
     ELSE Write("drift", Drift(series[at - 1].services, Scan.services))
  /\ UNCHANGED <<series, review, at, rows, groups, merged, advice>>

\* write_report_set: the history comes before the files.
UpdateHistory ==
  /\ writing = "history" /\ writing' = "json"
  /\ rows' = RecordHistory(Scan)
  /\ UNCHANGED <<series, review, at, groups, merged, advice, output>>

WriteJson ==
  /\ writing = "json" /\ writing' = "html"
  /\ Write("json", Redacted(Scan))
  /\ UNCHANGED <<series, review, at, rows, groups, merged, advice>>

WriteHtml ==
  /\ writing = "html" /\ writing' = "groups"
  /\ Write("html", Summary(Scan.findings))
  /\ UNCHANGED <<series, review, at, rows, groups, merged, advice>>

\* deduplicate_findings.
GroupFindings ==
  /\ writing = "groups" /\ writing' = "actions"
  /\ groups' \in ByRisk({GroupOf(Scan.findings, k) : k \in CausesOf(Scan.findings)})
  /\ merged' = 0 /\ advice' = <<>>
  /\ UNCHANGED <<series, review, at, rows, output>>

\* top_remediation_actions: one group.
AdviseGroup ==
  /\ writing = "actions" /\ merged < Len(groups) /\ merged' = merged + 1
  /\ LET g == groups[merged + 1]
         a == AdviceOf(g)
     IN  advice' = [x \in DOMAIN advice \cup {a} |->
                      IF x # a THEN advice[x]
                      ELSE IF a \in DOMAIN advice
                      THEN [risk |-> advice[a].risk + g.risk, findings |-> advice[a].findings + 1]
                      ELSE [risk |-> g.risk, findings |-> 1]]
  /\ UNCHANGED <<series, review, at, writing, rows, groups, output>>

\* top_remediation_actions: sort_by and truncate; build_asset_graph.
WriteGraph ==
  /\ writing = "actions" /\ merged = Len(groups) /\ writing' = "trend"
  /\ \E order \in ByRisk(AllActions(Scan.services)) :
       Write("graph", [nodes |-> Nodes(Scan), edges |-> Edges(Scan), groups |-> groups,
                       hints |-> Hints(Scan), actions |-> FirstFew(order, MaxActions)])
  /\ UNCHANGED <<series, review, at, rows, groups, merged, advice>>

\* load_trend_points: the first MaxPoints of this target, oldest first.
WriteTrend ==
  /\ writing = "trend" /\ writing' = "sarif"
  /\ \E order \in ByAge({r \in rows : r.target = Scan.target}) :
       Write("trend", FirstFew(order, MaxPoints))
  /\ UNCHANGED <<series, review, at, rows, groups, merged, advice>>

WriteSarif ==
  /\ writing = "sarif" /\ writing' = "diff"
  /\ Write("sarif", Sarif(Scan.findings))
  /\ UNCHANGED <<series, review, at, rows, groups, merged, advice>>

\* The diff subcommand, given the report before.
WriteDiff ==
  /\ writing = "diff" /\ writing' = "done"
  /\ IF at = 1 THEN UNCHANGED output
     ELSE Write("diff", CompareReports(series[at - 1].findings, Scan.findings,
                                       review.suppressions, review.now))
  /\ UNCHANGED <<series, review, at, rows, groups, merged, advice>>

NextScan ==
  /\ writing = "done" /\ at < Len(series)
  /\ at' = at + 1 /\ writing' = "exposures"
  /\ output' = [name \in FileNames |-> Unwritten]
  /\ groups' = <<>> /\ merged' = 0 /\ advice' = <<>>
  /\ UNCHANGED <<series, review, rows>>

ReportNext ==
  \/ AssessServices \/ DetectDrift \/ UpdateHistory \/ WriteJson \/ WriteHtml \/ GroupFindings
  \/ AdviseGroup \/ WriteGraph \/ WriteTrend \/ WriteSarif \/ WriteDiff \/ NextScan

ReportSpec == ReportInit /\ [][ReportNext]_reportVars

-----------------------------------------------------------------------------

\* The comparison: every finding of both reports is classified exactly once or was
\* suppressed by a rule in force; a finding that is suppressed now is neither new
\* nor fixed; the comparison of a report with itself shows nothing; and exchanging
\* the reports exchanges what is new and what is fixed.
CompareExact(a, b, suppressions, now, diff) ==
  LET back == CompareReports(b, a, {}, now)
      same == CompareReports(a, a, suppressions, now)
      Keys(findings) == {FindingKey(findings[i]) : i \in DOMAIN findings}
      With(d, status) == {k \in DOMAIN d.status : d.status[k] = status}
  IN  /\ DOMAIN diff.status \cap diff.suppressed = {}
      /\ DOMAIN diff.status \cup diff.suppressed = Keys(a) \cup Keys(b)
      /\ \A k \in diff.suppressed : \E i \in DOMAIN b, s \in suppressions :
           FindingKey(b[i]) = k /\ s.id = b[i].id /\ (s.expires = Forever \/ s.expires > now)
      /\ DOMAIN same.status = With(same, "unchanged")
      /\ suppressions = {} => /\ With(diff, "new") = With(back, "fixed")
                              /\ With(diff, "fixed") = With(back, "new")
                              /\ With(diff, "severity_changed") = With(back, "severity_changed")

\* The drift of services: what is new one way is removed the other way, what changed
\* one way changed the other way, and a network that stays as it is has none.
DriftExact(a, b, drift) ==
  LET back == Drift(b, a)
      same == Drift(a, a)
  IN  /\ {drift.new[i].listener : i \in DOMAIN drift.new} = back.removed
      /\ drift.removed = {back.new[i].listener : i \in DOMAIN back.new}
      /\ drift.changed = back.changed
      /\ DOMAIN same.new = {} /\ same.removed = {} /\ same.changed = {}

\* The redaction takes the sensitive marks from the evidence and nothing else from the
\* report.
JsonExact(scan, shown) ==
  /\ \A i \in DOMAIN shown.findings : shown.findings[i].proof \cap SensitiveMarks = {}
  /\ \A i \in DOMAIN shown.services :
       (shown.services[i].banner \cup shown.services[i].handshake) \cap SensitiveMarks = {}
  /\ Len(shown.findings) = Len(scan.findings)
  /\ \A i \in DOMAIN scan.findings :
       /\ FindingKey(shown.findings[i]) = FindingKey(scan.findings[i])
       /\ shown.findings[i].severity = scan.findings[i].severity
       /\ scan.findings[i].proof \subseteq shown.findings[i].proof \cup SensitiveMarks

\* The graph: no edge leads nowhere and no node is there twice; each finding is in one
\* group, which shows no lower risk than it has, in the list and in the graph, where a
\* group shares its node with those whose keys differ in capitals only and the node has
\* the risk of one of them; the riskiest groups come first.
GroupsExact(scan, graph) ==
  LET findings == scan.findings
      Place(i) == {p \in DOMAIN graph.groups : graph.groups[p].key = RootCause(findings[i])}
      ids == {n.id : n \in graph.nodes}
  IN  /\ \A e \in graph.edges : e[1] \in ids /\ e[2] \in ids
      /\ \A n, m \in graph.nodes : n.id = m.id => n = m
      /\ \A i \in DOMAIN findings : \E p \in Place(i) :
           /\ Place(i) = {p}
           /\ graph.groups[p].risk >= RiskScore(findings[i])
           /\ graph.groups[p].occurrences = Cardinality(OfCause(findings, graph.groups[p].key))
           /\ \E n \in graph.nodes : /\ n.id = CauseId(graph.groups[p].key)
                                     /\ n.risk >= graph.groups[p].risk
                                     /\ \E q \in DOMAIN graph.groups :
                                          CauseId(graph.groups[q].key) = n.id /\ graph.groups[q].risk = n.risk
      /\ \A p \in DOMAIN graph.groups : \E i \in DOMAIN findings :
           graph.groups[p].key = RootCause(findings[i]) /\ graph.groups[p].risk = RiskScore(findings[i])
      /\ \A p, q \in DOMAIN graph.groups : p < q => graph.groups[q].risk <= graph.groups[p].risk

\* The actions: each group is dealt with by one of them that is at least as urgent, or
\* as many as there may be are more urgent; and no hint speaks of an exposed service
\* that is no finding.
ActionsExact(graph, exposures) ==
  LET actions == graph.actions
      Says(what) == \E i \in DOMAIN exposures : exposures[i] \in what
  IN  /\ \A p \in DOMAIN graph.groups :
           LET g == graph.groups[p]
           IN  \/ \E i \in DOMAIN actions : actions[i].advice = AdviceOf(g) /\ actions[i].risk >= g.risk
               \/ Len(actions) = MaxActions /\ \A i \in DOMAIN actions : actions[i].risk >= g.risk
      /\ Len(actions) <= MaxActions
      /\ "database" \in graph.hints => Says({"database"})
      /\ "redis" \in graph.hints <=> Says({"redis"})
      /\ "management" \in graph.hints => Says({"database", "redis", "rdp", "management"})

\* The rating, the counts and the SARIF levels tell of the same findings.
SarifExact(scan, summary, sarif) ==
  LET errors == {i \in DOMAIN sarif.results : sarif.results[i].level = "error"}
  IN  /\ Cardinality(errors) = summary.counts["critical"] + summary.counts["high"]
      /\ summary.rating \in {"critical", "high"} <=> errors # {}
      /\ \A i \in DOMAIN scan.findings : \E r \in sarif.rules : sarif.results[i].rule = r

\* The history has one row of each scan so far, that of the last with its target and
\* start.
HistoryExact(count) ==
  /\ \A r, q \in rows : r.target = q.target /\ r.started = q.started => r = q
  /\ \A r \in rows : \E i \in 1 .. count :
       r.target = series[i].target /\ r.started = series[i].started /\ r.findings = Len(series[i].findings)
  /\ \A i \in 1 .. count : \E r \in rows :
       /\ r.target = series[i].target /\ r.started = series[i].started
       /\ (\A j \in i + 1 .. count : series[j].target # r.target \/ series[j].started # r.started)
          => r.findings = Len(series[i].findings)

\* The trend has scans of the target only, each once and oldest first, and all of them
\* unless it has as many as it may have (README.md says which those are).
TrendExact(scan, count, points) ==
  /\ \A i, j \in DOMAIN points : i < j => points[i].started < points[j].started
  /\ \A i \in DOMAIN points : points[i] \in rows /\ points[i].target = scan.target
  /\ \A k \in 1 .. count : series[k].target = scan.target =>
       \/ \E i \in DOMAIN points : points[i].started = series[k].started
       \/ Len(points) = MaxPoints
  /\ Len(points) <= MaxPoints

\* How many scans the history has.
Recorded == IF writing \in {"exposures", "drift", "history"} THEN at - 1 ELSE at

\* Every file that is there tells what the scan found, and the files agree.
ReportsExact ==
  LET Is(name) == output[name] # Unwritten
      before == series[at - 1]
  IN  /\ HistoryExact(Recorded)
      /\ Is("exposures") => \A i \in DOMAIN Scan.services :
           output["exposures"][i] # "none" => HasSignal(Scan.services[i], "publicly_routable")
      /\ Is("drift") => DriftExact(before.services, Scan.services, output["drift"])
      /\ Is("json") => JsonExact(Scan, output["json"])
      /\ Is("graph") => /\ GroupsExact(Scan, output["graph"])
                        /\ ActionsExact(output["graph"], output["exposures"])
      /\ Is("trend") => TrendExact(Scan, at, output["trend"])
      /\ Is("sarif") => SarifExact(Scan, output["html"], output["sarif"])
      /\ Is("diff") => CompareExact(before.findings, Scan.findings, review.suppressions, review.now,
                                    output["diff"])

=============================================================================
