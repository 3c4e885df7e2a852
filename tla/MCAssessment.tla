---------------------------- MODULE MCAssessment ----------------------------
(***************************************************************************)
(* The parts of a scan that draw conclusions, each on a small instance: the *)
(* network scan with its checkpoints, the pipeline of one scan, the         *)
(* stateful probes, rules and verification, the CVE cache, settings, the    *)
(* schedule, and the reports.  A behaviour takes one of them, named in      *)
(* Parts.                                                                   *)
(***************************************************************************)
EXTENDS NetworkScan, ScanPipeline, CveCache, Schedule, StatefulScan, Verification, Settings,
        RuleScan, Reports

CONSTANTS Parts

VARIABLE part

-----------------------------------------------------------------------------
(* One scan: a name, an address and a URL without a host, with stages that  *)
(* fail.                                                                    *)

Weak(n)     == [id |-> n, verified |-> FALSE]
Sure(n)     == [id |-> n, verified |-> TRUE]

Plan == [discovery |-> <<"subdomain">>, session |-> <<"profile">>, ports |-> <<"service">>,
         fingerprint |-> <<{"nginx"}, NoResult>>, browser |-> <<"path">>,
         api |-> <<"endpoint">>, fuzzing |-> <<"path">>, stateful |-> <<Sure("idor")>>,
         vulnerability |-> <<Weak("xss")>>, network_rules |-> <<Sure("ftp")>>,
         cve |-> <<Weak("cve")>>]

Quiet == [Plan EXCEPT !.vulnerability = <<>>, !.cve = <<>>]

Site(h, p) == [host |-> h, plan |-> p]

FailingPlans ==
  {[s \in DOMAIN Plan |-> IF s \in fails THEN NoResult ELSE Plan[s]] :
     fails \in {{"discovery", "vulnerability", "api"}, {"ports", "cve", "fuzzing"},
               {"browser", "stateful", "network_rules"}}}

MCTargetLists ==
  {<<Site("domain", p), Site("ip", Quiet)>> : p \in FailingPlans}
  \cup {<<Site("none", Plan)>>,
        <<Site("none", Plan), Site("ip", [Plan EXCEPT !.discovery = NoResult])>>}
MCFindings == {Weak("xss"), Sure("idor"), Sure("ftp"), Weak("cve")}
MCOast == {[url |-> FALSE, id |-> NoId], [url |-> TRUE, id |-> "scan"]}
MCCallbacks == {[protocol |-> "http", parts |-> <<"cb", "scan">>, host |-> NoId],
                [protocol |-> "dns", parts |-> <<"scan">>, host |-> "other"]}

-----------------------------------------------------------------------------
(* The stateful probes.                                                     *)

Link(o, p, n, w) == [origin |-> o, path |-> p, number |-> n, place |-> w]
Listed(u, n) == [web |-> TRUE, network |-> n, url |-> u]
Says(m, s, l, k, f) == [moved |-> m, status |-> s, length |-> l, leaks |-> k, forms |-> f]

Home   == Link("here", "home", 0, "none")
Item   == Link("here", "item", 1, "query")
Admin  == Link("here", "admin", 2, "path")
Folder == Link("here", "folder", 0, "empty")
Away   == Link("there", "item", 1, "query")

MCAssetLists == {<<Listed(Item, FALSE), Listed(Away, FALSE), Listed(Admin, FALSE)>>,
                 <<Listed(Item, TRUE), Listed(Admin, TRUE), Listed(Item, FALSE)>>,
                 <<Listed(Folder, FALSE)>>}
MCAnswers == {Says(NoOther, 200, 100, {"secret"}, <<[get |-> TRUE, url |-> Away]>>),
              Says(NoOther, 200, 200, {}, <<[get |-> FALSE, url |-> Home]>>),
              Says(Item, 404, 100, {}, <<>>)}

-----------------------------------------------------------------------------
(* The CVE cache: a CVE of two products, one that is seeded only.           *)

MCNvd == [c \in {"php", "nginx"} |-> IF c = "php" THEN {"cve1", "cve2"} ELSE {"cve2"}]
MCRating == [c \in {"cve1", "cve2"} |-> IF c = "cve1" THEN 1 ELSE 3]
MCTechs == {<<"php">>, <<"php", "nginx">>, <<NoCpe, "nginx">>}

-----------------------------------------------------------------------------
(* The schedule: two paths with one name, a file that is withdrawn.         *)

Path(d, n) == [dir |-> d, name |-> n]

MCPaths == {Path("a", "x"), Path("b", "x"), Path("a", "y"), Path("..", "z")}
MCManifests == <<<<Path("a", "x"), Path("b", "x"), Path("a", "y")>>, <<Path("a", "x")>>,
                 <<Path("a", "x"), Path("..", "z")>>>>
MCInvalidPaths == {Path("..", "z")}
MCProfiles ==
  {[once |-> o, update |-> u, ports |-> p, webhook |-> w, threshold |-> t, audit |-> w,
    in_scope |-> TRUE] :
     o \in BOOLEAN, u \in BOOLEAN, p \in BOOLEAN, w \in BOOLEAN, t \in {NoThreshold, 1}}
  \cup {[once |-> TRUE, update |-> FALSE, ports |-> TRUE, webhook |-> FALSE,
         threshold |-> NoThreshold, audit |-> FALSE, in_scope |-> FALSE]}
AProfile == CHOOSE p \in Profiles : p.once

-----------------------------------------------------------------------------
(* Rules and verification.                                                  *)

Check(m) == [match |-> m, codes |-> {}, contains |-> NoValue, regex |-> NoValue,
             header |-> NoValue, threshold |-> NoValue]

Regex(v) == [valid |-> v, text |-> "error", length |-> 2]

HttpRule ==
  [id |-> "r1", schema |-> 1, cvss |-> 5, needs_newer |-> FALSE, capabilities |-> {},
   tech |-> {}, risk |-> "safe", confirm |-> FALSE, points |-> <<>>, name |-> NoValue,
   payload |-> {}, headers |-> {}, body |-> {},
   verify |-> [Check("contains") EXCEPT !.contains = "error"], steps |-> <<>>]

Step1 == [payload |-> {"path"}, headers |-> {}, body |-> {}, verify |-> Check("header")]

HttpRules == {
  HttpRule,
  [HttpRule EXCEPT !.id = "r2", !.payload = {"destructive"}, !.confirm = TRUE, !.risk = "destructive"],
  [HttpRule EXCEPT !.id = "r2", !.steps = <<Step1, [Step1 EXCEPT !.payload = {"destructive"}]>>],
  [HttpRule EXCEPT !.headers = {"oast"}, !.verify = [Check("status") EXCEPT !.codes = {200}]],
  [HttpRule EXCEPT !.verify = [Check("time") EXCEPT !.threshold = 4], !.points = <<"query", "body">>],
  [HttpRule EXCEPT !.id = "r2", !.body = {"destructive"}, !.headers = {"destructive"}, !.tech = {"php"},
                   !.verify = [Check("regex") EXCEPT !.regex = Regex(TRUE)]],
  [HttpRule EXCEPT !.verify = [Check("regex") EXCEPT !.regex = Regex(FALSE)], !.payload = {"path"}],
  [HttpRule EXCEPT !.id = "", !.cvss = 11]}

NoMatcher == [banner |-> NoValue, response |-> NoValue, status |-> NoValue, tls |-> NoValue,
              auth |-> NoValue, required |-> {}, excluded |-> {}]

NetworkRule ==
  [id |-> "r1", schema |-> 1, cvss |-> 5, needs_newer |-> FALSE, capabilities |-> {},
   risk |-> "safe", confirm |-> FALSE, protocols |-> {"ftp"}, products |-> {},
   matcher |-> [NoMatcher EXCEPT !.banner = Regex(TRUE)]]

NetworkRules == {
  NetworkRule,
  [NetworkRule EXCEPT !.risk = "intrusive"],
  [NetworkRule EXCEPT !.id = "r2", !.confirm = TRUE, !.risk = "intrusive",
                      !.matcher = [NoMatcher EXCEPT !.required = {"public"}]],
  [NetworkRule EXCEPT !.matcher = [NoMatcher EXCEPT !.response = Regex(FALSE)]]}

RuleFiles ==
  {[kind |-> "http", parses |-> TRUE, rule |-> r] : r \in HttpRules}
  \cup {[kind |-> "network", parses |-> TRUE, rule |-> r] : r \in NetworkRules}
  \cup {[kind |-> "http", parses |-> FALSE, rule |-> HttpRule],
        [kind |-> "fingerprint", parses |-> TRUE, rule |-> HttpRule]}

Answer(s, b, h, t) == [status |-> s, body |-> b, headers |-> h, time |-> t]

Good == Answer(200, {"error"}, {"csp"}, 1)
Slow == Answer(200, {}, {}, 6)
Busy == Answer(429, {"error"}, {}, 1)

MCWorlds == {<<a, b, a, b>> : a, b \in {<<Good, Good>>, <<Transient, Slow>>, <<Busy, NoReply>>}}

MCRuleJobs ==
  {[files |-> <<f, g>>, tech |-> {"php"}, allow |-> a, oast |-> o,
    assets |-> <<[kind |-> "url", parameters |-> {}], [kind |-> "parameter", parameters |-> {"q"}]>>,
    services |-> <<[protocol |-> "ftp", product |-> "vsftpd", tls |-> FALSE, auth |-> FALSE,
                    signals |-> {"public"}, handshake |-> {}, banner |-> {"error"}]>>] :
     f, g \in RuleFiles, a \in BOOLEAN, o \in BOOLEAN}

AJob == CHOOSE j \in MCRuleJobs : j.allow

Claim(n, p, s, v) == [id |-> n, url |-> [valid |-> TRUE, sleep |-> s], parameter |-> p, verified |-> v]

AClaim == Claim("r1", NoValue, FALSE, TRUE)

MCFindingLists ==
  {<<AClaim>>} \cup
  {<<f, g>> : f \in {Claim("r1", NoValue, FALSE, FALSE), Claim("r1", "q", TRUE, FALSE)},
              g \in {Claim("r1", NoValue, FALSE, FALSE), Claim("r2", "q", FALSE, FALSE), AClaim}}

MCRuleSets == {NoValue} \cup {{r} : r \in HttpRules}

MCResponses == {Good, Slow, Answer(403, {"error", "marker"}, {}, 1)}

-----------------------------------------------------------------------------
(* Settings and sessions.                                                   *)

Source(r, k, u, i, d) == [rate |-> r, risky |-> k, url |-> u, id |-> i, db |-> d]

MCDefaults == Source(1, FALSE, NoSetting, NoSetting, NoSetting)

Said(r, u) == Source(r, FALSE, u, NoSetting, NoSetting)

Person(s, t, c, h, v, r, m) ==
  [scope |-> s, token |-> t, cookies |-> c, header |-> h, validate |-> v, refresh |-> r, roles |-> m]

Nobody == Person(NoSetting, NoSetting, <<>>, NoSetting, NoSetting, NoSetting, <<>>)

\* Every command with every kind of settings and no session; and every kind of
\* session with few settings.
MCCommands ==
  {[command |-> c, file |-> f, env |-> e, cli |-> o, config_profile |-> NoSetting,
    env_file |-> NoSetting, env_profile |-> Nobody, option |-> NoSetting, role |-> NoSetting] :
     c \in {"single", "single --config", "file", "network", "schedule", "worker", "serve"},
     f \in {Unreadable, Source(2, TRUE, NoSetting, NoSetting, "f.db"),
            Source(NoSetting, NoSetting, "cb", "fixed", NoSetting)},
     e \in {Source(NoSetting, NoSetting, NoSetting, NoSetting, NoSetting),
            Source(3, TRUE, "env cb", NoSetting, NoSetting),
            Source(NoSetting, FALSE, "env cb", NoSetting, "e.db"),
            Source(3, FALSE, NoSetting, NoSetting, "e.db")},
     o \in {Source(r, k, u, i, NoSetting) : r \in {NoSetting, 4}, k \in BOOLEAN,
                                            u \in {NoSetting, "cli cb"}, i \in {NoSetting, "mine"}}}
  \cup
  {[command |-> x, file |-> n, env |-> Said(3, "env cb"), cli |-> Said(NoSetting, NoSetting),
    config_profile |-> c, env_file |-> f, env_profile |-> e, option |-> o, role |-> r] :
     x \in {"single", "single --config", "schedule", "worker"},
     n \in {Unreadable, Said(2, NoSetting)},
     c \in {NoSetting, Person("a", "t1", <<>>, [sid |-> "c1"], NoSetting, NoSetting,
                              [admin |-> [Nobody EXCEPT !.cookies = [sid |-> "c6"]]])},
     f \in {NoSetting, [Nobody EXCEPT !.token = "t2", !.validate = "url"]},
     e \in {Nobody, [Nobody EXCEPT !.token = "t3", !.scope = "b", !.header = [sid |-> "c3"]]},
     o \in {NoSetting, Unreadable,
            Person("a", NoSetting, [sid |-> "c4", lang |-> "c4"], NoSetting, NoSetting, "cmd",
                   [admin |-> Person("c", "t5", [sid |-> "c5"], NoSetting, "url", NoSetting, <<>>)])},
     r \in {NoSetting, "admin", "other"}}

ACommand == CHOOSE c \in MCCommands : c.command = "worker"

-----------------------------------------------------------------------------
(* Reports.                                                                 *)

Http(h, p) == [tcp |-> FALSE, host |-> h, port |-> NoPort, path |-> p]
Tcp(h, n)  == [tcp |-> TRUE, host |-> h, port |-> n, path |-> ""]

Problem(n, c, u, s, v, k) ==
  [id |-> n, class |-> c, url |-> u, parameter |-> NoText, severity |-> s, cvss |-> 50,
   verified |-> v, proof |-> k, remediation |-> IF c = "header" THEN "patch" ELSE NoText]

Problems == {Problem("h1", "header", Http("shop", "x"), "low", FALSE, {}),
             Problem("h1", "header", Http("shop", "y"), "low", TRUE, {"email"}),
             Problem("c1", "cve", Tcp("shop", 1), "critical", FALSE, {"kev"}),
             Problem("c1", "cve", Tcp("shop", 1), "high", FALSE, {"email", "auth"}),
             Problem("v1", "other", Http("lan", "x"), "medium", FALSE, {"epss"})}

AProblem == Problem("v1", "other", Http("shop", "x"), "info", FALSE, {})

Daemon(h, p, t, a, g, v) ==
  [endpoint |-> Tcp(h, 1), protocol |-> p, product |-> v, version |-> NoText, tls |-> t, auth |-> a,
   signals |-> g, banner |-> {"email", "windows server 2008"}, handshake |-> {"email"}]

Daemons == {Daemon("shop", "mysql", NoText, NoText, {"publicly_routable", "database_or_cache_service"}, "m"),
            Daemon("shop", "mysql", TRUE, NoText, {"database_or_cache_service"}, "n"),
            Daemon("shop", "redis", FALSE, FALSE, {"publicly_routable", "database_or_cache_service"}, NoText),
            Daemon("lan", "rdp", NoText, TRUE, {"remote_management_service", "publicly_routable"}, "r"),
            Daemon("lan", "mqtt", NoText, TRUE, {"message_broker_service", "publicly_routable"}, "q")}

UpToOne(S) == {<<>>} \cup {<<x>> : x \in S}
UpToTwo(S) == UpToOne(S) \cup {<<x, y>> : x, y \in S}

AsScan(target, started, findings, services) ==
  [target |-> target, started |-> started, findings |-> findings, services |-> services,
   assets |-> {[type |-> "url", url |-> Http("shop", "x"), admin |-> TRUE],
               [type |-> "service", url |-> Tcp("shop", 1), admin |-> FALSE],
               [type |-> "subdomain", url |-> Http("lan", ""), admin |-> FALSE]},
   stacks |-> {[url |-> Http("shop", "x"), techs |-> {<<"m", NoText>>}]}]

MCReviews == {[suppressions |-> s, now |-> 5] :
                s \in {{}, {[id |-> "c1", contains |-> NoText, expires |-> 9]},
                       {[id |-> "h1", contains |-> "x", expires |-> Forever],
                        [id |-> "c1", contains |-> NoText, expires |-> 5]}}}

AReview == [suppressions |-> {}, now |-> 5]
ASeries == <<AsScan("shop", 1, <<AProblem>>, <<>>)>>

\* Findings of two scans, services of two scans, and a history of three scans or four.
FindingSeries ==
  {<<AsScan("shop", 1, a, <<>>), AsScan("shop", 2, b, <<>>)>> :
     a \in UpToOne(Problems), b \in UpToTwo(Problems)}

ServiceSeries ==
  {<<AsScan("shop", 1, <<>>, a), AsScan("shop", 2, <<f>>, b)>> :
     a \in UpToOne(Daemons), b \in UpToTwo(Daemons), f \in {AProblem}}
  \cup {<<AsScan("shop", 1, <<AProblem>>, <<>>), AsScan("shop", 2, b, <<d>>)>> :
          b \in UpToTwo(Problems), d \in Daemons}

HistorySeries ==
  {[i \in 1 .. 4 |-> AsScan(s[i][1], s[i][2], IF i = 3 THEN <<>> ELSE <<AProblem>>, <<>>)] :
     s \in {<<<<"shop", 1>>, <<"shop", 2>>, <<"shop", 3>>, <<"shop", 4>>>>,
            <<<<"shop", 2>>, <<"shop", 1>>, <<"shop", 2>>, <<"lan", 2>>>>,
            <<<<"lan", 1>>, <<"shop", 3>>, <<"shop", 1>>, <<"shop", 2>>>>}}

\* Two causes that differ in capitals only.
CaseSeries ==
  {<<AsScan("shop", 1, <<p, q>>, <<>>)>> :
     p, q \in {[AProblem EXCEPT !.parameter = "id", !.severity = "high"], [AProblem EXCEPT !.parameter = "ID"]}}

MCLower == [t \in {"ID"} |-> "id"]

MCScanLists == {ASeries} \cup CaseSeries \cup FindingSeries \cup ServiceSeries \cup HistorySeries

-----------------------------------------------------------------------------
(* A part that is not chosen stays in one fixed state.                      *)

MCInit ==
  /\ part \in Parts
  /\ Init
  /\ PipelineInit
  /\ part # "pipeline" => list = <<Site("none", Plan)>> /\ oast.id = NoId
  /\ StatefulInit
  /\ part # "stateful" => assetList = <<Listed(Folder, FALSE)>> /\ limit = 1 /\ roles = 0
  /\ CacheInit
  /\ part # "cve" => scanner.techs = <<"php">>
  /\ ScheduleInit
  /\ part # "schedule" => profile = AProfile
  /\ VerifyInit
  /\ part # "verify" => vulns = <<AClaim>> /\ byId = NoValue
  /\ IF part = "settings" THEN invoked \in Commands ELSE invoked = ACommand
  /\ SettingsStart
  /\ IF part = "rules" THEN job \in RuleJobs ELSE job = AJob
  /\ RuleInit
  /\ IF part = "reports"
     THEN series \in ScanLists /\ review \in IF series \in FindingSeries THEN Reviews ELSE {AReview}
     ELSE series = ASeries /\ review = AReview
  /\ ReportStart

NetworkPart  == part = "network" /\ Next
                /\ UNCHANGED <<part, pipelineVars, statefulVars, cveVars, scheduleVars, verifyVars, settingsVars, ruleVars, reportVars>>
PipelinePart == part = "pipeline" /\ PipelineNext
                /\ UNCHANGED <<part, vars, statefulVars, cveVars, scheduleVars, verifyVars, settingsVars, ruleVars, reportVars>>
StatefulPart == part = "stateful" /\ StatefulNext
                /\ UNCHANGED <<part, vars, pipelineVars, cveVars, scheduleVars, verifyVars, settingsVars, ruleVars, reportVars>>
CvePart      == part = "cve" /\ CacheNext
                /\ UNCHANGED <<part, vars, pipelineVars, statefulVars, scheduleVars, verifyVars, settingsVars, ruleVars, reportVars>>
SchedulePart == part = "schedule" /\ ScheduleNext
                /\ UNCHANGED <<part, vars, pipelineVars, statefulVars, cveVars, verifyVars, settingsVars, ruleVars, reportVars>>
VerifyPart   == part = "verify" /\ VerifyNext
                /\ UNCHANGED <<part, vars, pipelineVars, statefulVars, cveVars, scheduleVars,
                               settingsVars, ruleVars, reportVars>>
SettingsPart == part = "settings" /\ SettingsNext
                /\ UNCHANGED <<part, vars, pipelineVars, statefulVars, cveVars, scheduleVars,
                               verifyVars, ruleVars, reportVars>>

RulesPart    == part = "rules" /\ RuleNext
                /\ UNCHANGED <<part, vars, pipelineVars, statefulVars, cveVars, scheduleVars,
                               verifyVars, settingsVars, reportVars>>

ReportsPart  == part = "reports" /\ ReportNext
                /\ UNCHANGED <<part, vars, pipelineVars, statefulVars, cveVars, scheduleVars,
                               verifyVars, settingsVars, ruleVars>>

MCNext == NetworkPart \/ PipelinePart \/ StatefulPart \/ CvePart \/ SchedulePart \/ VerifyPart
          \/ SettingsPart \/ RulesPart \/ ReportsPart

allVars == <<part, vars, pipelineVars, statefulVars, cveVars, scheduleVars, verifyVars, settingsVars, ruleVars, reportVars>>

\* A running network scan, one scan and its probes keep running: each is one task
\* whose requests have a timeout.
MCSpec ==
  /\ MCInit /\ [][MCNext]_allVars
  /\ WF_allVars(part = "network" /\ Step
                  /\ UNCHANGED <<part, pipelineVars, statefulVars, cveVars, scheduleVars, verifyVars, settingsVars, ruleVars, reportVars>>)
  /\ WF_allVars(part = "pipeline" /\ PipelineStep
                  /\ UNCHANGED <<part, vars, statefulVars, cveVars, scheduleVars, verifyVars, settingsVars, ruleVars, reportVars>>)
  /\ WF_allVars(StatefulPart)

-----------------------------------------------------------------------------
\* Every network scan that was started ends, whatever chunk size was given, and so
\* do the pipeline (whichever stages fail) and the stateful probes.
ScansEnd ==
  /\ ScanEnds
  /\ part = "pipeline" ~> stage \in {"done", "failed"}
  /\ part = "stateful" ~> step = "done"

=============================================================================
