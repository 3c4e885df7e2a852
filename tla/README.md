# A TLA+ verification of Temu

Temu is a command-line web and network security scanner written in Rust (a
workspace of ten crates under `crates/`).  This directory holds TLA+
specifications of its components, the TLC configurations that check them on
small instances, and TLAPS proofs for every value of the constants.

## 1. Inventory

| Component | Code | State | Operations | Hard behaviour | What makes it correct |
|---|---|---|---|---|---|
| Distributed scan | `cli/src/distributed.rs` | Redis lists `temu:tasks` and `temu:results`, status keys, heartbeat keys with a TTL; local: popped task, counted results | worker: heartbeat, pop, scan, status, push result; coordinator: enqueue, collect, push back, time out | many workers and coordinators on shared lists, crashes, timeouts | nothing lost but with a crash, nothing twice, no result of another batch, an ended coordinator has every answer or its deadline has passed |
| Network scan | `cli/src/orchestrator.rs` 570-960 | offset, results in memory, checkpoint file, temporary file | chunk, host, checkpoint, resume, aggregate, drift against a baseline | kill, failed write, resume with other options | report and checkpoint hold every host exactly once |
| Realtime server | `cli/src/realtime.rs` | event log and channel (512 each), scan map, sequence numbers, join handles | connect, replay, subscribe, start, cancel, pause, emit | connections and scan tasks on several threads, lagging subscribers, abort | one history of each scan, answered, nothing lost without a sign |
| Rate limiter and request loops | `core/src/resilience.rs`; loops in `fuzzing/src/fuzzer.rs`, `vulnerability/src/executor.rs` | next slot, backoff level, latency baseline, counters, semaphore | reserve, send, finish, observe, retry, pause | concurrent tasks, retries, changing rate | slots spaced, counters agree, all tasks end |
| Path fuzzing | `fuzzing/src` | queue of directories, visited directories, results | round of requests, filter, recursion, parameters | servers that answer everything alike, words of several directories that lead to one URL | every URL once and at its least depth, the recursion ends |
| Port scan | `discovery/src/port_scan.rs` | connection budget, deadline, semaphore, profile of each port | scan port, TLS, protocol and generic probes, merge of answers | tasks compete for the budget; answers contradict each other | budget kept, every port reported once, evidence consistent |
| Scan pipeline, collaborator | `cli/src/orchestrator.rs` 80-560, `cli/src/collaborator.rs` | scan result under construction, callback log (SQLite) | the stages, callbacks, aggregation | a failing stage or target, callbacks at any time | what one stage failed to do does not hide the others |
| Browser crawl | `discovery/src/browser.rs` | queue, visited pages and scripts, assets | visit, enqueue, record | pages link back and forth | bounds kept, exactly what is reachable is visited |
| Names, HTTP and API discovery | `discovery/src` | host names, cache of certificate names, wildcard | sources, look-ups, probes, API documents | failing sources, torn cache file, a wildcard domain | every source's names are used, no endpoint lost |
| Fingerprinting | `fingerprint/src` | technologies by name, names implied | compile, match, merge, imply | order of the rules | no technology twice or weakened |
| Vulnerability rules | `vulnerability/src` | identifiers seen, rules loaded, executions | load, validate, classify, select, execute, retry | three readings of the same directory | they agree; risky rules need the opt-in |
| Stateful scan | `cli/src/stateful.rs` | request budget, pages, forms, snapshots | fetch, submit forms, change identifiers, compare roles | one budget for four phases | budget exact, no phase starved wrongly |
| Verifier | `verifier/src/lib.rs` | findings kept, the finding at work | replay, time, compare, remove | a request fails or is late | only what was disproved is removed |
| CVE cache | `cve_client/src` | SQLite table | look up, fetch, upsert, mark exploited | an update killed half way, a scan at the same time | exploited marks survive, severities do not fall |
| Schedule, rules update | `cli/src/main.rs`, `scheduler.rs`, `rules_update.rs` | rules directory, report files, history | update, scan, write, notify, repeat | a failure between two files, a repository that changes | no scan with old rules, none without its files |
| Settings and sessions | `core/src/config.rs`, `session.rs`, `cli/src/args.rs`, `main.rs` | settings and session under construction | defaults, file, environment, options, roles | precedence | the last source that speaks decides |
| Reports, history, comparison | `reporter/src` | SQLite history, groups and actions, files | compare, drift, graph, redact, SARIF, trend | limits, several views of the same findings | the views agree, nothing is hidden |
| Types, errors, logging | `core/src/types.rs`, `error.rs`, `logging.rs`, `macros.rs` | - | - | - | - |

How they interact: the command line (`main.rs`) reads settings and session and
dispatches to the pipeline, the network scan, the schedule, the coordinator, the
worker or the server.  The worker, the network scan, the schedule and the server
call the pipeline for one target and treat it as a function that ends with `Ok` or
`Err`, which is how it appears in their models.  The pipeline calls its stages one
after the other: names, ports, HTTP probes, fingerprints, crawl, API documents, fuzzing,
stateful probes, rules, CVEs, verification.  A stage passes its assets and findings
on by value; `ScanPipeline` takes what each finds, or its failure, as given, and a
module of its own says how the stage finds it.  What is really shared is: Redis by
coordinators and workers; `RealtimeState` by connections and scan tasks; a
limiter and a semaphore by the requests of one target; a connection budget by
the ports of one host; the CVE cache by an update and a scan; the callback log by the
collaborator and the pipeline; the files of an earlier run by a later one.
Each of these is in one module with both of its sides.

`PROJECT.json` lists the hazards of this code with their lines and the
properties that cover them.  Nine have no property:

* `distributed.rs:360`: two coordinators of the same millisecond have the same batch
  id.  The properties assume they do not (`BatchIdsDistinct`); otherwise `BatchIsolation`
  plainly fails.
* `orchestrator.rs:954`: two scans at once may share a temporary file.  `NetworkScan` has
  one invocation at a time.
* `fuzzer.rs:197`: a concurrency of 0 gives a semaphore without permits.  `EveryPartEnds`
  is about a concurrency above 0.
* `port_scan.rs:112`: early ports use up the connection budget.  `PortCost` and `BudgetRespected`
  bound what one port and all ports take; which ports go without is nowhere specified.
* `rules_update.rs:132`: a failed update leaves a directory of two versions.
  `ScheduleExact` says that no scheduled scan follows one; nothing promises a snapshot.
* `enterprise.rs:280`, `main.rs:508`, `stateful.rs:613` and `probe.rs:218`: the code does what the
  documentation says it does not ("What disagrees with the documentation" below).

## 2. Modules

| Module | Models | Notes |
|---|---|---|
| `DistributedScan` | `distributed.rs` | one action per Redis command, with the local code up to the next one |
| `ScanBatch` | what a coordinator promises its user | abstract; `DistributedScan` implements it (`Batch`, `ImplementsScanBatch`) |
| `NetworkScan` | network scan with checkpoints | one action per host, file operation and loop head |
| `Realtime` | `realtime.rs` | one action per access to shared state |
| `ResilientRequests` | `fuzz_paths`, `send_get_with_resilience`, `AdaptiveRateLimiter` | one action per piece of code between two awaits |
| `PathFuzzing` | `run_fuzzing`, the filter and the recursion | one action per word of a round, per kept result and per directory |
| `PortScan` | `scan_ports_with_mode`, `scan_one_port`, `ConnectionBudget` | one action per `reserve` and the connection it allows |
| `ServiceProfile` | what is concluded from the answers of a port | one action per group of connections and what is made of the answers |
| `BrowserCrawl` | `run_browser_crawl` | one action per page and script, or its refusal, and per URL found |
| `Discovery` | names: certificates, word list, heuristics, zone transfer, DNS, probes | one action per source and attempt, for all look-ups and for all probes |
| `ApiDiscovery` | `run_api_discovery` | one action per document, parameter, endpoint and GraphQL path |
| `Fingerprint` | `match_all_rules` | one action per rule and per implied name |
| `ScanPipeline` | `run_file_scan`, `run_scan_with_ports`, `aggregate_scan_results`, `collaborator.rs` | one action per stage, per fingerprinted URL and per report merged; callbacks arrive in between |
| `StatefulScan` | `run_stateful_dast` | one action per asset listed, and per page, form, identifier and role comparison |
| `Rules` | one rule: its risks, validation, selection, requests and outcome, network rules | operators |
| `RuleScan` | `validate_rules_dir`, `load_rules`, `run_vulnerability_scan`, `load_network_rules`, `run_network_service_checks` | one action per file of a reading; extends `Rules` |
| `Verification` | `run_verification` | one action per request, per round of comparisons and per finding; extends `Rules` |
| `CveCache` | `cve_client` | one action per SQL statement of an update and of a scan |
| `Schedule` | schedule loop, rules update, report set | one action per file and per step of the loop |
| `Settings` | sources of configuration and session | one action per source and per step of the session |
| `Reports` | comparison, drift, graph, redaction, SARIF, history | one action per file, and per group of findings in the loop over the actions |
| `DistributedScanProofs`, `RealtimeProofs`, `BrowserCrawlProofs`, `StatefulScanProofs` | - | theorems about the module they are named after (the first also about `ScanBatch`) |
| `OrchestratorProofs` | - | theorems about `NetworkScan` and `ScanPipeline` |
| `DiscoveryProofs` | - | theorems about `PortScan`, `Discovery`, `ServiceProfile`, `Fingerprint` and `ApiDiscovery` |
| `FuzzingProofs` | - | theorems about `ResilientRequests` and `PathFuzzing` |
| `AssessmentProofs` | - | theorems about `CveCache`, `Schedule`, `Verification`, `Settings`, `RuleScan` and `Reports` |
| `MC...` | - | instances for TLC: `MCDiscovery` extends `PortScan`, `ServiceProfile`, `ResilientRequests`, `PathFuzzing`, `BrowserCrawl`, `Discovery`, `Fingerprint` and `ApiDiscovery`, `MCAssessment` extends `NetworkScan`, `ScanPipeline`, `CveCache`, `Schedule`, `StatefulScan`, `RuleScan`, `Verification`, `Settings` and `Reports` |

Code that only computes from its input (`ServiceProfile`, `Fingerprint`, `ApiDiscovery`,
`RuleScan`, `Settings`, `Reports`) is a machine too: the loops of the code are steps, one
answer, rule, parameter, file or source at a time, so that its properties have an
inductive invariant: what is right of the part that was read so far.

Definitions keep the names of the code where they can (`batch_id` is `BatchOf`,
`successful`, `failures`, `next_offset`, `scan_seq` is `scanSeq`); `PROJECT.json`
"map" has the lines of every definition.  A definition whose comment begins with
"Faulty variant" is not part of the specification: it is a plausible bug, used to
see that a property notices it.  Text is never modelled by its characters: a
response, a payload or a banner is the set of the marks that the code looks for in
it, a URL is the few parts the code tells apart.  The header of each module
names its abstraction.

### DistributedScan

`tasks`, `results`, `status`, `heartbeats` are the Redis keys; `wpc`, `task`,
`outcome` the worker's locals; `cpc`, `enqueued`, `successful`, `failures`,
`held`, `expired` the coordinator's.  A task is its owner and index: the target
string and the timestamps play no part.  `run_scan_with_ports` ends with either
outcome.  A Redis error ends a process (`?`) and is the same as a crash there:
`CrashWorker`, `CrashCoordinator`, for the processes in `CanCrash`.  A task that
was popped by a process that died stays in `task[w]` of that dead process, so that
"nothing is lost but with a crash" can be said.

### NetworkScan

The user starts an invocation with any `Options` after the previous one ended,
failed or was killed (`Crash`).  `results`, `offset`, `current`, `chunk_end` are
the locals of the loop; `checkpoint` and `temporary` the two files, `Torn` while
being written.  `produced` is a history of what each host yielded.  `ScanHost`
yields 0 to `MaxEntries` entries: none when the liveness strategy skips it or no
port is open, otherwise one for each web URL.  Delays are left out.

### Realtime

`emit` is split into `Emit` (sequence number and log) and `Send` (channel): other
threads can come in between.  `sent` is the whole history of the channel;
a receiver that is more than `EventLogCapacity` behind gets `Lagged`.  Event ids
and texts are left out.  An aborted task stops at its next await: before it starts
or in `run_scan_with_ports`; afterwards it has no await left and runs to its end.
`Watchers` are the connections that follow the events and may close; the others
only send commands, which bounds the number of positions in the channel.
The refusal of a connection without token keeps no state and is left out.

### ResilientRequests and PathFuzzing

`slot` is the time until `next_allowed_at`, `timer[p]` what is left of the sleep of
task p; both count down with `Tick`, and a sleeper may wake up late.  The latency
baseline (a moving average) is abstracted: once a response was measured, any
later one may be slow.  The limiter's level decides the rate as `backoff_rps`
does.  `Baseline` is the probe that `fuzz_paths` awaits before it spawns the
others; it takes no permit.  In `PathFuzzing` a URL is the segments between its slashes and whether it
ends with one: `Below` drops the slash of the directory and gives a word its first one, as
`probe_path` and `normalize_path` do, so that /admin and /admin/ have the same URLs below them,
and `Seen` (`seen_urls`) works across directories.  A directory has a baseline and an answer to
each word, its round, chosen when `OpenDirectory` takes it from the queue; `world`
remembers it with its depth, and a URL that is asked for twice may answer differently.  `TakeWord` is
one turn of the loop that collects the round's results; `SkipDirectory` is the check of
`visited_bases`, which the word "/" can lead to.

### PortScan and ServiceProfile

`used` and `late` are the state of the `ConnectionBudget`, `pc[p]` the place of the
task of port `p`, and `protocol`, `tls` and `tried` what of its `ServiceProfile` decides
its next step.  What a probe finds is free.  Of the protocols only their kind
is kept: none yet, one that is not probed again (`plain`), one that is (`checked`),
and `ftp`, which is probed again only if risky rules are allowed.  `opened` is a
history of the connections each task made.  A passive scan, in which a port makes
only its first connection, is the other value of `passive`.  `ServiceProfile` has the
other half: the protocols, signals and the credentials flag that the answers give, merged
in the order of the connections; `probing` is the place in `scan_one_port`, and any answer
may come to any connection.

### The stages and what surrounds them

* `BrowserCrawl`: what a page or a script holds is chosen when it is fetched, from
  `Documents` and `Scripts`; `pageDoc` and `scriptDoc` remember it, so that what can be
  reached can be computed from it.  `toRecord` and `toRun` are what is left of the loops over
  the URLs of a page and over its scripts.  The headless browser adds the requests it logged.
* `Discovery`: `stages` are the sources and look-ups that are left, in a fixed order; a scan may be killed while it
  writes the cache file, and the next one finds what it left.  A host name is its label
  and how often the domain is written behind it.  A probed host answers with the URL its redirects end
  at, which the client follows, and with the Location of the response there.
* `ScanPipeline`: `plan` says what each stage finds at a target, or that it fails, and for
  the fingerprints what each URL gives; `found` and `errors` are the locals of one target,
  `reports` and `aggregate` of the list.  Callbacks arrive, or get lost, between any two
  steps and are loaded after the wait; each knows the target whose payload caused it, which the
  code cannot tell, since the identifier is one per command.
* `StatefulScan`: `budget` is the code's counter, `sent` the history of the requests; the
  candidates of each phase are listed asset by asset first.
* `CveCache`: an update and a scan are processes on one table; an update may be killed
  between any two statements, and another one started.
* `Schedule`: the rules repository may change between two downloads; files are written
  one by one and any write may fail.
* `Fingerprint`: `techs` is the map of results, `matched` how many rules were tried.  Patterns of
  hash maps (headers, meta tags, cookies) are sets, so any of those that match may give the
  version; the implied names are added in any order.
* `ApiDiscovery`: `operations` are those of the last document without an endpoint so far, in any
  order, as the methods of a path are a map; `building` is the endpoint in the making.
* `Rules` and `RuleScan`: a rule has its fields as the code reads them, with payloads,
  headers and bodies as sets of marks; a `world` is the sequence of answers the requests of a rule
  get, transient errors included.  `reading` is which of the three readings goes on, `listed` how many
  files it has seen and `taken` their identifiers (`seen_ids`).
* `Verification`: the target answers each request as it likes; `seen` and `failed` are the history
  of what it said of a finding.
* `Settings`: every command has its own sequence of sources (`loading`); the refresh command prints
  any token or fails, and the validate URL accepts or refuses.  The cookies of a profile and its whole
  Cookie header are two fields, as in the code: `CookiesSent` is the one that goes out.
* `Reports`: the files of a series of scans of one output directory; `writing` is the next file,
  `rows` the history, `groups`, `merged` and `advice` the loop of `top_remediation_actions`, `output` the
  files of the scan at work.  The drift and the comparison take the scan before as their
  baseline.  Scores are integers (tenths and percent) instead of floating-point numbers, which of
  two equal risks comes first is left open, and a redaction removes a mark instead of
  masking its middle.  Node identifiers of the graph are in lower case (`Lower` has the texts that change),
  so that two groups can share a node.

`MCDiscovery` and `MCAssessment` put these on small instances.  The stages of a scan
run one after the other and share nothing but what is passed on by value, so the
behaviours of these modules take one `part` each, and the variables of the others
stay in one fixed state.  The processes that share state are inside one part.

## 3. Runs

| Run | Instance | Shows |
|---|---|---|
| `distributed_safety` | 2 workers (one may crash, one `--once`), 2 coordinators with 2 and 1 targets, one with a deadline | `TypeOK`, `AtMostOnce`, `Conserved`, `ResultAfterStatus`, `BatchIsolation`, `CompleteUnlessExpired`, `NoSecondRun`, `ImplementsScanBatch` |
| `distributed_live` | the same with one target each, a crashing worker and coordinator, an expiring heartbeat | `LoneCoordinatorCounts`, `CoordinatorsStop` |
| `distributed_livelock` | 1 worker, 2 coordinators | counterexample to `AllCoordinatorsCount` |
| `realtime` | 2 connections (one watching), 1 scan, 2 commands (the start and one other), 1 finding, capacity 3 | `TypeOK`, `NothingLost`, `OneHistory`, `ScanAnswered` |
| `realtime_cancel` | 1 connection, 1 scan | counterexample to `CancelStopsScan` |
| `realtime_reconnect` | 2 connections, 1 scan | counterexample to `ReconnectSeesAll` |
| `request_pause` | baseline and 2 words, 3 retries | counterexample to `LevelThreePauses` |
| `discovery` | the parts `ports`, `requests`, `crawl`, `names`, `paths`, `api`, `service`, `technologies` | `StagesTypeOK`, `BudgetRespected`, `PortCost`, `SlotsSpaced`, `Accounting`, `CrawlExact`, `DiscoveryFaithful`, `FuzzExact`, `ApiExact`, `EvidenceConsistent`, `MatchExact`, `EveryPartEnds` |
| `crawl_destructive` | the part `crawl` | counterexample to `NoDestructiveVisit` |
| `discovery_doubled` | the part `names` | counterexample to `CollectedIsLookedUp` |
| `assessment` | the parts `network`, `pipeline`, `stateful`, `cve`, `schedule`, `rules`, `verify`, `settings`, `reports` | `TypeOK`, `ResultsExact`, `CheckpointExact`, `NoRescan`, `NoLostProgress`, `PipelineExact`, `StatefulExact`, `CveConsistent`, `ScheduleExact`, `RulesAgree`, `RemovesOnlyDisproved`, `SettingsFollowSources`, `ReportsExact`, `ScansEnd` |
| `callbacks_shared` | the part `pipeline` | counterexample to `OwnCallbacksOnly` |

What the properties say, beyond the distributed scan's:

* `NothingLost`: what subscribers were sent is in the log (or fell out of it at its
  capacity), and a subscriber has, in order, everything since it subscribed, unless it was
  told that it lags.  `OneHistory`: a scan is queued before anything else is said of it and
  has at most one outcome of each kind.  `ScanAnswered`: when nothing is pending
  about a queued scan, its outcome was sent.
* `BudgetRespected`, `PortCost`: all ports together stay within the budget, and one port
  takes at most one connection (passive), or four and either the TLS versions or
  the generic probes.  `SlotsSpaced`, `Accounting`: requests keep their distance whatever the
  rate did meanwhile; counters and permits agree with where the tasks are.
* `CrawlExact`: a crawl that was not stopped by its limit on pages has visited
  exactly what can be reached within its depth, and recorded each safe URL once.
* `DiscoveryFaithful`: before the look-ups every name of every source of the mode is collected, and
  no other (that not all of them are looked up is `discovery_doubled`); a cache that
  is used holds the latest list, never a torn or empty one; a wildcard gives no
  subdomain.
* `FuzzExact`, `ApiExact`, `MatchExact`: no URL is a result twice, however the words of several
  directories fall together; every hit of every directory is a result, found at its least depth, and
  the recursion enters exactly the results that it may;
  every operation of an API document becomes one endpoint with the types declared closest
  to it; a technology has the confidence and a version of its surest rule, the first of equals,
  and one that is only implied replaces none that a rule sees.
* `EvidenceConsistent`: no two signals of a port contradict each other or the
  credentials flag, whatever it answers on its successive connections.
* `ResultsExact`, `CheckpointExact`, `NoRescan`, `NoLostProgress`: a network scan has every host
  below its offset exactly once, in memory and on disk, through kills, failed
  writes and resumes.
* `PipelineExact`: every target with a host has its report, in the order of the list, with
  exactly what its stages that did not fail found; a failed stage is named in the summary;
  a report has every callback of its own payloads that was stored when it loaded them, and none that
  was stored later (that it has callbacks of others too is `callbacks_shared`); the
  aggregate is the reports one after the other and one summary of each.
* `StatefulExact`: counted and left make the limit on every path; a role comparison
  is never started with one request left; a scan that ends asked for
  everything or spent everything.
* `CveConsistent`: an update that ends leaves every cached CVE of the catalogue marked,
  whatever was killed or written before; no CVE is reported for a product NVD does
  not list, and no severity is below NVD's.
* `ScheduleExact`: no scan runs with rules older than its update; a scan that meets the
  threshold has its files, its history row and its notification.
* `RulesAgree`: what validation accepts is loaded; what it calls risky needs the
  opt-in; without it no request carries a callback, a dangerous payload or a delay (but
  for a dangerous marker in a request body, see below).
* `RemovesOnlyDisproved`: a removed finding has a rule and every request sent for it was
  answered, all its delays were measured and none showed; a verified one never
  disappears; an answer by which the executor reports a finding never removes it; only
  what the target showed is marked as verified, and what is kept keeps its order.
* `SettingsFollowSources`: the last source that is read decides (which are not read is
  told below); risky rules are never allowed unless a source asks for it; a
  role goes over the profile and the environment field by field, its cookies by name, or the
  command ends (what of them is sent is told below).
* `ReportsExact`: the comparison is a partition, and symmetric; drift likewise; the graph
  neither hides nor doubles a finding, and a node that groups share has the risk of the greatest of them; redaction removes the marks and nothing else;
  counts, rating and SARIF levels agree; a group that no action deals with is less urgent than
  every action; a hint speaks of an exposed service only with a finding about one; the history
  has each scan once, the trend only those of its target, oldest first, and all of them up to its
  limit (which it drops is told below).

Why the bounds are enough.

* Distributed scan: two processes of each kind are the fewest that race with each
  other; two targets in one list are needed for a coordinator that is neither at its
  first nor at its last answer, and a foreign result is possible with one target in
  the other list.
* Realtime: a channel of three is full after the two events of a connection and
  a scan, so lagging and the dropping of log entries happen.  Three commands
  are out of TLC's reach with a channel history; the proofs have no such bound.
* `ports`: two ports (one likely TLS), two permits; a budget of 8 is more than one port
  can take and less than two want, so that it runs out at every place of a task; two generic
  probes instead of nine are enough to be interrupted between two of them; the
  deadline passes at any time.
* `requests`: three words on two permits make a task wait for a permit; with two
  requests per second and a second of two ticks the level changes the interval from
  one tick to two; one retry.
* `crawl`: three pages, a page that logs out, a script and a style sheet; four documents
  (with links back, forms, other origins, logged requests), so every small site;
  limits of 1 (from 0), 2 and 9 pages and depths 0 to 2: below and above what there is.
* `names`: three labels in the domain and one outside, two scans in a row, the second of which
  finds the cache whole, torn, old or missing; hosts that are redirected to one page, answer for
  themselves, or answer with a Location.
* `paths`: depths 0 to 2; the words /admin, /admin/, "/" and admin, so that two words of one directory,
  words of sibling directories and words of a directory and its parent lead to one URL, and one leads back to
  the start; six kinds of directories, among them
  one that answers everything like its baseline and lengths on both sides of the
  filter's tolerance.
* `network`: two hosts with chunk sizes 1 (0 is taken as 1) and 2 give a checkpoint in
  the middle and one at the end of the range; three invocations a resume of a resume.
* `pipeline`: lists of up to two targets, each stage failing in some of them, with the
  failures in three stages at once; a URL without a host; a subdomain, so that two URLs are
  fingerprinted; two kinds of callbacks.
* `verify`: one or two findings, verified and not, with and without a parameter, with each of the 8
  HTTP rules or none, and three answers or a failure; two rounds per delay with a
  time below and one above the timeout.
* `stateful`: limits of 1, 3 and 6 (the first ends in each phase, the last is above the
  maximum of 3), pages with and without numbers, a number at its maximum.
* `cve`: a CVE of two products, one that only the catalogue has, two updates, three kinds
  of scans, three attempts per page.
* `schedule`: two paths with one file name, a withdrawn file, an invalid path, two
  rounds, every combination of profile options that matters.
* `service`: six ports (known for a protocol or not, likely TLS or not), passive or not, risky rules
  allowed or not, 28 kinds of answers to a read.
* `technologies`: all lists of three out of five rules that share names and confidences and imply each
  other, and ten responses.
* `api`: paths whose parameters are declared twice (for the path and the method, and with two
  types), one document and two.
* `rules`: all pairs of 14 rule files (8 HTTP and 4 network rules, one that does not parse, one of
  another kind), with and without opt-in and collaborator, and nine sequences of answers.
* `settings`: every command with every kind of file, environment and options, and every kind of
  session profile with and without a role, cookies, and a Cookie header in the profile, the role or the
  environment.
* `reports`: two scans with up to two findings of 5 or two services of 5 and every kind of suppression (in
  force, limited to a path, expired), and four scans of one target or two, in order or not, the same start
  twice; keys that differ in capitals only; a limit of two points and two actions, so that both cut something off.

CHECK_DEADLOCK is FALSE everywhere, since all processes may end: a coordinator after
its batch, a worker with `--once`, an invocation after its last host, a connection
that closes, a request, a crawl, an update, a series of reports.

### Fairness

* `DistributedScan`: a process that has not crashed keeps running (weak fairness of
  its steps) and time passes.  `BLPOP` serves the client that has waited longest
  and a coordinator sleeps 250 ms after pushing back, so one that repeatedly
  waits with a result of its own at the head gets one (strong fairness of
  `PopOwnResult`).  The livelock exists in spite of it: the head is never its own.
* `MCDiscovery`: each port task keeps running (every connection, read and write
  of a probe has a timeout); time passes and every request of a fuzzing run ends (the
  client is built with a timeout); the crawl, the path fuzzing, a scan of names, the probes of a service,
  the API documents and the fingerprint rules are each one task whose requests have timeouts.  Nothing is assumed about kills.
* `MCAssessment`: a running network scan, the pipeline and the stateful probes keep
  running, unless they are killed.  Nothing is assumed about callbacks, updates, the
  schedule and the other parts, and nothing is said about their progress.
* `Realtime` has none.  That a scan is answered is stated at quiescence.

### What disagrees with the documentation

Seven runs end with a counterexample; the findings in `PROJECT.json` quote the
sentence that the code contradicts:

* `distributed_livelock`: coordinators push back each other's results for ever.
* `realtime_cancel`: a cancelled scan still completes.
* `realtime_reconnect`: events between replay and subscription are lost.
* `request_pause`: a transient error at level 3 is retried without the level-3 pause.
* `crawl_destructive`: links that log out are left out of the assets and visited all the same.
* `discovery_doubled`: collected host names get the domain appended once more.
* `callbacks_shared`: a report has the callbacks of the targets before it.

The models also follow the code where it does something a reader may not expect.
These have no run of their own; the first ones also contradict a sentence of the documentation,
and no property asserts either side:

* A page without an identifier is reported for having one: an empty path segment, and an identifier
  at `u64::MAX`, is "mutated" into itself (`stateful.rs:613`; README.md:305).
* With `--config` the environment is not read (`main.rs:66`; README.md:346).
* A schedule does not heed `TEMU_ALLOW_RISKY_RULES` (`main.rs:674`; README.md:401).
* A Cookie header of the profile or the environment replaces the cookies of a role
  (`session.rs:117`; `session.rs:32`).
* The trend keeps the oldest hundred points (`enterprise.rs:280`; README.md:324).
* The exit policy ends a long-running schedule (`main.rs:508`; `docs/enterprise-workflows.md:11`).
* Hosts that are redirected to one URL are not marked, as the redirects are followed before their
  Locations are compared (`probe.rs:218`; `probe.rs:28`).
* `probe_get_form_reflection` sends to form actions of another origin; README.md:309 says
  that stateful probes stay same-origin.  `StatefulExact` excepts the forms.
* A zone transfer asks the default resolver for the AXFR record of the name server's own name
  (`zone_transfer.rs:74`), not the name server for the domain.
* An update overwrites the `cpe_match` of a cached CVE, and raises the severity of an exploited
  one by one level each time.  The pattern of one CPE has an escape that never matches.
  After a miss `check_cves` reports the fetched entries, not the merged rows.
* The verifier confirms a finding with a parameter by the reflection of a fresh
  marker; it repeats status and header checks with a GET that follows up to three redirects,
  verifies a rule of several steps by the rule's own verifier, and takes a body it cannot
  read for empty, which removes the finding.
* A dangerous marker in a request body needs no opt-in.
* `hostname_matches` strips repeated suffixes.
* A callback that arrives after the wait is in no report of its target.
* An unreadable baseline is found after the last host; only a checkpoint keeps the results.
* Withdrawn rule files are never deleted, and two manifest paths with the same file name
  overwrite each other.
* The report files of targets that differ in scheme or punctuation only have the same name
  (`json.rs:29`).
* Any error, also of the webhook, ends the loop of a schedule (`main.rs:508`).
* /admin and /admin/ are two directories to the recursion: what is below them is requested twice, and
  reported once, as the first of them answered.
* Pause and resume set a flag that no scan reads (`realtime.rs:487`, as its comment says).
* `offset + chunk_size` can wrap for a chunk size near 2^64.

## 4. Proofs

The theorems hold for every value of the constants that satisfies the named
assumptions of the module.  TLC checked each inductive invariant, or its parts, first.

`DistributedScanProofs` (assumptions `SizeAssumption`, `ProcessAssumption`, `NullAssumption`):

* `TypeOKAlways`: from `TypeInv`, which adds to `TypeOK` that a worker past
  `PopTask` holds a task and a coordinator about to push back holds a result
  (`Holding`), and that a task was pushed by then (`Enqueueing`).
* `AtMostOnceAlways`, `ConservedAlways`, `BatchIsolationAlways`, for distinct batch ids: from
  `PlaceInv`.  `AtMostOnce` is not inductive by itself: pushing the next task needs that no
  task beyond `enqueued` is anywhere, which is one direction of `Conserved` (`Located`), and
  the counting of a result needs that failures, which are keyed by the task id,
  identify the task (`TaskIdInjective`, from distinct batch ids) and belong to the
  coordinator that counts them (`Isolated`).  `PlaceInv` is the conjunction; one
  lemma per kind of action says how it moves a task from one place to the next.
* `ResultAfterStatusAlways`, `NoSecondRunAlways`: from `StatusInv`, which follows the
  status of a task from place to place (queued or not yet written, running, final).
* `CompleteUnlessExpiredAlways`: the loop only compares two counts.  `CountInv` says that
  the length of a list plus the size of a map is the number of targets answered: each
  result that is counted adds a target that was not answered before.
* `CoordinatorsImplementScanBatch`: the refinement.  The answers of `ScanBatch` are
  read from `successful` and `failures` (`AnswersOf`, `VerdictOf`); only counting a result and
  stopping are steps of it, everything else is a stutter.

`RealtimeProofs` (`RealtimeAssumption`): `TypeCorrect`, `NothingIsLost`, `HistoryIsOne`,
`EveryScanAnswered`.  An event is `Told` when it was sent or is about to be: between `Emit` and
`Send` the log has it and the channel has not, so every part of the invariant is
about both.  `LoggedInv` relates the log to the channel, `GapInv` what a subscriber saw to its
position; `OutcomeInv` says who may still tell an outcome of a scan: nobody of one that
was not started (`FreshInv`, `StartInv`), a canceller that took its handle (`CancelInv`), its
task (`TaskInv`), each once (`SingleInv`), and one of them must have when nothing is
pending (`AnswerInv`); `QueuedInv` adds that `Queued` comes first.

`OrchestratorProofs`:

* `NetworkScan` (`NetworkAssumption`, `AbsenceAssumption`): `TypeCorrect`,
  `ResultsAreExact`, `CheckpointIsExact`, `NothingRescanned` and `ProgressKept`, all from one
  `IInv`, since results and checkpoint feed each other: a checkpoint is written from the
  results, and a resumed scan's results are read from it.  It adds what is known at each place
  of the loop (`PhaseInv`), that no scan is on record of an invocation that has not begun
  (`ProducedInv`), that a temporary file about to be renamed holds what the invocation knows
  (`TemporaryInv`), and that an invocation that resumed is not behind the file (`ProgressInv`).
* `ScanPipeline` (`PipelineAssumption`): `PipelineAlwaysExact`, from `PipelineInv`.  The report of a
  target is exact because of what is known before it is written: every stage that is over
  left its outcome in `found` and its failure in `errors`, and no other has (`Collected`,
  by the rank of the stages); of the URLs those before `looked` were asked for
  (`Looked`); the callbacks that were loaded are those of the identifier in the part of the database that
  was there (`Heard`), and the database only grows.  The reports that are written stay exact (`ReportsOk`), and the
  aggregate is the reports merged so far (`Aggregated`).  That sorting loses no summary is
  a permutation of a finite set being onto.

`DiscoveryProofs`:

* `PortScan` (`PortScanAssumption`): `PortCostBounded`, from `CostInv`, a bound on the connections
  of a task for each of its places.  `BudgetAlwaysRespected`, `NoPortDropped` and `TypeCorrect`,
  from `BudgetInv` (the connections that were opened, as a set of port and number, are as many
  as the counter says, and a port has a result exactly when its task is done) and `PermitInv`
  (permits and running tasks make the concurrency).
* `Discovery` (`DiscoveryAssumption`): `DiscoveryAlwaysFaithful` and `NamesTypeCorrect`, from `NamesInv`: what
  is collected is what the sources that are over gave (`CollectionInv`), a cache that is usable
  is the latest list whenever the process is killed (`CacheInv`), and the same for
  look-ups and probes (`LookUpInv`, `ProbedInv`).
* `ServiceProfile` (`ServiceAssumption`): `ServiceEvidence`, from `ServiceInv`.  That no signals contradict each other
  is not inductive: the merge of a later answer may add the opposite of a signal, so the invariant
  says what each protocol can have (`Plain`) before the extra connection, that a service without a
  protocol has no signals yet (`Nothing`), that signals of TLS come after all reads of plain text, and
  only with evidence (`TlsShown`).
* `Fingerprint` (`FingerprintAssumption`): `MatchingExact`, from `FingerInv`: of the rules so far each technology has
  what the surest gave, the first of equals (`Deserved`), and what is added afterwards is what the names
  seen imply.
* `ApiDiscovery` (`ApiAssumption`): `EndpointsExact`, from `ApiInv`: each operation that was read waits, is being
  made or has its endpoint (`Found`); the one in the making is what its first `used` parameters
  make of the template (`FilledBy`, whose last declaration of a name prevails); the list of assets has
  none twice (`AssetsListed`).

`FuzzingProofs`:

* `ResilientRequests` (`RequestsAssumption`): `SlotsAlwaysSpaced`, from `SlotInv` and a lemma on
  integer division (a lower rate never gives a shorter interval).  `AccountsAlwaysKept`, from
  `TaskInv` (what a task knows at each of its places, and that none starts before the baseline is
  done) and `Counters` (each counter is a sum over the tasks of what their places
  stand for).  `RequestsTypeCorrect`: the slot is at most a second per waiting task away (`QueueInv`).
* `PathFuzzing` (`FuzzAssumption`): `FuzzAlwaysExact`, from `FuzzInv`: each result has a URL of its own and is a
  hit of a directory that was fuzzed (`ResultsSound`); the URL of each hit was found, at no greater
  depth, but for the words that are left (`ResultsComplete`); start and results that can be entered were
  fuzzed or wait, and nothing else (`Directories`).  That the first time a URL is found is at its least
  depth needs the order of the queue: its depths rise and differ by one at most (`DepthOrder`).

`AssessmentProofs`:

* `CveCache` (`CacheAssumption`): `CveAlwaysConsistent`, from `CacheInv`: no row says more than its sources
  (`RowOk`), what the updater has fetched comes from NVD (`Fetched`), and the marks follow its place,
  counting what a scan stores meanwhile (`Progress`).
* `Schedule` (`ScheduleAssumption`): `ScheduleAlwaysExact`, from `ScheduleInv`: the rules on disk are those of the
  last update at every place that may scan (`RulesFresh`), no rule file is ever deleted
  (`RulesKept`), and the counts of files, rows and notifications follow the place of the
  loop (`OutputsComplete`).
* `Verification` (`VerificationAssumption`): `VerificationOnlyDisproves`, from `VerifyInv`: each finding that was looked at was
  judged by what the target said of it (`Judged`, `KeptOk`), and of the one at hand no
  delay that was measured showed (`Trying`).
* `Settings` (`SettingsAssumption`): `SettingsAlwaysFollow`, from `SettingsInv`, which says for each source what the
  settings and the session are after it (`OfFile`, `OfBoth`, `Based`, `OfEnvironment`, `OfRole`): the property
  itself only speaks of a command that is ready.
* `RuleScan` (`RuleAssumption`): `RulesAlwaysAgree`, from `RuleInv`.  The readings are compared by what a valid
  file has (`Accepted`): its identifier is not that of an earlier file that parses.  What a reading that
  loads has taken are identifiers of such files, so it loads each valid file (`AllLoaded`), and
  never two of one identifier (`OneEach`); what the requests of a rule carry follows from the
  opt-in that its risks need, rule by rule.
* `Reports` (`ReportAssumption`): `ReportsAlwaysExact`, from `ReportInv`.  Most files have one content, which the invariant
  says with the step they are written at (`FilesInv`), since files are compared that are
  written at different steps: counts and SARIF levels, hints and exposures.  `HistoryInv` is about the
  scans recorded so far, and that the rows are finite, so that the trend exists.  `AdviceInv` says
  of the loop over the groups that each group merged so far has an action at least as urgent:
  risks are only added.  From there it is lemmas about the operators: the findings of one cause make one
  group and their riskiest represents it; every edge's ends were added as nodes, and a node
  keeps the highest risk it was added with; the first few of an ordered list leave nothing greater out; a
  sum of cardinalities; which service that a hint speaks of has a finding.

`BrowserCrawlProofs` (`CrawlAssumption`): `CrawlAlwaysExact`, from `CrawlInv`: the queue holds the rest of one depth
and then pages of the next (`QueueOrdered`), so a page is never seen first too deep; each link
of a page that was visited is visited, waits in the queue at most one deeper, or is left of the page
at work (`PagesComplete`).  `CrawlIsComplete` states the same without the
history: when the queue is empty, what was visited is the least set that is closed under
the links (`Reachable`), which needs that everything in the queue can be reached (`OnlyReachable`).

`StatefulScanProofs` (`StatefulAssumption`): `StatefulTypeCorrect` and `StatefulAlwaysExact`, from `StatefulInv`:
the requests that count and the budget make the limit, in the order of the phases, none twice
(`SentExact`); the candidates are those of the assets (`CandidatesExact`); what is left is what
was not asked for (`PagesLeft`).

Only model-checked:

* Liveness (`LoneCoordinatorCounts`, `CoordinatorsStop`, `EveryPartEnds`, `ScansEnd`): the prover
  has no ENABLED.
* `StagesTypeOK`, which is the type invariant of the part at work; each of them is a theorem or a
  conjunct of the invariants above.

## 5. Not modelled

* Types, errors, logging and macros: no behaviour of their own.
* The layout of HTML and PDF reports, and of the terminal output.
* Rule checksums (`bundle.rs`) and the confidence score of findings.
* The dispatch of the `report`, `cve` and `rules` subcommands to operations that are modelled.
* Regular expressions, parsers, TLS and DNS as such: they appear as what they match or
  answer.
* External services (Redis, SQLite, NVD, crt.sh, name servers, the target) only as the code
  uses them; Redis commands and SQL statements are atomic.

What could follow: a second writer of the checkpoint's temporary file; the heartbeat of a worker
during its scan; the rule bundles and their checksums.
