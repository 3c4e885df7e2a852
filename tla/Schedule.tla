------------------------------- MODULE Schedule -------------------------------
(***************************************************************************)
(* `temu schedule run`: the loop of cli/src/main.rs with                    *)
(* run_scheduled_profile, the update of the rules (cli/src/rules_update.rs) *)
(* in front of each scan, and the files and the notification after it.      *)
(*                                                                         *)
(* The rules repository has versions; version v has the files Manifests[v], *)
(* a sequence of [dir, name], and can change while they are downloaded.     *)
(***************************************************************************)
EXTENDS Naturals, Sequences

CONSTANTS
  Paths,         \* of files in the rules repository: [dir, name]
  Manifests,     \* version -> paths of the manifest, in their order
  InvalidPaths,  \* paths with ".."
  Profiles,      \* [once, update, ports, webhook, threshold, audit, in_scope]
  Threshold,     \* a severity is a number; NoThreshold: no policy
  NoThreshold,
  MaxRuns,       \* bound: iterations of the loop
  NoRules        \* a rule file that is not there

ASSUME ScheduleAssumption ==
  /\ Manifests \in Seq(Seq(Paths)) /\ Manifests # <<>>
  /\ Profiles \subseteq [once : BOOLEAN, update : BOOLEAN, ports : BOOLEAN, webhook : BOOLEAN,
                         audit : BOOLEAN, in_scope : BOOLEAN,
                         threshold : 0 .. Threshold \cup {NoThreshold}]
  /\ NoRules \notin [path : Paths, version : Nat]
  /\ Threshold \in Nat /\ MaxRuns \in Nat

VARIABLES
  profile,
  version,   \* of the repository
  place,
  downloads, \* paths that are left
  since,     \* history: the version when the manifest was read
  rules,     \* rules directory: name -> [path, version]
  highest,   \* highest severity of the scan's findings
  scans,     \* history: the rules each scan used
  written,   \* artifacts of the current scan
  history,   \* rows of the scan history
  notified   \* number of webhook calls

repository == <<version, rules>>
outputs == <<written, history, notified>>
scheduleVars == <<profile, version, place, downloads, since, rules, highest, scans, written, history,
           notified>>

Versions == DOMAIN Manifests

Names == {p.name : p \in Paths}

ScheduleInit ==
  /\ profile \in Profiles
  /\ version = 1 /\ rules = [n \in Names |-> NoRules]
  /\ place = "scope" /\ downloads = <<>> /\ since = 0 /\ highest = 0
  /\ scans = <<>> /\ written = <<>> /\ history = 0 /\ notified = 0

\* The repository changes.
Publish ==
  /\ version + 1 \in Versions
  /\ version' = version + 1
  /\ UNCHANGED <<profile, place, downloads, since, rules, highest, scans, outputs>>

-----------------------------------------------------------------------------
\* Any error ends the loop, with all that was written so far: also a file that the
\* repository does not have any more.
FailRun ==
  /\ place \in {"session", "update", "download", "scan", "report", "webhook"}
  /\ place' = "failed"
  /\ UNCHANGED <<profile, repository, downloads, since, highest, scans, outputs>>

\* validate_scope: once, before the loop.
CheckScope ==
  /\ place = "scope"
  /\ place' = IF profile.in_scope THEN "session" ELSE "failed"
  /\ UNCHANGED <<profile, repository, downloads, since, highest, scans, outputs>>

\* The configuration is read again in each run; the session is refreshed and
\* validated.
PrepareSession ==
  /\ place = "session"
  /\ place' = IF profile.update THEN "update" ELSE "ports"
  /\ written' = <<>>
  /\ UNCHANGED <<profile, repository, downloads, since, highest, scans, history, notified>>

ReadManifest ==
  /\ place = "update"
  /\ downloads' = Manifests[version] /\ since' = version
  /\ place' = "download"
  /\ UNCHANGED <<profile, repository, highest, scans, outputs>>

\* Faulty variant: a file that is there is kept.
DownloadMissing ==
  /\ place = "download" /\ downloads # <<>> /\ Head(downloads) \notin InvalidPaths
  /\ LET path == Head(downloads)
     IN  rules' = IF rules[path.name] # NoRules THEN rules
                  ELSE [rules EXCEPT ![path.name] = [path |-> path, version |-> version]]
  /\ downloads' = Tail(downloads)
  /\ UNCHANGED <<profile, version, place, since, highest, scans, outputs>>

\* download_rule: the file under its last name, in place; a file of a later version
\* may answer.
Download ==
  /\ place = "download" /\ downloads # <<>> /\ Head(downloads) \notin InvalidPaths
  /\ LET path == Head(downloads)
     IN  rules' = [rules EXCEPT ![path.name] = [path |-> path, version |-> version]]
  /\ downloads' = Tail(downloads)
  /\ UNCHANGED <<profile, version, place, since, highest, scans, outputs>>

\* remote_rule_url refuses the path.
RefusePath ==
  /\ place = "download" /\ downloads # <<>> /\ Head(downloads) \in InvalidPaths
  /\ place' = "failed"
  /\ UNCHANGED <<profile, repository, downloads, since, highest, scans, outputs>>

EndUpdate ==
  /\ place = "download" /\ downloads = <<>>
  /\ place' = "ports"
  /\ UNCHANGED <<profile, repository, downloads, since, highest, scans, outputs>>

\* parse_ports comes after the update.
CheckPorts ==
  /\ place = "ports"
  /\ place' = IF profile.ports THEN "scan" ELSE "failed"
  /\ UNCHANGED <<profile, repository, downloads, since, highest, scans, outputs>>

RunScan(severity) ==
  /\ place = "scan"
  /\ highest' = severity
  /\ scans' = Append(scans, [rules |-> rules, since |-> since])
  /\ place' = "report"
  /\ UNCHANGED <<profile, repository, downloads, since, outputs>>

\* What write_report_set writes, in its order: the row of the history first.
Artifacts ==
  <<"history", "json", "html", "pdf", "graph", "trend", "sarif", "markdown", "graph cache">>

Files == IF profile.audit THEN Append(Artifacts, "audit") ELSE Artifacts

\* write_report_set, one file after the other.
WriteArtifact ==
  /\ place = "report" /\ Len(written) < Len(Files)
  /\ LET next == Files[Len(written) + 1]
     IN  /\ written' = Append(written, next)
         /\ history' = IF next = "history" THEN history + 1 ELSE history
  /\ UNCHANGED <<profile, repository, place, downloads, since, highest, scans, notified>>

EndReport ==
  /\ place = "report" /\ Len(written) = Len(Files)
  /\ place' = IF profile.webhook THEN "webhook" ELSE "policy"
  /\ UNCHANGED <<profile, repository, downloads, since, highest, scans, outputs>>

\* post_scan_webhook.
PostWebhook ==
  /\ place = "webhook"
  /\ notified' = notified + 1
  /\ place' = "policy"
  /\ UNCHANGED <<profile, repository, downloads, since, highest, scans, written, history>>

\* violates_exit_policy.
CheckPolicy ==
  /\ place = "policy"
  /\ place' = IF profile.threshold # NoThreshold /\ highest >= profile.threshold
              THEN "policy failed"
              ELSE IF profile.once THEN "done" ELSE "sleep"
  /\ UNCHANGED <<profile, repository, downloads, since, highest, scans, outputs>>

Wake ==
  /\ place = "sleep" /\ Len(scans) < MaxRuns
  /\ place' = "session"
  /\ UNCHANGED <<profile, repository, downloads, since, highest, scans, outputs>>

-----------------------------------------------------------------------------
ScheduleNext ==
  \/ Publish \/ FailRun \/ CheckScope \/ PrepareSession \/ ReadManifest \/ Download \/ RefusePath
  \/ EndUpdate \/ CheckPorts \/ WriteArtifact \/ EndReport \/ PostWebhook \/ CheckPolicy \/ Wake
  \/ \E severity \in 0 .. Threshold : RunScan(severity)

ScheduleSpec == ScheduleInit /\ [][ScheduleNext]_scheduleVars

-----------------------------------------------------------------------------
\* The files of a manifest that none after it replaces.
LastOfName(manifest) ==
  {i \in DOMAIN manifest : \A j \in DOMAIN manifest : i < j => manifest[j].name # manifest[i].name}

\* A scan never runs with rules older than its update: every name of the manifest has
\* the file listed last under that name, at least as new as the manifest. Withdrawn
\* files stay (nothing deletes them), and after a failed update there is no scan. A
\* scan whose findings meet the threshold still has all its files, its row in the
\* history, and its notification when it ends the loop; and every scan but the
\* last has them all.
ScheduleExact ==
  LET Complete == written = Files
      Ended == {"policy", "policy failed", "sleep", "done"}
  IN  /\ \A s \in DOMAIN scans : profile.update =>
           LET manifest == Manifests[scans[s].since]
           IN  \A i \in LastOfName(manifest) :
                 LET file == scans[s].rules[manifest[i].name]
                 IN  file # NoRules /\ file.path = manifest[i] /\ file.version >= scans[s].since
      /\ \A s, t \in DOMAIN scans : s < t =>
           \A n \in Names : scans[s].rules[n] # NoRules => scans[t].rules[n] # NoRules
      /\ place \in Ended \cup {"webhook"} => Complete /\ history = Len(scans)
      /\ place \in Ended => notified = (IF profile.webhook THEN Len(scans) ELSE 0)
      /\ notified <= history /\ history <= Len(scans)
      /\ history + 1 >= Len(scans)

=============================================================================
