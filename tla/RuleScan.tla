------------------------------ MODULE RuleScan ------------------------------
(***************************************************************************)
(* Three readings of one rules directory: `rules validate`                  *)
(* (validate_rules_dir), and a scan, which loads the HTTP rules and runs    *)
(* them on its assets (load_rules, run_vulnerability_scan) and loads the    *)
(* network rules and runs them on its services (load_network_rules,         *)
(* run_network_service_checks).  The directory does not change and is       *)
(* listed in the same order; a reading takes one file per step.             *)
(*                                                                         *)
(* A file is [kind, parses, rule], where kind is "http", "network",         *)
(* "fingerprint" or "other".                                                *)
(***************************************************************************)
EXTENDS Rules

CONSTANTS
  RuleJobs,   \* [files, tech, allow, oast, assets, services]
  Worlds      \* what the target can answer to the requests of a rule

ASSUME RuleAssumption ==
  \A j \in RuleJobs :
    /\ j.files \in Seq({j.files[i] : i \in DOMAIN j.files})
    /\ j.allow \in BOOLEAN /\ j.oast \in BOOLEAN
    /\ \A i \in DOMAIN j.files : j.files[i].kind = "http" =>
         LET rule == j.files[i].rule
         IN  /\ rule.steps \in Seq({rule.steps[k] : k \in DOMAIN rule.steps})
             /\ rule.points \in Seq({rule.points[k] : k \in DOMAIN rule.points})

VARIABLES
  job,              \* the directory and the scan
  reading,          \* "validate", "load", "network" or "done"
  listed,           \* how many files this reading has seen
  validations,      \* results of the validation: [file, valid, risk, ack]
  taken,            \* seen_ids of the reading
  httpRules,        \* the rules that load_rules returns
  networkRules,     \* the rules that load_network_rules returns
  executions,       \* [rule, asset, parameter, outcome]
  missing,          \* security headers that an asset does not send: [asset, header]
  serviceFindings   \* the network rules that match, each with its service

ruleVars == <<job, reading, listed, validations, taken, httpRules, networkRules, executions,
              missing, serviceFindings>>

-----------------------------------------------------------------------------

File == job.files[listed + 1]

RuleInit ==
  /\ job \in RuleJobs
  /\ reading = "validate" /\ listed = 0 /\ taken = {}
  /\ validations = {} /\ httpRules = {} /\ networkRules = {}
  /\ executions = {} /\ missing = {} /\ serviceFindings = {}

Look(what) == reading = what /\ listed < Len(job.files) /\ listed' = listed + 1

Closes(what, next) ==
  /\ reading = what /\ listed = Len(job.files)
  /\ reading' = next /\ listed' = 0 /\ taken' = {}

Validation(f, duplicate) ==
  IF ~f.parses THEN [file |-> f, valid |-> FALSE, risk |-> "unknown", ack |-> TRUE]
  ELSE IF f.kind = "network"
  THEN [file |-> f, valid |-> ~NetworkIssue(f.rule, duplicate), risk |-> f.rule.risk,
        ack |-> NeedsAckNetwork(f.rule)]
  ELSE [file |-> f, valid |-> ~RuleIssue(f.rule, duplicate), risk |-> EffectiveRisk(f.rule),
        ack |-> NeedsAck(f.rule)]

\* validate_rules_dir: one set of identifiers for both kinds, taken before a rule is
\* looked at.
ValidateFile ==
  /\ Look("validate")
  /\ IF File.kind \notin {"http", "network"} THEN UNCHANGED <<validations, taken>>
     ELSE /\ validations' = validations \cup {Validation(File, File.rule.id \in taken)}
          /\ taken' = IF File.parses THEN taken \cup {File.rule.id} ELSE taken
  /\ UNCHANGED <<job, reading, httpRules, networkRules, executions, missing, serviceFindings>>

Validated ==
  /\ Closes("validate", "load")
  /\ UNCHANGED <<job, validations, httpRules, networkRules, executions, missing, serviceFindings>>

Loadable(f, kind) ==
  f.kind = kind /\ f.parses /\ f.rule.id # "" /\ f.rule.schema = Schema

\* load_rules.
LoadRule ==
  /\ Look("load")
  /\ IF Loadable(File, "http") /\ File.rule.id \notin taken
     THEN httpRules' = httpRules \cup {File.rule} /\ taken' = taken \cup {File.rule.id}
     ELSE UNCHANGED <<httpRules, taken>>
  /\ UNCHANGED <<job, reading, validations, networkRules, executions, missing, serviceFindings>>

\* run_vulnerability_scan: the rules that apply and may run, on each asset, one
\* request after the other, and a request of its own for the security headers.
ExecutionsFor(world) ==
  UNION {{[rule |-> r, asset |-> a, parameter |-> p, outcome |-> Execute(r, p, job.oast, world)] :
            p \in ParametersFor(r, a)} :
         r \in Runnable(Applicable(httpRules, job.tech), job.allow), a \in ToSet(job.assets)}

RunRules ==
  /\ Closes("load", "network")
  /\ \E world \in Worlds : executions' = ExecutionsFor(world)
  /\ \E world \in Worlds :
       missing' = UNION {{[asset |-> a, header |-> h] : h \in MissingHeaders(a, world[1][1])} :
                         a \in ToSet(job.assets)}
  /\ UNCHANGED <<job, validations, httpRules, networkRules, serviceFindings>>

\* load_network_rules: the identifier of a rule with an invalid pattern stays taken.
LoadNetworkRule ==
  /\ Look("network")
  /\ IF Loadable(File, "network") /\ File.rule.id \notin taken
     THEN /\ taken' = taken \cup {File.rule.id}
          /\ networkRules' = IF \A p \in Patterns(File.rule.matcher) : p.valid
                             THEN networkRules \cup {File.rule} ELSE networkRules
     ELSE UNCHANGED <<networkRules, taken>>
  /\ UNCHANGED <<job, reading, validations, httpRules, executions, missing, serviceFindings>>

\* run_network_service_checks.
RunNetworkRules ==
  /\ Closes("network", "done")
  /\ serviceFindings' =
       {f \in networkRules \X ToSet(job.services) :
          (job.allow \/ ~NeedsAckNetwork(f[1])) /\ RuleApplies(f[1], f[2])}
  /\ UNCHANGED <<job, validations, httpRules, networkRules, executions, missing>>

RuleNext ==
  ValidateFile \/ Validated \/ LoadRule \/ RunRules \/ LoadNetworkRule \/ RunNetworkRules

RuleSpec == RuleInit /\ [][RuleNext]_ruleVars

-----------------------------------------------------------------------------

\* A file that validation accepts is loaded, whatever was listed before it; a rule
\* that it classifies as risky needs the opt-in; and no two rules have one identifier.
DirectoryAgrees ==
  /\ \A v \in validations :
       /\ v.valid => v.file.rule \in httpRules \cup networkRules
       /\ v.risk # "safe" => v.ack
  /\ \A ruleSet \in {httpRules, networkRules} : \A r, s \in ruleSet : r.id = s.id => r = s

\* Without the opt-in no request of any step carries a callback, a dangerous payload
\* or a measured delay ("users must also pass --allow-risky-rules",
\* docs/rule-authoring.md), but for a dangerous marker in a header or in the body of a
\* request, which nothing looks for; and no rule is found without a request.
RequestsAllowed ==
  \A e \in executions :
    LET unseen == e.rule.headers \cup e.rule.body
                    \cup UNION {s.headers \cup s.body : s \in ToSet(e.rule.steps)}
    IN  /\ \A marks \in e.outcome.sent :
             /\ "oast" \in marks => job.allow /\ job.oast
             /\ e.rule.verify.match = "time" => job.allow
             /\ "destructive" \in marks => job.allow \/ "destructive" \in unseen
        /\ e.outcome.found => e.outcome.sent # {}

\* Validation, loading and execution are three readings of one directory, and they
\* agree (validation.rs, loader.rs, network.rs, executor.rs).
RulesAgree ==
  reading = "done" =>
    /\ DirectoryAgrees
    /\ RequestsAllowed
    /\ \A f \in serviceFindings : f[1].risk # "safe" => job.allow

=============================================================================
