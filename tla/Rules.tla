-------------------------------- MODULE Rules --------------------------------
(***************************************************************************)
(* One rule of the vulnerability crate: whether it is valid and needs the   *)
(* opt-in, which requests it sends and when it matches (loader.rs,          *)
(* filter.rs, validation.rs, network.rs, executor.rs, lib.rs).              *)
(*                                                                         *)
(* A payload, the headers and the body of a request are sets of marks:      *)
(* "oast" (a callback placeholder), "destructive" (a dangerous marker),     *)
(* "path" (it starts with a slash).  A verifier is                          *)
(* [match, codes, contains, regex, header, threshold], a step is            *)
(* [payload, headers, body, verify], and a rule has the fields of a step.   *)
(***************************************************************************)
EXTENDS Naturals, Sequences, FiniteSets, SequencesExt, FiniteSetsExt

CONSTANTS
  NoValue,             \* None
  NoReply, Transient,   \* a request failed; it may be tried again
  Schema,              \* CURRENT_RULE_SCHEMA_VERSION
  KnownCapabilities,
  SecurityHeaders,     \* the headers check_security_headers asks for
  MaxSends,            \* MAX_RETRIES + 1
  RegexBudget,         \* 1024
  TimeBudget           \* 10

-----------------------------------------------------------------------------
(* Risk.                                                                    *)

\* is_payload_potentially_destructive, of the payload and of the steps' payloads.
Dangerous(rule) ==
  "destructive" \in rule.payload \cup UNION {s.payload : s \in ToSet(rule.steps)}

UsesOast(rule) ==
  "oast" \in rule.payload \cup rule.headers \cup rule.body
             \cup UNION {s.payload \cup s.headers \cup s.body : s \in ToSet(rule.steps)}

\* Faulty variant: the payloads of the steps are forgotten.
NeedsAckNoSteps(rule) ==
  \/ rule.confirm \/ rule.risk # "safe"
  \/ rule.verify.match = "time"
  \/ UsesOast(rule)
  \/ "destructive" \in rule.payload

\* requires_risky_rule_ack.
NeedsAck(rule) ==
  \/ rule.confirm \/ rule.risk # "safe"
  \/ rule.verify.match = "time"
  \/ UsesOast(rule)
  \/ Dangerous(rule)

NeedsAckNetwork(rule) == rule.confirm \/ rule.risk # "safe"

EffectiveRisk(rule) ==
  IF Dangerous(rule) THEN "destructive"
  ELSE IF rule.risk = "safe" /\ (UsesOast(rule) \/ rule.verify.match = "time") THEN "intrusive"
  ELSE rule.risk

-----------------------------------------------------------------------------
(* Validation.                                                              *)

Patterns(matcher) == {matcher.banner, matcher.response} \ {NoValue}

CommonIssue(rule, duplicate) ==
  \/ duplicate \/ rule.schema # Schema
  \/ rule.id \in {"", " "}
  \/ rule.cvss \notin 0 .. 10
  \/ rule.needs_newer \/ ~(rule.capabilities \subseteq KnownCapabilities)

\* validate_network_rule, up to the warnings.
NetworkIssue(rule, duplicate) ==
  \/ CommonIssue(rule, duplicate)
  \/ \E p \in Patterns(rule.matcher) : ~p.valid
  \/ /\ Patterns(rule.matcher) = {}
     /\ rule.matcher.status = NoValue /\ rule.matcher.tls = NoValue /\ rule.matcher.auth = NoValue
     /\ rule.matcher.required = {} /\ rule.matcher.excluded = {}

\* validate_rule, up to the warnings.
RuleIssue(rule, duplicate) ==
  LET regex == rule.verify.regex
  IN  \/ CommonIssue(rule, duplicate)
      \/ /\ rule.verify.match = "regex"
         /\ IF regex = NoValue THEN TRUE ELSE ~regex.valid \/ regex.length > RegexBudget
      \/ /\ rule.verify.match = "time"
         /\ IF rule.verify.threshold = NoValue THEN TRUE ELSE rule.verify.threshold > TimeBudget
      \/ (Dangerous(rule) \/ UsesOast(rule)) /\ (~rule.confirm \/ rule.risk = "safe")

-----------------------------------------------------------------------------
(* Matching an answer [status, body, headers, time].                        *)

RegexMatches(regex, text) == regex.valid /\ regex.text \in text

CodeOk(verify, status) == verify.codes = {} \/ status \in verify.codes

ContainsOk(verify, r) == verify.contains = NoValue \/ verify.contains \in r.body

HeaderOk(verify, r) == verify.header = NoValue \/ verify.header \in r.headers

Matches(verify, r) ==
  CASE verify.match = "status"   -> /\ r.status \in verify.codes
                                    /\ ContainsOk(verify, r) /\ HeaderOk(verify, r)
                                    /\ verify.regex # NoValue => RegexMatches(verify.regex, r.body)
    [] verify.match = "contains" -> CodeOk(verify, r.status) /\ ContainsOk(verify, r)
    [] verify.match = "regex"    -> /\ CodeOk(verify, r.status)
                                    /\ verify.regex # NoValue /\ RegexMatches(verify.regex, r.body)
    [] verify.match = "header"   -> CodeOk(verify, r.status) /\ HeaderOk(verify, r)
    [] verify.match = "time"     -> FALSE

\* send_with_resilience: a request is sent again after a failure that may pass and
\* after status 429.
Send(attempts) ==
  LET Again(a) == a = Transient \/ (a # NoReply /\ a.status = 429)
      Ends(i)  == i = MaxSends \/ ~Again(attempts[i])
      last     == attempts[Min({i \in 1 .. MaxSends : Ends(i)})]
  IN  IF last = Transient THEN NoReply ELSE last

-----------------------------------------------------------------------------
(* Execution of one rule.  A request that cannot be built is NoValue.       *)

IsPathProbe(rule) == rule.steps = <<>> /\ rule.points = <<>> /\ "path" \in rule.payload

\* render_oast_placeholders: a placeholder needs a callback URL.
Rendered(marks, oast) == IF "oast" \in marks /\ ~oast THEN NoValue ELSE marks

InjectionPoints(rule, parameter) ==
  IF rule.points # <<>> THEN rule.points
  ELSE IF parameter # NoValue \/ rule.name # NoValue THEN <<"query">>
  ELSE <<"header", "cookie", "body">>

\* build_injected_request.
Injected(rule, point, parameter, marks, oast) ==
  IF point = "query" /\ parameter = NoValue /\ rule.name = NoValue THEN NoValue
  ELSE Rendered(marks \cup rule.headers \cup rule.body, oast)

\* The requests of a rule in their order: two per injection point for a rule that
\* measures the time, one per step, or one.
RequestsOf(rule, parameter, oast) ==
  LET points == InjectionPoints(rule, parameter)
      Of(step) == Rendered(step.payload \cup step.headers \cup step.body, oast)
  IN  IF rule.steps # <<>> THEN [i \in DOMAIN rule.steps |-> Of(rule.steps[i])]
      ELSE IF rule.verify.match = "time"
      THEN [i \in 1 .. 2 * Len(points) |->
              Injected(rule, points[(i + 1) \div 2], parameter,
                       IF i % 2 = 1 THEN {} ELSE rule.payload, oast)]
      ELSE IF "query" \in ToSet(rule.points) /\ parameter = NoValue /\ rule.name = NoValue
      THEN <<>>
      ELSE <<Of(rule)>>

Verifiers(rule) ==
  IF rule.steps = <<>> THEN <<rule.verify>> ELSE [i \in DOMAIN rule.steps |-> rule.steps[i].verify]

\* execute_rule: world[i] are the attempts of the i-th request.
Execute(rule, parameter, oast, world) ==
  LET requests == RequestsOf(rule, parameter, oast)
      Answer(i) == IF requests[i] = NoValue THEN NoReply ELSE Send(world[i])
      Timed == rule.steps = <<>> /\ rule.verify.match = "time"
      threshold == IF rule.verify.threshold = NoValue THEN 5 ELSE rule.verify.threshold
      Delayed(i) == /\ i % 2 = 0 /\ Answer(i - 1) # NoReply
                    /\ \E s \in {Answer(i).status, Answer(i - 1).status} : CodeOk(rule.verify, s)
                    /\ Answer(i).time >= Answer(i - 1).time + threshold
      Stops(i) == \/ Answer(i) = NoReply
                  \/ IF Timed THEN Delayed(i) ELSE ~Matches(Verifiers(rule)[i], Answer(i))
      stop == LET at == {i \in DOMAIN requests : Stops(i)}
              IN  IF at = {} THEN 0 ELSE Min(at)
  IN  [found |-> /\ requests # <<>>
                 /\ IF Timed THEN stop # 0 /\ Answer(stop) # NoReply ELSE stop = 0,
       sent  |-> {requests[i] : i \in 1 .. (IF stop = 0 THEN Len(requests) ELSE stop)} \ {NoValue}]

-----------------------------------------------------------------------------
(* The scan of the assets [kind, parameters].                               *)

Applicable(rules, tech) == {r \in rules : r.tech = {} \/ r.tech \cap tech # {}}

Runnable(rules, allow) == {r \in rules : allow \/ ~NeedsAck(r)}

MissingHeaders(asset, response) ==
  IF asset.kind # "url" \/ response \in {NoReply, Transient} THEN {}
  ELSE SecurityHeaders \ response.headers

\* The parameters a rule is run with on an asset; NoValue: once, without one.
ParametersFor(rule, asset) ==
  CASE IsPathProbe(rule) /\ asset.kind # "url" -> {}
    [] asset.kind = "parameter" /\ ~IsPathProbe(rule) -> asset.parameters
    [] OTHER -> {NoValue}

\* rule_applies, for a service profile.
HoldsText(text, pattern) == pattern = NoValue \/ RegexMatches(pattern, text)

RuleApplies(rule, service) ==
  LET m == rule.matcher
  IN  /\ rule.protocols = {} \/ service.protocol \in rule.protocols
      /\ rule.products = {} \/ service.product \in rule.products
      /\ m.tls = NoValue \/ m.tls = service.tls
      /\ m.auth = NoValue \/ m.auth = service.auth
      /\ m.required \subseteq service.signals /\ m.excluded \cap service.signals = {}
      /\ m.status = NoValue \/ m.status \in service.handshake
      /\ HoldsText(service.banner, m.banner) /\ HoldsText(service.handshake, m.response)

=============================================================================
