---------------------------- MODULE Verification ----------------------------
(***************************************************************************)
(* run_verification of verifier/src/lib.rs: every finding is asked for once *)
(* more, one after the other; it is confirmed, removed, or kept as it is.   *)
(*                                                                         *)
(* A finding is [id, url, parameter, verified]; url is [valid, sleep]:      *)
(* sleep when it holds SLEEP(n).  The target answers each request as it     *)
(* likes.  Times are sums of the rounds instead of their averages.          *)
(***************************************************************************)
EXTENDS Rules

CONSTANTS
  FindingLists,   \* the findings of a scan, in their order
  RuleSets,       \* the rules by identifier, or NoValue: no rules or no client
  Responses,      \* what the target answers
  Durations,      \* how long it takes
  Timeout,        \* timeout_secs
  Rounds          \* measurements per delay: 3

ASSUME VerificationAssumption ==
  /\ Durations \subseteq Nat /\ Timeout \in Nat /\ Rounds \in Nat \ {0}
  /\ \A fs \in FindingLists :
       /\ Len(fs) \in Nat /\ DOMAIN fs = 1 .. Len(fs)
       /\ \A i \in DOMAIN fs : fs[i].verified \in BOOLEAN
  /\ \A rs \in RuleSets \ {NoValue} :
       /\ \A r \in rs : /\ r.verify.threshold \in Nat \cup {NoValue}
                        /\ r.verify.match \in {"status", "contains", "regex", "header", "time"}
       /\ \A r, s \in rs : r.id = s.id => r = s

VARIABLES
  vulns,      \* the findings
  byId,       \* rules_by_id
  next,       \* the finding that is verified
  delay,      \* the delays of its URL that were measured
  times,      \* the measurements of one delay: [rounds, baseline, payload]
  kept,       \* verified: [of, verified] for each finding that stays
  seen,       \* history: finding -> what the target answered
  failed      \* history: the findings of which a request failed

verifyVars == <<vulns, byId, next, delay, times, kept, seen, failed>>

-----------------------------------------------------------------------------

Vuln == vulns[next]

Own(f) == IF byId = NoValue THEN {} ELSE {r \in byId : r.id = f.id}

TimeThreshold(rule) == IF rule.verify.threshold = NoValue THEN 5 ELSE rule.verify.threshold

\* adjusted_sleep_payload_urls: the delays that are tried.
Delays(url, threshold) ==
  IF ~url.sleep THEN {threshold}
  ELSE {IF threshold >= 3 THEN threshold - 2 ELSE 1, threshold, threshold + 2}

\* The averages differ by the threshold; a difference below zero is zero.
Exceeds(threshold, baseline, payload) ==
  threshold = 0 \/ payload >= baseline + Rounds * threshold

NoTimes == [rounds |-> 0, baseline |-> 0, payload |-> 0]

VerifyInit ==
  /\ vulns \in FindingLists /\ byId \in RuleSets
  /\ next = 1 /\ delay = {} /\ times = NoTimes /\ kept = <<>>
  /\ seen = [i \in DOMAIN vulns |-> {}] /\ failed = {}

\* The verdicts: each ends with the next finding.
Move == next' = next + 1 /\ delay' = {} /\ times' = NoTimes /\ UNCHANGED <<vulns, byId>>

Conclude(verdict) ==
  /\ kept' = IF verdict = "false_positive" THEN kept
             ELSE Append(kept, [of |-> next,
                                verified |-> Vuln.verified \/ verdict = "confirmed"])
  /\ Move

Note(what) == seen' = [seen EXCEPT ![next] = @ \cup {what}] /\ UNCHANGED failed

NoteFailure == failed' = failed \cup {next} /\ UNCHANGED seen

-----------------------------------------------------------------------------

\* Already verified, or no rule of that name: kept as it is.
Pass ==
  /\ next \in DOMAIN vulns
  /\ Vuln.verified \/ Own(Vuln) = {}
  /\ Conclude("inconclusive")
  /\ UNCHANGED <<seen, failed>>

Decide(confirmed) == IF confirmed THEN "confirmed" ELSE "false_positive"

\* A body that cannot be read is empty.
VerifyReflection(url, answer) ==
  IF ~url.valid \/ answer = NoReply THEN "inconclusive" ELSE Decide("marker" \in answer.body)

VerifyBody(verify, answer) ==
  IF answer = NoReply THEN "inconclusive"
  ELSE Decide(/\ CodeOk(verify, answer.status)
              /\ IF verify.match = "contains" THEN ContainsOk(verify, answer)
                 ELSE verify.regex # NoValue /\ RegexMatches(verify.regex, answer.body))

VerifyStatus(verify, answer) ==
  IF answer = NoReply THEN "inconclusive"
  ELSE Decide(answer.status \in (IF verify.codes = {} THEN 200 .. 399 ELSE verify.codes))

VerifyHeader(verify, answer) ==
  IF answer = NoReply \/ verify.header = NoValue THEN "inconclusive"
  ELSE Decide(verify.header \in answer.headers)

\* verify_with_rule, for a rule that looks at one answer.
VerdictOf(finding, verify, answer) ==
  CASE verify.match = "status" -> VerifyStatus(verify, answer)
    [] verify.match = "header" -> VerifyHeader(verify, answer)
    [] verify.match \in {"contains", "regex"} ->
         IF finding.parameter # NoValue THEN VerifyReflection(finding.url, answer)
         ELSE VerifyBody(verify, answer)

VerifyAnswer(rule, answer) ==
  /\ rule.verify.match # "time"
  /\ Conclude(VerdictOf(Vuln, rule.verify, answer))
  /\ IF answer = NoReply THEN NoteFailure ELSE Note(answer)

-----------------------------------------------------------------------------
(* verify_time_based_with_client: a baseline and a payload request per      *)
(* round.                                                                   *)

Measure(rule, baseline, payload) ==
  /\ rule.verify.match = "time" /\ times.rounds < Rounds
  /\ times' = [rounds |-> times.rounds + 1, baseline |-> times.baseline + baseline,
               payload |-> times.payload + payload]
  /\ UNCHANGED <<vulns, byId, next, delay, kept, seen, failed>>

\* Faulty variant of FailMeasurement: no answer is no delay.
FailMeasurementAsNone(rule) ==
  /\ rule.verify.match = "time" /\ times.rounds < Rounds
  /\ Conclude("false_positive")
  /\ NoteFailure

\* A request that fails ends the verification of this finding.
FailMeasurement(rule) ==
  /\ rule.verify.match = "time" /\ times.rounds < Rounds
  /\ Conclude("inconclusive")
  /\ NoteFailure

\* The delays are tried one after the other, the shortest first, until one shows.
Judge(rule) ==
  /\ rule.verify.match = "time" /\ times.rounds = Rounds
  /\ LET left    == Delays(Vuln.url, TimeThreshold(rule)) \ delay
         verdict == CASE Exceeds(TimeThreshold(rule), times.baseline, times.payload) -> "confirmed"
                      [] ~Exceeds(TimeThreshold(rule), times.baseline, times.payload)
                           /\ times.payload > Rounds * Timeout -> "inconclusive"
                      [] OTHER -> "false_positive"
     IN  \E d \in left :
           /\ \A e \in left : d <= e
           /\ Note([delay |-> d, baseline |-> times.baseline, payload |-> times.payload])
           /\ IF verdict = "false_positive" /\ left # {d}
              THEN /\ delay' = delay \cup {d} /\ times' = NoTimes
                   /\ UNCHANGED <<vulns, byId, next, kept>>
              ELSE Conclude(verdict)

-----------------------------------------------------------------------------

VerifyNext ==
  \/ Pass
  \/ /\ next \in DOMAIN vulns /\ ~Vuln.verified
     /\ \E rule \in Own(Vuln) :
          \/ \E answer \in Responses \cup {NoReply} : VerifyAnswer(rule, answer)
          \/ \E baseline, payload \in Durations : Measure(rule, baseline, payload)
          \/ FailMeasurement(rule)
          \/ Judge(rule)

VerifySpec == VerifyInit /\ [][VerifyNext]_verifyVars

-----------------------------------------------------------------------------

\* What the target said of a finding excludes it: every request was answered, and
\* every delay of its URL was measured and stayed below the threshold, or the
\* executor would not have reported it from that answer.
Disproved(i) ==
  LET f == vulns[i]
  IN  /\ ~f.verified /\ i \notin failed
      /\ \E r \in Own(f) :
           IF r.verify.match = "time"
           THEN /\ {m.delay : m \in seen[i]} = Delays(f.url, TimeThreshold(r))
                /\ \A m \in seen[i] : ~Exceeds(TimeThreshold(r), m.baseline, m.payload)
           ELSE \E a \in seen[i] :
                  seen[i] = {a} /\ (f.parameter = NoValue => ~Matches(r.verify, a))

\* What the target said shows it: a measured delay, or at least an answer.
Shown(i) ==
  /\ i \notin failed
  /\ \E r \in Own(vulns[i]) :
       IF r.verify.match = "time"
       THEN \E m \in seen[i] : Exceeds(TimeThreshold(r), m.baseline, m.payload)
       ELSE seen[i] # {}

\* Verification removes only what it disproves and confirms only what was shown,
\* whatever the target answers and whichever requests fail: of the findings that
\* were looked at, each is disproved or kept, a verified one with its mark; each
\* is kept once, in the order of the findings, and is marked only if it was or if
\* the target showed it (run_verification).
RemovesOnlyDisproved ==
  /\ \A i \in 1 .. next - 1 :
       \/ Disproved(i)
       \/ \E k \in DOMAIN kept : kept[k].of = i /\ (vulns[i].verified => kept[k].verified)
  /\ \A k \in DOMAIN kept :
       /\ kept[k].of \in 1 .. next - 1
       /\ kept[k].verified => vulns[kept[k].of].verified \/ Shown(kept[k].of)
       /\ \A l \in 1 .. k - 1 : kept[l].of < kept[k].of

=============================================================================
