-------------------------- MODULE ResilientRequests --------------------------
(***************************************************************************)
(* The concurrent requests of one target: fuzz_paths of                    *)
(* crates/fuzzing/src/fuzzer.rs, its send_get_with_resilience, and the     *)
(* AdaptiveRateLimiter of crates/core/src/resilience.rs that all requests  *)
(* share (crates/discovery/src/probe.rs and crates/vulnerability/          *)
(* src/executor.rs have the same loop).                                    *)
(*                                                                         *)
(* A baseline probe runs alone; then one task per word waits for a permit  *)
(* of the semaphore, for its slot, for the answer, and for its retries.    *)
(* One action is the code between two awaits.  Time is discrete and        *)
(* relative: a timer is what is left of a sleep, Tick lets time pass, and  *)
(* a sleeper may wake up late.                                             *)
(***************************************************************************)
EXTENDS Naturals, FiniteSets

CONSTANTS
  Words,          \* the wordlist
  Baseline,       \* the probe of BASELINE_PATH
  FuzzConcurrency, \* config.concurrency
  ConfiguredRps,  \* config.rate_limit
  Second,         \* ticks per second
  MaxRetries,     \* MAX_RETRIES: 3
  PauseTicks,     \* LEVEL_THREE_PAUSE: 30 s
  RetryDelays     \* retry_delay(attempt) with its jitter, in ticks

ASSUME RequestsAssumption ==
  /\ Baseline \notin Words /\ IsFiniteSet(Words)
  /\ FuzzConcurrency \in Nat /\ ConfiguredRps \in Nat /\ Second \in Nat \ {0}
  /\ MaxRetries \in Nat /\ PauseTicks \in Nat
  /\ RetryDelays \subseteq Nat /\ RetryDelays # {}

Probes == Words \cup {Baseline}

MaxBackoffLevel == 3

Before(n) == IF n = 0 THEN 0 ELSE n - 1
NeverZero(n) == IF n = 0 THEN 1 ELSE n

\* backoff_rps: integer division, never below 1.
BackoffRps(level) ==
  NeverZero(CASE level = 0 -> ConfiguredRps
              [] level = 1 -> ConfiguredRps \div 2
              [] OTHER     -> ConfiguredRps \div 4)

VARIABLES
  slot,     \* ticks until next_allowed_at, 0 when it has passed
  level,    \* backoff_level; current_rps is BackoffRps(level)
  measured, \* baseline_latency is Some
  active,   \* active_connections
  total,    \* total_requests
  retried,  \* retry_count
  probePermits, \* available permits of the semaphore
  probePc,  \* where each probe is
  timer,    \* what is left of the sleep of each probe
  attempt,  \* its retries so far
  answer    \* how its request ended, until it was observed

limiter == <<slot, level, measured>>
metrics == <<active, total, retried>>
requestVars == <<limiter, metrics, probePermits, probePc, timer, attempt, answer>>

\* "ok": any status but 429; "limited": status 429; "transient": timeout,
\* connect or request error; "fatal": any other error.
Answers == {"ok", "limited", "transient", "fatal"}

RequestsInit ==
  /\ slot = 0 /\ level = 0 /\ measured = FALSE
  /\ active = 0 /\ total = 0 /\ retried = 0
  /\ probePermits = FuzzConcurrency
  /\ probePc = [p \in Probes |-> IF p = Baseline THEN "reserve" ELSE "queued"]
  /\ timer = [p \in Probes |-> 0]
  /\ attempt = [p \in Probes |-> 0]
  /\ answer = [p \in Probes |-> "none"]

MoveProbe(p, from, to) == probePc[p] = from /\ probePc' = [probePc EXCEPT ![p] = to]

-----------------------------------------------------------------------------
\* sem.acquire(); the tasks are spawned when the baseline probe has ended.
AcquirePermit(p) ==
  /\ probePc[Baseline] = "done"
  /\ MoveProbe(p, "queued", "reserve")
  /\ probePermits > 0
  /\ probePermits' = probePermits - 1
  /\ UNCHANGED <<limiter, metrics, timer, attempt, answer>>

\* The permit is dropped with the task; the baseline probe has none.
Release(p) == probePermits' = IF p = Baseline THEN probePermits ELSE probePermits + 1

Interval == Second \div BackoffRps(level)

\* Faulty variant: the next slot is computed from now, not from the slot taken.
ReserveSlotFromNow(p) ==
  /\ MoveProbe(p, "reserve", "slot")
  /\ timer' = [timer EXCEPT ![p] = slot]
  /\ slot' = Interval
  /\ UNCHANGED <<level, measured, metrics, probePermits, attempt, answer>>

\* before_request, the locked section: wait until the slot, move the next one.
ReserveSlot(p) ==
  /\ MoveProbe(p, "reserve", "slot")
  /\ timer' = [timer EXCEPT ![p] = slot]
  /\ slot' = slot + Interval
  /\ UNCHANGED <<level, measured, metrics, probePermits, attempt, answer>>

\* The rest of before_request; the request is on its way.
SendRequest(p) ==
  /\ MoveProbe(p, "slot", "sent")
  /\ timer[p] = 0
  /\ active' = active + 1
  /\ total' = total + 1
  /\ UNCHANGED <<limiter, retried, probePermits, timer, attempt, answer>>

\* The error ends the probe: not transient, or the last retry failed too.
GivesUp(p, a) == a = "fatal" \/ (a = "transient" /\ attempt[p] = MaxRetries)

\* Faulty variant: finish_request is not reached when the probe gives up.
ReceiveNoFinish(p) ==
  \E a \in Answers :
    /\ IF GivesUp(p, a)
       THEN MoveProbe(p, "sent", "done") /\ Release(p) /\ UNCHANGED <<answer, active>>
       ELSE /\ MoveProbe(p, "sent", "observe")
            /\ answer' = [answer EXCEPT ![p] = a]
            /\ active' = active - 1
            /\ UNCHANGED probePermits
    /\ UNCHANGED <<limiter, total, retried, timer, attempt>>

\* Faulty variant: a probe that gives up keeps its permit.
ReceiveKeepPermit(p) ==
  /\ active' = active - 1
  /\ \E a \in Answers :
       IF GivesUp(p, a)
       THEN MoveProbe(p, "sent", "done") /\ UNCHANGED answer
       ELSE MoveProbe(p, "sent", "observe") /\ answer' = [answer EXCEPT ![p] = a]
  /\ UNCHANGED <<limiter, total, retried, probePermits, timer, attempt>>

\* send() returns: finish_request, and the probe may end without a result.
Receive(p) ==
  /\ active' = active - 1
  /\ \E a \in Answers :
       IF GivesUp(p, a)
       THEN MoveProbe(p, "sent", "done") /\ Release(p) /\ UNCHANGED answer
       ELSE /\ MoveProbe(p, "sent", "observe")
            /\ answer' = [answer EXCEPT ![p] = a]
            /\ UNCHANGED probePermits
  /\ UNCHANGED <<limiter, total, retried, timer, attempt>>

\* Faulty variant: the level is not capped.
ObserveUncapped(p, throttled) ==
  /\ \E slow \in BOOLEAN :
       /\ slow => measured
       /\ throttled = (answer[p] = "limited" \/ slow)
  /\ measured' = TRUE
  /\ level' = IF throttled THEN level + 1 ELSE Before(level)
  /\ UNCHANGED slot

\* observe_response: the first response is the baseline and so never slow; from
\* then on a response may take more than three times the baseline.
Observe(p, throttled) ==
  /\ \E slow \in BOOLEAN :
       /\ slow => measured
       /\ throttled = (answer[p] = "limited" \/ slow)
  /\ measured' = TRUE
  /\ level' = IF throttled THEN (IF level = MaxBackoffLevel THEN level ELSE level + 1)
              ELSE Before(level)
  /\ UNCHANGED slot

\* The response is returned; its body is read next.
Accept(p) ==
  /\ \/ answer[p] = "ok"
     \/ answer[p] = "limited" /\ attempt[p] = MaxRetries
  /\ MoveProbe(p, "observe", "body")
  /\ \E throttled \in BOOLEAN : Observe(p, throttled)
  /\ answer' = [answer EXCEPT ![p] = "none"]
  /\ UNCHANGED <<metrics, probePermits, timer, attempt>>

\* Status 429: pause when observe_response says so, otherwise retry_delay.
RetryLimited(p) ==
  /\ answer[p] = "limited" /\ attempt[p] < MaxRetries
  /\ MoveProbe(p, "observe", "backoff")
  /\ Observe(p, TRUE)
  /\ retried' = retried + 1
  /\ \E delay \in RetryDelays :
       timer' = [timer EXCEPT ![p] = IF level' = MaxBackoffLevel THEN PauseTicks ELSE delay]
  /\ answer' = [answer EXCEPT ![p] = "none"]
  /\ UNCHANGED <<active, total, probePermits, attempt>>

\* A transient error: what observe_response returns is not used.
RetryTransient(p) ==
  /\ answer[p] = "transient"
  /\ MoveProbe(p, "observe", "backoff")
  /\ \E throttled \in BOOLEAN : Observe(p, throttled)
  /\ retried' = retried + 1
  /\ \E delay \in RetryDelays : timer' = [timer EXCEPT ![p] = delay]
  /\ answer' = [answer EXCEPT ![p] = "none"]
  /\ UNCHANGED <<active, total, probePermits, attempt>>

\* The sleep is over: the next iteration of the loop.
Retry(p) ==
  /\ MoveProbe(p, "backoff", "reserve")
  /\ timer[p] = 0
  /\ attempt' = [attempt EXCEPT ![p] = @ + 1]
  /\ UNCHANGED <<limiter, metrics, probePermits, timer, answer>>

\* response_body_len, with the permit still held.
ReadBody(p) ==
  /\ MoveProbe(p, "body", "done")
  /\ Release(p)
  /\ UNCHANGED <<limiter, metrics, timer, attempt, answer>>

\* One tick passes.
Tick ==
  /\ slot > 0 \/ \E p \in Probes : timer[p] > 0
  /\ slot' = Before(slot)
  /\ timer' = [p \in Probes |-> Before(timer[p])]
  /\ UNCHANGED <<level, measured, metrics, probePermits, probePc, attempt, answer>>

ProbeStep(p) ==
  \/ AcquirePermit(p) \/ ReserveSlot(p) \/ SendRequest(p) \/ Receive(p) \/ Accept(p)
  \/ RetryLimited(p) \/ RetryTransient(p) \/ Retry(p) \/ ReadBody(p)

RequestsNext == Tick \/ \E p \in Probes : ProbeStep(p)

RequestsSpec == RequestsInit /\ [][RequestsNext]_requestVars

\* Time passes, and every request ends: the client has a timeout.
RequestsFairSpec ==
  RequestsSpec /\ WF_requestVars(Tick) /\ \A p \in Probes : WF_requestVars(ProbeStep(p))

-----------------------------------------------------------------------------
(* Properties.                                                             *)

\* Type invariant; the next slot is never further away than one slow interval for
\* each task that may run, and one for itself: the limiter queues no more.
RequestsTypeOK ==
  /\ slot \in 0 .. Second * (NeverZero(FuzzConcurrency) + 1)
  /\ level \in 0 .. MaxBackoffLevel
  /\ measured \in BOOLEAN
  /\ probePermits \in 0 .. FuzzConcurrency
  /\ probePc \in [Probes -> {"queued", "reserve", "slot", "sent", "observe", "backoff",
                        "body", "done"}]
  /\ timer \in [Probes -> Nat]
  /\ attempt \in [Probes -> 0 .. MaxRetries]
  /\ answer \in [Probes -> Answers \cup {"none"}]

\* However many tasks ask at once, and however the rate changes in between, their
\* slots are at least one interval of the configured rate apart, and so is the
\* slot that the limiter will hand out next.
SlotsSpaced ==
  LET gap == Second \div NeverZero(ConfiguredRps)
      Waiting == {p \in Probes : probePc[p] = "slot" /\ timer[p] > 0}
  IN  /\ \A p \in Waiting : timer[p] + gap <= slot
      /\ \A p, q \in Waiting : p # q => timer[p] + gap <= timer[q] \/ timer[q] + gap <= timer[p]

\* The requests that p has sent, and the retries it has begun.
RequestsOf(p) == attempt[p] + (IF probePc[p] \in {"queued", "reserve", "slot"} THEN 0 ELSE 1)
RetriesOf(p)  == attempt[p] + (IF probePc[p] = "backoff" THEN 1 ELSE 0)

\* f[p] things of each probe p, numbered.
Numbered(f) == UNION {{p} \X (1 .. f[p]) : p \in Probes}

\* The words whose task holds a permit.
Holders ==
  {p \in Words : probePc[p] \in {"reserve", "slot", "sent", "observe", "backoff", "body"}}

\* What each probe added to the metrics, and the permits, agree with where the
\* probes are, on every error path: active_connections counts the requests on
\* their way, total_requests is the first tries plus the retries, and no permit
\* is lost or returned twice.
Accounting ==
  /\ active = Cardinality({p \in Probes : probePc[p] = "sent"})
  /\ total = Cardinality(Numbered([p \in Probes |-> RequestsOf(p)]))
  /\ retried = Cardinality(Numbered([p \in Probes |-> RetriesOf(p)]))
  /\ probePermits + Cardinality(Holders) = FuzzConcurrency

\* Every word is probed to the end, whatever the target answers: permits held
\* during backoff and pauses always come back.
AllProbed == FuzzConcurrency > 0 => <>(\A p \in Probes : probePc[p] = "done")

\* "Returns true when level-3 throttling was observed and the caller should pause
\* before retrying": a probe that reached level 3 and retries pauses first.
LevelThreePauses ==
  [][\A p \in Probes :
       probePc[p] = "observe" /\ probePc'[p] = "backoff" /\ level' = MaxBackoffLevel =>
         timer'[p] >= PauseTicks]_requestVars

=============================================================================
