---------------------------- MODULE FuzzingProofs -----------------------------
(*****************************************************************************)
(* Theorems about ResilientRequests: however many tasks share one limiter,  *)
(* and however the rate changes between them, their slots keep the          *)
(* distance of the configured rate; and the metrics and permits agree with  *)
(* where the tasks are, on every path through the retries.                  *)
(*                                                                          *)
(* Theorems about PathFuzzing: the recursion enters exactly the directories *)
(* that were found within the depth, and the URLs of its results are those  *)
(* of all their hits, each once, found at the least depth; for any word     *)
(* list, any depth and whatever the target answers.                         *)
(*****************************************************************************)
EXTENDS ResilientRequests, PathFuzzing, FiniteSetTheorems, SequenceTheorems, TLAPS

\* ResilientRequests: the limiter and the retries.

\* The distance of two slots at the configured rate, the shortest there is.
Gap == Second \div NeverZero(ConfiguredRps)

\* A task that waits for its slot.
Waits(p) == probePc[p] = "slot" /\ timer[p] > 0

SlotInv ==
  /\ slot \in Nat /\ level \in Nat
  /\ timer \in [Probes -> Nat]
  /\ probePc \in [Probes -> {"queued", "reserve", "slot", "sent", "observe", "backoff", "body", "done"}]
  /\ \A p \in Probes : Waits(p) => timer[p] + Gap <= slot
  /\ \A p, q \in Probes :
       Waits(p) /\ Waits(q) /\ p # q => timer[p] + Gap <= timer[q] \/ timer[q] + Gap <= timer[p]

\* A smaller divisor gives no smaller quotient.
LEMMA DivisionFacts ==
  ASSUME NEW s \in Nat, NEW a \in Nat \ {0}, NEW b \in Nat \ {0}, a <= b
  PROVE  s \div b \in Nat /\ s \div b <= s \div a
PROOF
  <1> DEFINE x == s \div a
             y == s \div b
  <1>1. x \in Nat /\ y \in Nat
    OBVIOUS
  <1>2. s < a * (x + 1) /\ b * y <= s
    OBVIOUS
  <1>3. ASSUME y >= x + 1 PROVE FALSE
    <2>1. b * y >= b * (x + 1)
      BY <1>1, <1>3
    <2>2. b * (x + 1) >= a * (x + 1)
      BY <1>1
    <2> QED
      BY <1>1, <1>2, <2>1, <2>2
  <1> QED
    BY <1>1, <1>3

\* Backing off never makes the interval shorter than at the configured rate.
LEMMA IntervalFacts ==
  Gap \in Nat /\ Interval \in Nat /\ Gap <= Interval
PROOF
  <1>1. ConfiguredRps \in Nat /\ Second \in Nat
    BY RequestsAssumption
  <1>2. /\ NeverZero(ConfiguredRps) \in Nat \ {0}
        /\ BackoffRps(level) \in Nat \ {0}
        /\ BackoffRps(level) <= NeverZero(ConfiguredRps)
    BY <1>1 DEF BackoffRps, NeverZero
  <1> QED
    BY <1>1, <1>2, DivisionFacts DEF Gap, Interval

\* A step that hands out no slot and starts no wait keeps the distances.
LEMMA KeepSlots ==
  ASSUME SlotInv, slot' = slot, level' \in Nat,
         timer' \in [Probes -> Nat],
         probePc' \in [Probes -> {"queued", "reserve", "slot", "sent", "observe", "backoff", "body",
                             "done"}],
         \A p \in Probes : Waits(p)' => Waits(p) /\ timer'[p] = timer[p]
  PROVE  SlotInv'
  BY DEF SlotInv, Gap

\* A step of a probe keeps the distances: the slot it takes is the one that was kept
\* free, and the next one is an interval away.
LEMMA ProbeSlots ==
  ASSUME SlotInv, NEW p \in Probes, ProbeStep(p)
  PROVE  SlotInv'
PROOF
  <1>0. RetryDelays \subseteq Nat /\ PauseTicks \in Nat
    BY RequestsAssumption
  <1>1. CASE ReserveSlot(p)
    <2>1. /\ probePc[p] = "reserve" /\ timer' = [timer EXCEPT ![p] = slot]
          /\ probePc' = [probePc EXCEPT ![p] = "slot"]
          /\ slot' = slot + Interval /\ level' = level
      BY <1>1 DEF ReserveSlot, MoveProbe
    <2>2. Gap \in Nat /\ Interval \in Nat /\ Gap <= Interval
      BY IntervalFacts
    <2>3. \A q \in Probes \ {p} : (Waits(q)' <=> Waits(q)) /\ timer'[q] = timer[q]
      BY <2>1 DEF SlotInv, Waits
    <2>4. timer'[p] = slot
      BY <2>1 DEF SlotInv
    <2>5. \A q \in Probes : Waits(q)' => timer'[q] + Gap <= slot'
      BY <2>1, <2>2, <2>3, <2>4 DEF SlotInv
    <2>6. \A q \in Probes \ {p} : Waits(q)' => timer'[q] + Gap <= timer'[p]
      BY <2>3, <2>4 DEF SlotInv
    <2>7. \A q, r \in Probes :
            Waits(q)' /\ Waits(r)' /\ q # r =>
              timer'[q] + Gap <= timer'[r] \/ timer'[r] + Gap <= timer'[q]
      BY <2>3, <2>6 DEF SlotInv
    <2>8. /\ slot' \in Nat /\ level' \in Nat /\ timer' \in [Probes -> Nat]
          /\ probePc' \in [Probes -> {"queued", "reserve", "slot", "sent", "observe", "backoff", "body",
                                 "done"}]
      BY <2>1, <2>2 DEF SlotInv
    <2> QED
      BY <2>5, <2>7, <2>8 DEF SlotInv, Gap
  <1>2. CASE AcquirePermit(p) \/ SendRequest(p) \/ Receive(p) \/ ReadBody(p) \/ Retry(p)
    <2>1. /\ timer' = timer /\ slot' = slot /\ level' = level
          /\ \E s \in {"reserve", "sent", "observe", "done"} : probePc' = [probePc EXCEPT ![p] = s]
      BY <1>2 DEF AcquirePermit, SendRequest, Receive, ReadBody, Retry, MoveProbe, limiter
    <2> QED
      BY <2>1, KeepSlots DEF SlotInv, Waits
  <1>3. CASE Accept(p) \/ RetryLimited(p) \/ RetryTransient(p)
    <2>1. /\ slot' = slot /\ level' \in Nat
          /\ \E s \in {"body", "backoff"} : probePc' = [probePc EXCEPT ![p] = s]
          /\ timer' \in [Probes -> Nat]
          /\ \A q \in Probes \ {p} : timer'[q] = timer[q]
      BY <1>0, <1>3 DEF Accept, RetryLimited, RetryTransient, Observe, MoveProbe, SlotInv, Before,
                        MaxBackoffLevel
    <2> QED
      BY <2>1, KeepSlots DEF SlotInv, Waits
  <1> QED
    BY <1>1, <1>2, <1>3 DEF ProbeStep

\* Time passes for all sleepers and for the limiter alike.
LEMMA TickSlots ==
  ASSUME SlotInv, Tick
  PROVE  SlotInv'
PROOF
  <1>1. Gap \in Nat
    BY IntervalFacts
  <1>2. /\ \A p \in Probes : timer'[p] = Before(timer[p])
        /\ timer' = [p \in Probes |-> Before(timer[p])]
        /\ slot' = Before(slot) /\ probePc' = probePc /\ level' = level
    BY DEF Tick
  <1>3. slot \in Nat /\ \A p \in Probes : timer[p] \in Nat
    BY DEF SlotInv
  <1>4. \A p \in Probes : Waits(p)' => Waits(p) /\ timer'[p] = timer[p] - 1
    BY <1>2, <1>3 DEF Waits, Before
  <1>5. \A p \in Probes : Waits(p)' => timer'[p] + Gap <= slot'
    BY <1>1, <1>2, <1>3, <1>4 DEF SlotInv, Before, Waits
  <1>6. \A p, q \in Probes :
          Waits(p)' /\ Waits(q)' /\ p # q =>
            timer'[p] + Gap <= timer'[q] \/ timer'[q] + Gap <= timer'[p]
    BY <1>1, <1>3, <1>4 DEF SlotInv
  <1>7. slot' \in Nat /\ timer' \in [Probes -> Nat]
    BY <1>2, <1>3 DEF Before
  <1> QED
    BY <1>2, <1>5, <1>6, <1>7 DEF SlotInv, Gap

LEMMA SlotsInvariant == RequestsSpec => []SlotInv
PROOF
  <1>1. RequestsInit => SlotInv
    BY DEF RequestsInit, SlotInv, Waits
  <1>2. SlotInv /\ [RequestsNext]_requestVars => SlotInv'
    <2> SUFFICES ASSUME SlotInv, [RequestsNext]_requestVars PROVE SlotInv'
      OBVIOUS
    <2>1. CASE RequestsNext
      BY <2>1, ProbeSlots, TickSlots DEF RequestsNext
    <2>2. CASE UNCHANGED requestVars
      BY <2>2 DEF requestVars, limiter, SlotInv, Waits, Gap
    <2> QED
      BY <2>1, <2>2
  <1> QED
    BY <1>1, <1>2, PTL DEF RequestsSpec

\* No two requests are sent closer than the configured rate allows, whatever the
\* number of tasks, the order in which they ask, and the rate in between.
THEOREM SlotsAlwaysSpaced == RequestsSpec => []SlotsSpaced
PROOF
  <1>1. SlotInv => SlotsSpaced
    BY DEF SlotInv, SlotsSpaced, Waits, Gap
  <1> QED
    BY <1>1, SlotsInvariant, PTL

-----------------------------------------------------------------------------
(* The accounts.  A task that is about to retry, or that waits to, has a    *)
(* retry left; the words wait until the baseline probe is done.             *)

States == {"queued", "reserve", "slot", "sent", "observe", "backoff", "body", "done"}

TaskTypes ==
  /\ probePc \in [Probes -> States]
  /\ attempt \in [Probes -> 0 .. MaxRetries]
  /\ answer \in [Probes -> Answers \cup {"none"}]

Loop(p) ==
  /\ probePc[p] = "observe" /\ answer[p] = "transient" => attempt[p] < MaxRetries
  /\ probePc[p] = "backoff" => attempt[p] < MaxRetries

TaskInv ==
  /\ TaskTypes
  /\ \A p \in Probes : Loop(p)
  /\ probePc[Baseline] # "queued"
  /\ \A w \in Words : probePc[w] # "queued" => probePc[Baseline] = "done"

\* The tasks of the other probes stay where they are.
LEMMA TaskFrame ==
  ASSUME TaskTypes, NEW p \in Probes, ProbeStep(p)
  PROVE  \A q \in Probes \ {p} :
           probePc'[q] = probePc[q] /\ attempt'[q] = attempt[q] /\ answer'[q] = answer[q]
PROOF
  <1> USE DEF TaskTypes, MoveProbe
  <1>1. CASE AcquirePermit(p) \/ ReserveSlot(p) \/ SendRequest(p) \/ Retry(p) \/ ReadBody(p)
    BY <1>1 DEF AcquirePermit, ReserveSlot, SendRequest, Retry, ReadBody
  <1>2. CASE Receive(p)
    BY <1>2 DEF Receive
  <1>3. CASE Accept(p) \/ RetryLimited(p) \/ RetryTransient(p)
    BY <1>3 DEF Accept, RetryLimited, RetryTransient
  <1> QED
    BY <1>1, <1>2, <1>3 DEF ProbeStep

\* A step keeps the types of its task and the limit of its retries.
LEMMA TaskStep ==
  ASSUME TaskTypes, NEW p \in Probes, Loop(p), ProbeStep(p)
  PROVE  TaskTypes' /\ Loop(p)'
PROOF
  <1>0. MaxRetries \in Nat
    BY RequestsAssumption
  <1> USE <1>0 DEF TaskTypes, Loop, MoveProbe, States
  <1>1. CASE AcquirePermit(p) \/ ReserveSlot(p) \/ SendRequest(p) \/ ReadBody(p)
    BY <1>1 DEF AcquirePermit, ReserveSlot, SendRequest, ReadBody
  <1>2. CASE Receive(p)
    <2>1. PICK a \in Answers :
            IF GivesUp(p, a)
            THEN MoveProbe(p, "sent", "done") /\ Release(p) /\ UNCHANGED answer
            ELSE /\ MoveProbe(p, "sent", "observe")
                 /\ answer' = [answer EXCEPT ![p] = a]
                 /\ UNCHANGED probePermits
      BY <1>2 DEF Receive
    <2>2. attempt' = attempt
      BY <1>2 DEF Receive
    <2> QED
      BY <2>1, <2>2 DEF GivesUp
  <1>3. CASE Accept(p) \/ RetryLimited(p) \/ RetryTransient(p)
    BY <1>3 DEF Accept, RetryLimited, RetryTransient
  <1>4. CASE Retry(p)
    BY <1>4 DEF Retry
  <1> QED
    BY <1>1, <1>2, <1>3, <1>4 DEF ProbeStep

\* A probe leaves the queue only when the baseline probe is done, and never comes back.
LEMMA TaskOrder ==
  ASSUME TaskTypes, NEW p \in Probes, ProbeStep(p)
  PROVE  /\ probePc[p] # "done" /\ probePc'[p] # "queued"
         /\ probePc[p] = "queued" => probePc[Baseline] = "done"
PROOF
  <1> USE DEF TaskTypes, MoveProbe, States
  <1>1. CASE AcquirePermit(p) \/ ReserveSlot(p) \/ SendRequest(p) \/ Retry(p) \/ ReadBody(p)
    BY <1>1 DEF AcquirePermit, ReserveSlot, SendRequest, Retry, ReadBody
  <1>2. CASE Receive(p)
    BY <1>2 DEF Receive
  <1>3. CASE Accept(p) \/ RetryLimited(p) \/ RetryTransient(p)
    BY <1>3 DEF Accept, RetryLimited, RetryTransient
  <1> QED
    BY <1>1, <1>2, <1>3 DEF ProbeStep

LEMMA TaskInvStep ==
  ASSUME TaskInv, NEW p \in Probes, ProbeStep(p)
  PROVE  TaskInv'
PROOF
  <1>1. TaskTypes' /\ Loop(p)'
    BY TaskStep DEF TaskInv
  <1>2. \A q \in Probes \ {p} :
          probePc'[q] = probePc[q] /\ attempt'[q] = attempt[q] /\ answer'[q] = answer[q]
    BY TaskFrame DEF TaskInv
  <1>3. \A q \in Probes : Loop(q)'
    BY <1>1, <1>2 DEF TaskInv, Loop
  <1>4. /\ probePc[p] # "done" /\ probePc'[p] # "queued"
        /\ probePc[p] = "queued" => probePc[Baseline] = "done"
    BY TaskOrder DEF TaskInv
  <1>5. Baseline \in Probes /\ Words \subseteq Probes /\ Baseline \notin Words
    BY RequestsAssumption DEF Probes
  <1>6. probePc'[Baseline] # "queued"
    BY <1>2, <1>4, <1>5 DEF TaskInv
  <1>7. \A w \in Words : probePc'[w] # "queued" => probePc'[Baseline] = "done"
    BY <1>2, <1>4, <1>5 DEF TaskInv
  <1> QED
    BY <1>1, <1>3, <1>6, <1>7 DEF TaskInv

\* One more thing of one probe is one more thing.
LEMMA OneMore ==
  ASSUME NEW f \in [Probes -> Nat], NEW g \in [Probes -> Nat], NEW p \in Probes,
         g[p] = f[p] + 1, \A q \in Probes \ {p} : g[q] = f[q], IsFiniteSet(Numbered(f))
  PROVE  IsFiniteSet(Numbered(g)) /\ Cardinality(Numbered(g)) = Cardinality(Numbered(f)) + 1
PROOF
  <1>1. \A c : c \in Numbered(g) <=> \E q \in Probes : \E i \in 1 .. g[q] : c = <<q, i>>
    BY DEF Numbered
  <1>2. \A c : c \in Numbered(f) <=> \E q \in Probes : \E i \in 1 .. f[q] : c = <<q, i>>
    BY DEF Numbered
  <1>3. ASSUME NEW q \in Probes, NEW i
        PROVE  i \in 1 .. g[q] <=> i \in 1 .. f[q] \/ (q = p /\ i = f[p] + 1)
    <2>1. CASE q = p
      BY <2>1
    <2>2. CASE q # p
      BY <2>2
    <2> QED
      BY <2>1, <2>2
  <1>4. f[p] + 1 \in 1 .. g[p] /\ f[p] + 1 \notin 1 .. f[p]
    OBVIOUS
  <1>5. Numbered(g) = Numbered(f) \cup {<<p, f[p] + 1>>}
    BY <1>1, <1>2, <1>3, <1>4
  <1>6. <<p, f[p] + 1>> \notin Numbered(f)
    BY <1>2, <1>4
  <1> QED
    BY <1>5, <1>6, FS_AddElement

\* The requests and retries of all probes.
AllRequests == [p \in Probes |-> RequestsOf(p)]
AllRetries  == [p \in Probes |-> RetriesOf(p)]

Sending == {p \in Probes : probePc[p] = "sent"}

Counters ==
  /\ total \in Nat /\ retried \in Nat /\ active \in Nat /\ probePermits \in Nat
  /\ IsFiniteSet(Numbered(AllRequests)) /\ total = Cardinality(Numbered(AllRequests))
  /\ IsFiniteSet(Numbered(AllRetries)) /\ retried = Cardinality(Numbered(AllRetries))
  /\ active = Cardinality(Sending)
  /\ probePermits + Cardinality(Holders) = FuzzConcurrency

\* A step counts the request that it sends and the retry that it begins.
LEMMA StepRequests ==
  ASSUME TaskTypes, NEW p \in Probes, ProbeStep(p)
  PROVE  /\ \/ total' = total + 1 /\ RequestsOf(p)' = RequestsOf(p) + 1
            \/ total' = total /\ RequestsOf(p)' = RequestsOf(p)
         /\ \/ retried' = retried + 1 /\ RetriesOf(p)' = RetriesOf(p) + 1
            \/ retried' = retried /\ RetriesOf(p)' = RetriesOf(p)
PROOF
  <1>0. MaxRetries \in Nat
    BY RequestsAssumption
  <1> USE <1>0 DEF TaskTypes, MoveProbe, States, RequestsOf, RetriesOf, metrics
  <1>1. CASE AcquirePermit(p) \/ ReserveSlot(p) \/ ReadBody(p)
    BY <1>1 DEF AcquirePermit, ReserveSlot, ReadBody
  <1>2. CASE SendRequest(p)
    BY <1>2 DEF SendRequest
  <1>3. CASE Receive(p)
    BY <1>3 DEF Receive
  <1>4. CASE Accept(p) \/ RetryLimited(p) \/ RetryTransient(p)
    <2>1. /\ probePc[p] = "observe" /\ attempt' = attempt /\ total' = total
          /\ \/ probePc' = [probePc EXCEPT ![p] = "body"] /\ retried' = retried
             \/ probePc' = [probePc EXCEPT ![p] = "backoff"] /\ retried' = retried + 1
      BY <1>4 DEF Accept, RetryLimited, RetryTransient
    <2> QED
      BY <2>1
  <1>5. CASE Retry(p)
    BY <1>5 DEF Retry
  <1> QED
    BY <1>1, <1>2, <1>3, <1>4, <1>5 DEF ProbeStep

\* The states of a task that holds a permit.
Holding == {"reserve", "slot", "sent", "observe", "backoff", "body"}

\* A step counts a connection while it sends, and takes and gives back one permit.
LEMMA StepConnections ==
  ASSUME TaskTypes, NEW p \in Probes, ProbeStep(p)
  PROVE  /\ \/ probePc[p] # "sent" /\ probePc'[p] = "sent" /\ active' = active + 1
            \/ probePc[p] = "sent" /\ probePc'[p] # "sent" /\ active' = active - 1
            \/ probePc[p] # "sent" /\ probePc'[p] # "sent" /\ active' = active
         /\ \/ /\ probePc[p] = "queued" /\ probePc'[p] \in Holding
               /\ probePermits > 0 /\ probePermits' = probePermits - 1
            \/ probePc[p] \in Holding /\ probePc'[p] \in Holding /\ probePermits' = probePermits
            \/ /\ probePc[p] \in Holding /\ probePc'[p] = "done"
               /\ probePermits' = IF p = Baseline THEN probePermits ELSE probePermits + 1
PROOF
  <1> USE DEF TaskTypes, MoveProbe, States, Holding, Release, metrics
  <1>1. CASE AcquirePermit(p) \/ ReserveSlot(p) \/ ReadBody(p)
    BY <1>1 DEF AcquirePermit, ReserveSlot, ReadBody
  <1>2. CASE SendRequest(p)
    BY <1>2 DEF SendRequest
  <1>3. CASE Receive(p)
    BY <1>3 DEF Receive
  <1>4. CASE Accept(p) \/ RetryLimited(p) \/ RetryTransient(p)
    BY <1>4 DEF Accept, RetryLimited, RetryTransient
  <1>5. CASE Retry(p)
    BY <1>5 DEF Retry
  <1> QED
    BY <1>1, <1>2, <1>3, <1>4, <1>5 DEF ProbeStep

LEMMA CountersStep ==
  ASSUME TaskInv, Counters, NEW p \in Probes, ProbeStep(p)
  PROVE  Counters'
PROOF
  <1>0. TaskTypes /\ TaskTypes' /\ MaxRetries \in Nat
    BY TaskStep, RequestsAssumption DEF TaskInv
  <1>1. \A q \in Probes \ {p} : probePc'[q] = probePc[q] /\ attempt'[q] = attempt[q]
    BY <1>0, TaskFrame
  <1>2. IsFiniteSet(Words) /\ IsFiniteSet(Probes) /\ Baseline \notin Words /\ Words \subseteq Probes
    BY RequestsAssumption, FS_AddElement DEF Probes
  <1>3. /\ AllRequests \in [Probes -> Nat] /\ AllRequests' \in [Probes -> Nat]
        /\ AllRetries \in [Probes -> Nat] /\ AllRetries' \in [Probes -> Nat]
    BY <1>0 DEF AllRequests, AllRetries, RequestsOf, RetriesOf, TaskTypes
  <1>4. \A q \in Probes \ {p} :
          AllRequests'[q] = AllRequests[q] /\ AllRetries'[q] = AllRetries[q]
    BY <1>1 DEF AllRequests, AllRetries, RequestsOf, RetriesOf
  <1>5. /\ AllRequests[p] = RequestsOf(p) /\ AllRequests'[p] = RequestsOf(p)'
        /\ AllRetries[p] = RetriesOf(p) /\ AllRetries'[p] = RetriesOf(p)'
    BY DEF AllRequests, AllRetries
  <1>6. /\ total' \in Nat /\ IsFiniteSet(Numbered(AllRequests'))
        /\ total' = Cardinality(Numbered(AllRequests'))
    <2>1. CASE total' = total + 1 /\ RequestsOf(p)' = RequestsOf(p) + 1
      BY <1>3, <1>4, <1>5, <2>1, OneMore DEF Counters
    <2>2. CASE total' = total /\ RequestsOf(p)' = RequestsOf(p)
      <3>1. AllRequests' = AllRequests
        BY <1>3, <1>4, <1>5, <2>2
      <3> QED
        BY <2>2, <3>1 DEF Counters
    <2> QED
      BY <1>0, <2>1, <2>2, StepRequests
  <1>7. /\ retried' \in Nat /\ IsFiniteSet(Numbered(AllRetries'))
        /\ retried' = Cardinality(Numbered(AllRetries'))
    <2>1. CASE retried' = retried + 1 /\ RetriesOf(p)' = RetriesOf(p) + 1
      BY <1>3, <1>4, <1>5, <2>1, OneMore DEF Counters
    <2>2. CASE retried' = retried /\ RetriesOf(p)' = RetriesOf(p)
      <3>1. AllRetries' = AllRetries
        BY <1>3, <1>4, <1>5, <2>2
      <3> QED
        BY <2>2, <3>1 DEF Counters
    <2> QED
      BY <1>0, <2>1, <2>2, StepRequests
  <1>8. active' \in Nat /\ active' = Cardinality(Sending')
    <2>1. IsFiniteSet(Sending) /\ Cardinality(Sending) = active /\ active \in Nat
      BY <1>2, FS_Subset DEF Sending, Counters
    <2>2. CASE probePc[p] # "sent" /\ probePc'[p] = "sent" /\ active' = active + 1
      <3>1. Sending' = Sending \cup {p} /\ p \notin Sending
        BY <1>1, <2>2 DEF Sending
      <3> QED
        BY <2>1, <2>2, <3>1, FS_AddElement
    <2>3. CASE probePc[p] = "sent" /\ probePc'[p] # "sent" /\ active' = active - 1
      <3>1. Sending' = Sending \ {p} /\ p \in Sending
        BY <1>1, <2>3 DEF Sending
      <3>2. IsFiniteSet(Sending') /\ Cardinality(Sending') = active - 1
        BY <2>1, <3>1, FS_RemoveElement
      <3> QED
        BY <2>3, <3>2, FS_CardinalityType
    <2>4. CASE probePc[p] # "sent" /\ probePc'[p] # "sent" /\ active' = active
      <3>1. Sending' = Sending
        BY <1>1, <2>4 DEF Sending
      <3> QED
        BY <2>1, <2>4, <3>1
    <2> QED
      BY <1>0, <2>2, <2>3, <2>4, StepConnections
  <1>9. probePermits' \in Nat /\ probePermits' + Cardinality(Holders') = FuzzConcurrency
    <2>0. Holders = {q \in Words : probePc[q] \in Holding} /\ FuzzConcurrency \in Nat
      BY RequestsAssumption DEF Holders, Holding
    <2>1. /\ IsFiniteSet(Holders) /\ Cardinality(Holders) \in Nat
          /\ probePermits \in Nat /\ probePermits + Cardinality(Holders) = FuzzConcurrency
      BY <1>2, FS_Subset, FS_CardinalityType DEF Holders, Counters
    <2>2. Holders' = {q \in Words : probePc'[q] \in Holding}
      BY DEF Holders, Holding
    <2>3. CASE p = Baseline
      <3>1. probePermits' = probePermits
        BY <1>0, <2>3, StepConnections DEF TaskInv
      <3>2. Holders' = Holders
        BY <1>1, <1>2, <2>0, <2>2, <2>3
      <3> QED
        BY <2>1, <3>1, <3>2
    <2>4. CASE p # Baseline
      <3>0. p \in Words
        BY <2>4 DEF Probes
      <3>1. CASE /\ probePc[p] = "queued" /\ probePc'[p] \in Holding
                 /\ probePermits > 0 /\ probePermits' = probePermits - 1
        <4>1. Holders' = Holders \cup {p} /\ p \notin Holders
          BY <1>1, <1>2, <2>0, <2>2, <3>0, <3>1 DEF Holding
        <4>2. Cardinality(Holders') = Cardinality(Holders) + 1
          BY <2>1, <4>1, FS_AddElement
        <4> QED
          BY <2>1, <3>1, <4>2
      <3>2. CASE /\ probePc[p] \in Holding /\ probePc'[p] \in Holding
                 /\ probePermits' = probePermits
        <4>1. Holders' = Holders
          BY <1>1, <1>2, <2>0, <2>2, <3>0, <3>2
        <4> QED
          BY <2>1, <3>2, <4>1
      <3>3. CASE /\ probePc[p] \in Holding /\ probePc'[p] = "done"
                 /\ probePermits' = IF p = Baseline THEN probePermits ELSE probePermits + 1
        <4>1. Holders' = Holders \ {p} /\ p \in Holders
          BY <1>1, <1>2, <2>0, <2>2, <3>0, <3>3 DEF Holding
        <4>2. Cardinality(Holders') = Cardinality(Holders) - 1
          BY <2>1, <4>1, FS_RemoveElement
        <4> QED
          BY <2>1, <2>4, <3>3, <4>2
      <3> QED
        BY <1>0, <3>1, <3>2, <3>3, StepConnections
    <2> QED
      BY <2>3, <2>4
  <1> QED
    BY <1>6, <1>7, <1>8, <1>9 DEF Counters

\* The accounts are kept from the start.
LEMMA AccountsInvariant == RequestsSpec => [](TaskInv /\ Counters)
PROOF
  <1>1. RequestsInit => TaskInv /\ Counters
    <2> SUFFICES ASSUME RequestsInit PROVE TaskInv /\ Counters
      OBVIOUS
    <2>1. TaskInv
      BY RequestsAssumption DEF RequestsInit, TaskInv, TaskTypes, Loop, States, Probes
    <2>2. \A p \in Probes : RequestsOf(p) = 0 /\ RetriesOf(p) = 0
      BY DEF RequestsInit, RequestsOf, RetriesOf
    <2>3. Numbered(AllRequests) = {} /\ Numbered(AllRetries) = {}
      BY <2>2 DEF Numbered, AllRequests, AllRetries
    <2>4. Sending = {} /\ Holders = {}
      BY RequestsAssumption DEF RequestsInit, Sending, Holders, Probes
    <2>5. Counters
      BY <2>3, <2>4, FS_EmptySet, RequestsAssumption DEF RequestsInit, Counters
    <2> QED
      BY <2>1, <2>5
  <1>2. TaskInv /\ Counters /\ [RequestsNext]_requestVars => TaskInv' /\ Counters'
    <2> SUFFICES ASSUME TaskInv, Counters, [RequestsNext]_requestVars
                 PROVE  TaskInv' /\ Counters'
      OBVIOUS
    <2>1. ASSUME NEW p \in Probes, ProbeStep(p) PROVE TaskInv' /\ Counters'
      BY <2>1, TaskInvStep, CountersStep
    <2>2. CASE Tick \/ UNCHANGED requestVars
      <3>1. /\ metrics' = metrics /\ probePermits' = probePermits /\ probePc' = probePc
            /\ attempt' = attempt /\ answer' = answer
        BY <2>2 DEF Tick, requestVars
      <3>2. TaskInv'
        BY <3>1 DEF TaskInv, TaskTypes, Loop
      <3>3. AllRequests' = AllRequests /\ AllRetries' = AllRetries
        BY <3>1 DEF AllRequests, AllRetries, RequestsOf, RetriesOf
      <3>4. Sending' = Sending /\ Holders' = Holders
        BY <3>1 DEF Sending, Holders
      <3>5. Counters'
        BY <3>1, <3>3, <3>4 DEF Counters, metrics
      <3> QED
        BY <3>2, <3>5
    <2> QED
      BY <2>1, <2>2 DEF RequestsNext
  <1> QED
    BY <1>1, <1>2, PTL DEF RequestsSpec

\* On every path through retries, refusals and errors, the metrics count what was
\* sent, and each permit is given back once.
THEOREM AccountsAlwaysKept == RequestsSpec => []Accounting
PROOF
  <1>1. TaskInv /\ Counters => Accounting
    BY DEF Counters, Accounting, AllRequests, AllRetries, Sending
  <1> QED
    BY <1>1, AccountsInvariant, PTL

-----------------------------------------------------------------------------
(* How far away the next slot can be.  From any time x, every task that has *)
(* a later slot pushes the next one by a slow interval at most.             *)

Later(x) == {p \in Probes : probePc[p] = "slot" /\ timer[p] > x}

QueueInv == \A x \in Nat : slot <= x + Second * (1 + Cardinality(Later(x)))

\* No interval is longer than a second, whatever the rate.
LEMMA SlowInterval == Interval \in Nat /\ Interval <= Second
PROOF
  <1>1. ConfiguredRps \in Nat /\ Second \in Nat
    BY RequestsAssumption
  <1>2. BackoffRps(level) \in Nat \ {0}
    BY <1>1 DEF BackoffRps, NeverZero
  <1>3. Second \div 1 = Second
    BY <1>1
  <1> QED
    BY <1>1, <1>2, <1>3, DivisionFacts DEF Interval

\* Sets of probes are finite.
LEMMA LaterFinite ==
  ASSUME NEW S \in SUBSET Probes
  PROVE  IsFiniteSet(S) /\ Cardinality(S) \in Nat
PROOF
  <1>1. IsFiniteSet(Probes)
    BY RequestsAssumption, FS_AddElement DEF Probes
  <1> QED
    BY <1>1, FS_Subset, FS_CardinalityType

LEMMA QueueStep ==
  ASSUME SlotInv, QueueInv, NEW p \in Probes, ProbeStep(p)
  PROVE  QueueInv'
PROOF
  <1>0. Second \in Nat /\ RetryDelays \subseteq Nat /\ PauseTicks \in Nat
    BY RequestsAssumption
  <1>1. SUFFICES ASSUME NEW x \in Nat
                 PROVE  slot' <= x + Second * (1 + Cardinality(Later(x)'))
    BY DEF QueueInv
  <1>2. /\ Later(x) \in SUBSET Probes /\ Later(x)' \in SUBSET Probes
        /\ slot \in Nat /\ slot <= x + Second * (1 + Cardinality(Later(x)))
    BY DEF Later, QueueInv, SlotInv
  <1>3. Cardinality(Later(x)) \in Nat /\ Cardinality(Later(x)') \in Nat /\ IsFiniteSet(Later(x))
    BY <1>2, LaterFinite
  <1>4. CASE ReserveSlot(p)
    <2>1. /\ probePc[p] = "reserve" /\ timer' = [timer EXCEPT ![p] = slot]
          /\ probePc' = [probePc EXCEPT ![p] = "slot"] /\ slot' = slot + Interval
      BY <1>4 DEF ReserveSlot, MoveProbe
    <2>2. CASE slot <= x
      <3>1. Second * (1 + Cardinality(Later(x)')) >= Second
        BY <1>0, <1>3
      <3> QED
        BY <1>0, <1>2, <1>3, <2>1, <2>2, <3>1, SlowInterval
    <2>3. CASE slot > x
      <3>1. Later(x)' = Later(x) \cup {p} /\ p \notin Later(x)
        BY <2>1, <2>3 DEF Later, SlotInv
      <3>2. Cardinality(Later(x)') = Cardinality(Later(x)) + 1
        BY <1>3, <3>1, FS_AddElement
      <3>3. Second * (1 + (Cardinality(Later(x)) + 1))
              = Second * (1 + Cardinality(Later(x))) + Second
        BY <1>0, <1>3
      <3> QED
        BY <1>0, <1>2, <1>3, <2>1, <3>2, <3>3, SlowInterval
    <2> QED
      BY <1>2, <2>2, <2>3
  <1>5. CASE AcquirePermit(p) \/ SendRequest(p) \/ Receive(p) \/ ReadBody(p) \/ Retry(p)
    <2>1. /\ timer' = timer /\ slot' = slot
          /\ probePc[p] # "slot" \/ timer[p] = 0
          /\ \E s \in {"reserve", "sent", "observe", "done"} : probePc' = [probePc EXCEPT ![p] = s]
      BY <1>5 DEF AcquirePermit, SendRequest, Receive, ReadBody, Retry, MoveProbe, limiter
    <2>2. Later(x)' = Later(x)
      BY <2>1 DEF Later, SlotInv
    <2> QED
      BY <1>2, <2>1, <2>2
  <1>6. CASE Accept(p) \/ RetryLimited(p) \/ RetryTransient(p)
    <2>1. /\ slot' = slot /\ probePc[p] = "observe"
          /\ \E s \in {"body", "backoff"} : probePc' = [probePc EXCEPT ![p] = s]
          /\ \A q \in Probes \ {p} : timer'[q] = timer[q]
      BY <1>0, <1>6 DEF Accept, RetryLimited, RetryTransient, Observe, MoveProbe, SlotInv
    <2>2. Later(x)' = Later(x)
      BY <2>1 DEF Later, SlotInv
    <2> QED
      BY <1>2, <2>1, <2>2
  <1> QED
    BY <1>4, <1>5, <1>6 DEF ProbeStep

LEMMA QueueTick ==
  ASSUME SlotInv, QueueInv, Tick
  PROVE  QueueInv'
PROOF
  <1>0. Second \in Nat
    BY RequestsAssumption
  <1>1. SUFFICES ASSUME NEW x \in Nat
                 PROVE  slot' <= x + Second * (1 + Cardinality(Later(x)'))
    BY DEF QueueInv
  <1>2. slot' = Before(slot) /\ probePc' = probePc /\ slot \in Nat
        /\ \A p \in Probes : timer'[p] = Before(timer[p]) /\ timer[p] \in Nat
    BY DEF Tick, SlotInv
  <1>3. Later(x)' = Later(x + 1)
    BY <1>2 DEF Later, Before
  <1>4. Cardinality(Later(x + 1)) \in Nat
    BY LaterFinite DEF Later
  <1>5. slot <= x + 1 + Second * (1 + Cardinality(Later(x + 1)))
    BY DEF QueueInv
  <1>6. Second * (1 + Cardinality(Later(x + 1))) \in Nat
    BY <1>0, <1>4
  <1> QED
    BY <1>2, <1>3, <1>5, <1>6 DEF Before

\* Only a task that holds a permit, or the baseline probe alone, waits for a slot.
LEMMA FewWaiters ==
  ASSUME TaskInv, Counters
  PROVE  Cardinality(Later(0)) <= NeverZero(FuzzConcurrency)
PROOF
  <1>1. Holders \in SUBSET Probes /\ Later(0) \in SUBSET Probes
    BY DEF Holders, Later, Probes
  <1>2. /\ IsFiniteSet(Holders) /\ Cardinality(Holders) \in Nat /\ Cardinality(Later(0)) \in Nat
        /\ FuzzConcurrency \in Nat
    BY <1>1, LaterFinite, RequestsAssumption
  <1>3. Cardinality(Holders) <= NeverZero(FuzzConcurrency) /\ NeverZero(FuzzConcurrency) >= 1
    BY <1>2 DEF Counters, NeverZero
  <1>4. CASE probePc[Baseline] = "done"
    <2>1. Later(0) \subseteq Holders
      BY <1>4 DEF Later, Holders, Probes
    <2>2. Cardinality(Later(0)) <= Cardinality(Holders)
      BY <1>2, <2>1, FS_Subset
    <2>3. NeverZero(FuzzConcurrency) \in Nat
      BY <1>2 DEF NeverZero
    <2> QED
      BY <1>2, <1>3, <2>2, <2>3
  <1>5. CASE probePc[Baseline] # "done"
    <2>1. Later(0) \subseteq {Baseline}
      BY <1>5 DEF Later, Probes, TaskInv
    <2>2. IsFiniteSet({Baseline}) /\ Cardinality({Baseline}) = 1
      BY FS_Singleton
    <2>3. Later(0) \in SUBSET {Baseline}
      BY <2>1
    <2>4. Cardinality(Later(0)) <= Cardinality({Baseline})
      BY <2>2, <2>3, FS_Subset
    <2>5. NeverZero(FuzzConcurrency) \in Nat
      BY <1>2 DEF NeverZero
    <2> QED
      BY <1>2, <1>3, <2>2, <2>4, <2>5
  <1> QED
    BY <1>4, <1>5

\* The levels and sleeps that the limiter keeps.
LimiterTypes ==
  /\ level \in 0 .. MaxBackoffLevel /\ measured \in BOOLEAN

LEMMA LimiterStep == LimiterTypes /\ [RequestsNext]_requestVars => LimiterTypes'
PROOF
  <1> SUFFICES ASSUME LimiterTypes, [RequestsNext]_requestVars PROVE LimiterTypes'
    OBVIOUS
  <1>1. ASSUME NEW p \in Probes, NEW t, Observe(p, t) PROVE LimiterTypes'
    BY <1>1 DEF Observe, LimiterTypes, MaxBackoffLevel, Before
  <1>2. ASSUME NEW p \in Probes, ProbeStep(p) PROVE LimiterTypes'
    <2>1. CASE Accept(p) \/ RetryLimited(p) \/ RetryTransient(p)
      BY <1>1, <2>1 DEF Accept, RetryLimited, RetryTransient
    <2>2. CASE ~(Accept(p) \/ RetryLimited(p) \/ RetryTransient(p))
      <3>1. AcquirePermit(p) \/ ReserveSlot(p) \/ SendRequest(p) \/ Receive(p) \/ Retry(p) \/ ReadBody(p)
        BY <1>2, <2>2 DEF ProbeStep
      <3>2. level' = level /\ measured' = measured
        BY <3>1 DEF AcquirePermit, ReserveSlot, SendRequest, Receive, Retry, ReadBody, limiter
      <3> QED
        BY <3>2 DEF LimiterTypes
    <2> QED
      BY <2>1, <2>2
  <1>3. CASE Tick \/ UNCHANGED requestVars
    BY <1>3 DEF Tick, requestVars, limiter, LimiterTypes
  <1> QED
    BY <1>2, <1>3 DEF RequestsNext

\* Type correctness, and the queue of the limiter is never longer than one slow
\* interval for each task that may run.
THEOREM RequestsTypeCorrect == RequestsSpec => []RequestsTypeOK
PROOF
  <1>1. RequestsInit => QueueInv /\ LimiterTypes
    <2> SUFFICES ASSUME RequestsInit PROVE QueueInv /\ LimiterTypes
      OBVIOUS
    <2>1. QueueInv
      <3> SUFFICES ASSUME NEW x \in Nat PROVE slot <= x + Second * (1 + Cardinality(Later(x)))
        BY DEF QueueInv
      <3>1. Second \in Nat /\ Cardinality(Later(x)) \in Nat
        BY LaterFinite, RequestsAssumption DEF Later
      <3>2. Second * (1 + Cardinality(Later(x))) \in Nat
        BY <3>1
      <3> QED
        BY <3>2 DEF RequestsInit
    <2>2. level \in 0 .. MaxBackoffLevel
      BY DEF RequestsInit, MaxBackoffLevel
    <2>3. measured \in BOOLEAN
      BY DEF RequestsInit
    <2> QED
      BY <2>1, <2>2, <2>3 DEF LimiterTypes
  <1>2. SlotInv /\ QueueInv /\ [RequestsNext]_requestVars => QueueInv'
    <2> SUFFICES ASSUME SlotInv, QueueInv, [RequestsNext]_requestVars PROVE QueueInv'
      OBVIOUS
    <2>1. CASE RequestsNext
      BY <2>1, QueueStep, QueueTick DEF RequestsNext
    <2>2. CASE UNCHANGED requestVars
      BY <2>2 DEF requestVars, limiter, QueueInv, Later
    <2> QED
      BY <2>1, <2>2
  <1>3. SlotInv /\ QueueInv /\ LimiterTypes /\ TaskInv /\ Counters => RequestsTypeOK
    <2> SUFFICES ASSUME SlotInv, QueueInv, LimiterTypes, TaskInv, Counters PROVE RequestsTypeOK
      OBVIOUS
    <2>1. slot \in Nat /\ timer \in [Probes -> Nat] /\ Second \in Nat /\ FuzzConcurrency \in Nat
      BY RequestsAssumption DEF SlotInv
    <2>2. Cardinality(Later(0)) \in Nat /\ Cardinality(Holders) \in Nat
      BY LaterFinite DEF Later, Holders, Probes
    <2>3. NeverZero(FuzzConcurrency) \in Nat /\ Cardinality(Later(0)) <= NeverZero(FuzzConcurrency)
      BY <2>1, FewWaiters DEF NeverZero
    <2>4. Second * (1 + Cardinality(Later(0))) <= Second * (NeverZero(FuzzConcurrency) + 1)
      BY <2>1, <2>2, <2>3
    <2>5. slot <= Second * (1 + Cardinality(Later(0)))
      <3>1. slot <= 0 + Second * (1 + Cardinality(Later(0)))
        BY DEF QueueInv
      <3>2. Second * (1 + Cardinality(Later(0))) \in Nat
        BY <2>1, <2>2
      <3> QED
        BY <3>1, <3>2
    <2>6. slot \in 0 .. Second * (NeverZero(FuzzConcurrency) + 1)
      <3>1. /\ Second * (1 + Cardinality(Later(0))) \in Nat
            /\ Second * (NeverZero(FuzzConcurrency) + 1) \in Nat
        BY <2>1, <2>2, <2>3
      <3> QED
        BY <2>1, <2>4, <2>5, <3>1
    <2>7. probePermits \in 0 .. FuzzConcurrency
      BY <2>1, <2>2 DEF Counters
    <2> QED
      BY <2>1, <2>6, <2>7 DEF LimiterTypes, TaskInv, TaskTypes, States, RequestsTypeOK
  <1> QED
    BY <1>1, <1>2, <1>3, LimiterStep, SlotsInvariant, AccountsInvariant, PTL DEF RequestsSpec

-----------------------------------------------------------------------------

\* PathFuzzing: the recursion.

IsResult(r) == \E i \in 1 .. Len(results) : results[i] = r

Waiting(url) == \E i \in 1 .. Len(bases) : bases[i].url = url

\* The queue is in the order of the depths, which differ by one at most; what was
\* fuzzed and found is not deeper than the directory that is fuzzed now.
DepthOrder ==
  /\ \A i, j \in 1 .. Len(bases) : i < j => bases[i].depth <= bases[j].depth
  /\ \A i \in 1 .. Len(bases) : base.depth <= bases[i].depth /\ bases[i].depth <= base.depth + 1
  /\ \A i \in 1 .. Len(results) : results[i].depth <= base.depth
  /\ next # 0 => base.url \in visited /\ world[base.url].depth = base.depth

\* Every result has a URL of its own, and is a hit of a directory that was fuzzed.
ResultsSound ==
  /\ \A i, j \in 1 .. Len(results) : results[i].url = results[j].url => i = j
  /\ \A i \in 1 .. Len(results) : \E b \in visited : results[i] \in Hits(b)

\* The URL of a hit was found, and not at a greater depth.
Found(hit) == \E i \in 1 .. Len(results) : results[i].url = hit.url /\ results[i].depth <= hit.depth

\* Every hit was found, but for the words that are left of the current directory.
ResultsComplete ==
  \A b \in visited : \A k \in 1 .. Len(Wordlist) : Kept(b, k) =>
    Found(HitAt(b, k)) \/ (next # 0 /\ b = base.url /\ next <= k)

\* The directories that were fuzzed or wait are the start and the results that can be
\* entered.
Directory(url) ==
  url = StartUrl \/ \E i \in 1 .. Len(results) : Enterable(results[i]) /\ results[i].url = url

Directories ==
  /\ \A b \in visited : Directory(b)
  /\ \A i \in 1 .. Len(bases) : Directory(bases[i].url)
  /\ \A url : Directory(url) => url \in visited \/ Waiting(url)

FuzzInv ==
  FuzzTypeOK /\ DepthOrder /\ ResultsSound /\ ResultsComplete /\ Directories

-----------------------------------------------------------------------------
(* Facts about the constants and the operators.                             *)

BaseRecords == [url : FuzzUrls, depth : 0 .. maxDepth]
ResultRecords == [url : FuzzUrls, status : InterestingStatuses, depth : 0 .. maxDepth]
WorldRecords == [round : Rounds, depth : 0 .. maxDepth]

\* The word list, and the URLs that its words lead to.
LEMMA WordlistFacts ==
  /\ Len(Wordlist) \in Nat /\ DOMAIN Wordlist = 1 .. Len(Wordlist)
  /\ \A url \in FuzzUrls : \A k \in 1 .. Len(Wordlist) : Below(url, Wordlist[k]) \in FuzzUrls
PROOF
  <1> DEFINE WordRecords == [rooted : BOOLEAN, segments : Seq(Segments), slash : BOOLEAN]
  <1>1. Wordlist \in Seq(WordRecords)
    BY FuzzAssumption
  <1>2. Len(Wordlist) \in Nat /\ DOMAIN Wordlist = 1 .. Len(Wordlist)
    BY <1>1, LenProperties
  <1>3. ASSUME NEW url \in FuzzUrls, NEW k \in 1 .. Len(Wordlist)
        PROVE  Below(url, Wordlist[k]) \in FuzzUrls
    <2>1. Wordlist[k] \in WordRecords
      BY <1>1, <1>2, <1>3, ElementOfSeq
    <2>2. url.segments \in Seq(Segments) /\ Wordlist[k].segments \in Seq(Segments)
          /\ Wordlist[k].slash \in BOOLEAN
      BY <2>1 DEF FuzzUrls
    <2>3. url.segments \o Wordlist[k].segments \in Seq(Segments)
      BY <2>2, ConcatProperties
    <2> QED
      BY <2>2, <2>3 DEF Below, FuzzUrls
  <1> QED
    BY <1>2, <1>3

\* What it means to be a hit.
LEMMA HitFacts ==
  /\ \A b, r : r \in Hits(b) <=> \E k \in 1 .. Len(Wordlist) : Kept(b, k) /\ r = HitAt(b, k)
  /\ \A b, k : Kept(b, k) => HitAt(b, k).status \in InterestingStatuses
PROOF
  BY WordlistFacts DEF Hits, HitAt, Kept, IsHit

\* An answer that is the baseline is not a hit.
LEMMA BaselineIsNoHit ==
  ASSUME NEW response \in Outcomes
  PROVE  ~IsHit(response, response)
PROOF
  <1>1. CASE response = NoAnswer
    BY <1>1 DEF IsHit
  <1>2. CASE response # NoAnswer
    <2>1. response.length \in Nat
      BY <1>2 DEF Outcomes
    <2>2. Difference(response.length, response.length) = 0
      BY <2>1 DEF Difference
    <2>3. IsSimilar(response.length, response.length)
      BY <2>2 DEF IsSimilar
    <2> QED
      BY <1>2, <2>3 DEF IsHit
  <1> QED
    BY <1>1, <1>2

\* The types of the variables, with the records named.
LEMMA FuzzTypes ==
  ASSUME FuzzInv
  PROVE  /\ maxDepth \in Nat /\ bases \in Seq(BaseRecords) /\ base \in BaseRecords
         /\ results \in Seq(ResultRecords) /\ world \in [visited -> WorldRecords]
         /\ Len(bases) \in Nat /\ DOMAIN bases = 1 .. Len(bases)
         /\ Len(results) \in Nat /\ DOMAIN results = 1 .. Len(results)
         /\ \A i \in 1 .. Len(bases) : bases[i] \in BaseRecords /\ bases[i].depth \in Nat
         /\ \A i \in 1 .. Len(results) : results[i] \in ResultRecords /\ results[i].depth \in Nat
         /\ \A b \in visited : world[b].depth \in Nat
         /\ base.depth \in Nat
PROOF
  <1>1. /\ maxDepth \in Nat /\ bases \in Seq(BaseRecords) /\ base \in BaseRecords
        /\ results \in Seq(ResultRecords) /\ world \in [visited -> WorldRecords]
    BY FuzzAssumption DEF FuzzInv, FuzzTypeOK, BaseRecords, ResultRecords, WorldRecords
  <1>2. /\ Len(bases) \in Nat /\ DOMAIN bases = 1 .. Len(bases)
        /\ Len(results) \in Nat /\ DOMAIN results = 1 .. Len(results)
    BY <1>1, LenProperties
  <1>3. /\ \A i \in 1 .. Len(bases) : bases[i] \in BaseRecords
        /\ \A i \in 1 .. Len(results) : results[i] \in ResultRecords
        /\ \A b \in visited : world[b] \in WorldRecords
    BY <1>1, <1>2, ElementOfSeq
  <1>4. /\ \A r \in BaseRecords : r.depth \in Nat
        /\ \A r \in ResultRecords : r.depth \in Nat
        /\ \A r \in WorldRecords : r.depth \in Nat
    BY <1>1 DEF BaseRecords, ResultRecords, WorldRecords
  <1> QED
    BY <1>1, <1>2, <1>3, <1>4

\* The queue without its first directory.
LEMMA QueueTail ==
  ASSUME FuzzInv, bases # <<>>
  PROVE  /\ Head(bases) \in BaseRecords /\ Head(bases) = bases[1] /\ 1 \in 1 .. Len(bases)
         /\ Tail(bases) \in Seq(BaseRecords)
         /\ Len(Tail(bases)) = Len(bases) - 1
         /\ \A i \in 1 .. Len(Tail(bases)) :
              i + 1 \in 1 .. Len(bases) /\ Tail(bases)[i] = bases[i + 1]
         /\ \A url : Waiting(url) /\ url # Head(bases).url =>
              \E i \in 1 .. Len(Tail(bases)) : Tail(bases)[i].url = url
PROOF
  <1>1. bases \in Seq(BaseRecords) /\ Len(bases) \in Nat \ {0}
    BY FuzzTypes, EmptySeq
  <1>2. /\ Head(bases) = bases[1] /\ 1 \in 1 .. Len(bases) /\ Tail(bases) \in Seq(BaseRecords)
        /\ Len(Tail(bases)) = Len(bases) - 1
        /\ \A i \in 1 .. Len(Tail(bases)) : Tail(bases)[i] = bases[i + 1]
    BY <1>1, HeadTailProperties
  <1>3. Head(bases) \in BaseRecords
    BY <1>2, FuzzTypes
  <1>4. \A i \in 1 .. Len(Tail(bases)) : i + 1 \in 1 .. Len(bases)
    BY <1>1, <1>2
  <1>5. ASSUME NEW url, Waiting(url), url # Head(bases).url
        PROVE  \E i \in 1 .. Len(Tail(bases)) : Tail(bases)[i].url = url
    <2>1. PICK n \in 1 .. Len(bases) : bases[n].url = url
      BY <1>5 DEF Waiting
    <2>2. n # 1
      BY <1>2, <1>5, <2>1
    <2>3. n - 1 \in 1 .. Len(Tail(bases)) /\ (n - 1) + 1 = n
      BY <1>1, <1>2, <2>2
    <2>4. Tail(bases)[n - 1] = bases[n]
      BY <1>2, <2>3
    <2> QED
      BY <2>1, <2>3, <2>4
  <1> QED
    BY <1>1, <1>2, <1>3, <1>4, <1>5

-----------------------------------------------------------------------------
(* The steps.                                                               *)

LEMMA OpenKeeps ==
  ASSUME FuzzInv, NEW round \in Rounds, OpenDirectory(round)
  PROVE  FuzzInv'
PROOF
  <1> DEFINE head == Head(bases)
             entered == [round |-> round, depth |-> head.depth]
  <1>1. /\ next = 0 /\ bases # <<>> /\ head.url \notin visited
        /\ base' = head /\ bases' = Tail(bases) /\ next' = 1
        /\ visited' = visited \cup {head.url}
        /\ world' = [b \in visited' |-> IF b = head.url THEN entered ELSE world[b]]
        /\ maxDepth' = maxDepth /\ results' = results /\ params' = params
    BY DEF OpenDirectory
  <1>2. /\ head \in BaseRecords /\ head = bases[1] /\ 1 \in 1 .. Len(bases)
        /\ bases' \in Seq(BaseRecords) /\ Len(bases') = Len(bases) - 1
        /\ \A i \in 1 .. Len(bases') : i + 1 \in 1 .. Len(bases) /\ bases'[i] = bases[i + 1]
        /\ \A url : Waiting(url) /\ url # head.url => Waiting(url)'
    BY <1>1, QueueTail DEF Waiting
  <1> HIDE DEF head
  <1>3. head.url \in FuzzUrls /\ head.depth \in 0 .. maxDepth /\ entered \in WorldRecords
    BY <1>2 DEF BaseRecords, WorldRecords
  <1>4. /\ \A b \in visited : world'[b] = world[b] /\ b # head.url
        /\ world'[head.url] = entered /\ entered.depth = head.depth
    BY <1>1
  <1> HIDE DEF entered
  <1>5. FuzzTypeOK'
    <2>1. world' \in [visited' -> WorldRecords]
      BY <1>1, <1>3, FuzzTypes
    <2>2. next' \in 0 .. Len(Wordlist) + 1
      BY <1>1, WordlistFacts
    <2>3. visited' \subseteq FuzzUrls
      BY <1>1, <1>3 DEF FuzzInv, FuzzTypeOK
    <2> QED
      BY <1>1, <1>2, <2>1, <2>2, <2>3 DEF FuzzInv, FuzzTypeOK, BaseRecords, WorldRecords
  <1>6. DepthOrder'
    <2>1. head.depth \in Nat /\ base.depth \in Nat /\ base.depth <= head.depth
          /\ head.depth <= base.depth + 1
      BY <1>2, FuzzTypes DEF FuzzInv, DepthOrder
    <2>2. \A i \in 1 .. Len(bases') : bases'[i].depth \in Nat /\ head.depth <= bases'[i].depth
          /\ bases'[i].depth <= head.depth + 1
      <3> TAKE i \in 1 .. Len(bases')
      <3>1. i + 1 \in 1 .. Len(bases) /\ bases'[i] = bases[i + 1] /\ 1 < i + 1
        BY <1>2, FuzzTypes
      <3>2. bases[1].depth <= bases[i + 1].depth /\ bases[i + 1].depth <= base.depth + 1
            /\ bases[i + 1].depth \in Nat
        BY <1>2, <3>1, FuzzTypes DEF FuzzInv, DepthOrder
      <3> QED
        BY <1>2, <2>1, <3>1, <3>2
    <2>3. \A i, j \in 1 .. Len(bases') : i < j => bases'[i].depth <= bases'[j].depth
      <3> TAKE i, j \in 1 .. Len(bases')
      <3>1. i + 1 \in 1 .. Len(bases) /\ bases'[i] = bases[i + 1]
            /\ j + 1 \in 1 .. Len(bases) /\ bases'[j] = bases[j + 1]
        BY <1>2
      <3>2. i < j => i + 1 < j + 1
        BY <1>2, FuzzTypes
      <3> QED
        BY <3>1, <3>2 DEF FuzzInv, DepthOrder
    <2>4. \A i \in 1 .. Len(results) : results[i].depth <= head.depth
      <3> TAKE i \in 1 .. Len(results)
      <3>1. results[i].depth \in Nat /\ results[i].depth <= base.depth
        BY FuzzTypes DEF FuzzInv, DepthOrder
      <3> QED
        BY <2>1, <3>1
    <2> QED
      BY <1>1, <1>4, <2>2, <2>3, <2>4 DEF DepthOrder
  <1>7. \A b \in visited : \A k : (Kept(b, k)' <=> Kept(b, k)) /\ HitAt(b, k)' = HitAt(b, k)
    BY <1>4 DEF Kept, HitAt
  <1>8. ResultsSound'
    <2>1. \A b \in visited : \A r : r \in Hits(b) => r \in Hits(b)'
      BY <1>7 DEF Hits
    <2> QED
      BY <1>1, <2>1 DEF FuzzInv, ResultsSound
  <1>9. ResultsComplete'
    <2> SUFFICES ASSUME NEW b \in visited', NEW k \in 1 .. Len(Wordlist), Kept(b, k)'
                 PROVE  Found(HitAt(b, k))' \/ (next' # 0 /\ b = base'.url /\ next' <= k)
      BY DEF ResultsComplete
    <2>1. CASE b = head.url
      BY <1>1, <2>1, WordlistFacts
    <2>2. CASE b # head.url
      <3>1. b \in visited
        BY <1>1, <2>2
      <3>2. Found(HitAt(b, k))
        BY <1>1, <1>7, <3>1 DEF FuzzInv, ResultsComplete
      <3>3. HitAt(b, k)' = HitAt(b, k)
        BY <1>7, <3>1
      <3> QED
        BY <1>1, <3>2, <3>3 DEF Found
    <2> QED
      BY <2>1, <2>2
  <1>10. Directories'
    <2>1. \A url : Directory(url)' <=> Directory(url)
      BY <1>1 DEF Directory, Enterable
    <2>2. Directory(head.url)
      BY <1>2 DEF FuzzInv, Directories
    <2>3. \A b \in visited' : Directory(b)
      BY <1>1, <2>2 DEF FuzzInv, Directories
    <2>4. \A i \in 1 .. Len(bases') : Directory(bases'[i].url)
      BY <1>2 DEF FuzzInv, Directories
    <2>5. \A url : Directory(url) => url \in visited' \/ Waiting(url)'
      BY <1>1, <1>2 DEF FuzzInv, Directories
    <2>6. \A i \in 1 .. Len(bases') : (Directory(bases[i].url))'
      BY <2>1, <2>4 DEF Directory, Enterable
    <2> QED
      BY <2>1, <2>3, <2>5, <2>6 DEF Directories
  <1> QED
    BY <1>5, <1>6, <1>8, <1>9, <1>10 DEF FuzzInv

LEMMA SkipDirectoryKeeps ==
  ASSUME FuzzInv, SkipDirectory
  PROVE  FuzzInv'
PROOF
  <1>1. /\ next = 0 /\ bases # <<>> /\ Head(bases).url \in visited /\ bases' = Tail(bases)
        /\ UNCHANGED <<maxDepth, base, next, visited, results, params, world>>
    BY DEF SkipDirectory
  <1>2. /\ bases' \in Seq(BaseRecords) /\ Len(bases') = Len(bases) - 1
        /\ \A i \in 1 .. Len(bases') : i + 1 \in 1 .. Len(bases) /\ bases'[i] = bases[i + 1]
        /\ \A url : Waiting(url) /\ url # Head(bases).url => Waiting(url)'
    BY <1>1, QueueTail DEF Waiting
  <1>3. FuzzTypeOK'
    BY <1>1, <1>2 DEF FuzzInv, FuzzTypeOK, BaseRecords
  <1>4. DepthOrder'
    <2>1. \A i, j \in 1 .. Len(bases') : i < j => bases'[i].depth <= bases'[j].depth
      <3> TAKE i, j \in 1 .. Len(bases')
      <3>1. i + 1 \in 1 .. Len(bases) /\ bases'[i] = bases[i + 1]
            /\ j + 1 \in 1 .. Len(bases) /\ bases'[j] = bases[j + 1]
        BY <1>2
      <3>2. i < j => i + 1 < j + 1
        BY <1>2, FuzzTypes
      <3> QED
        BY <3>1, <3>2 DEF FuzzInv, DepthOrder
    <2>2. \A i \in 1 .. Len(bases') :
            base.depth <= bases'[i].depth /\ bases'[i].depth <= base.depth + 1
      BY <1>2 DEF FuzzInv, DepthOrder
    <2> QED
      BY <1>1, <2>1, <2>2 DEF FuzzInv, DepthOrder
  <1>5. ResultsSound' /\ ResultsComplete'
    BY <1>1 DEF FuzzInv, ResultsSound, ResultsComplete, Hits, Kept, HitAt, Found
  <1>6. Directories'
    <2>1. \A url : Directory(url)' <=> Directory(url)
      BY <1>1 DEF Directory, Enterable
    <2>2. \A i \in 1 .. Len(bases') : Directory(bases'[i].url)
      BY <1>2 DEF FuzzInv, Directories
    <2>3. \A i \in 1 .. Len(bases') : (Directory(bases[i].url))'
      BY <2>1, <2>2 DEF Directory, Enterable
    <2>4. \A url : Directory(url) => url \in visited \/ Waiting(url)'
      BY <1>1, <1>2 DEF FuzzInv, Directories
    <2> QED
      BY <1>1, <2>1, <2>3, <2>4 DEF FuzzInv, Directories
  <1> QED
    BY <1>3, <1>4, <1>5, <1>6 DEF FuzzInv

\* The directory that is fuzzed, and the hit of its next word.
LEMMA NextHit ==
  ASSUME FuzzInv, next \in 1 .. Len(Wordlist)
  PROVE  /\ next # 0 /\ base.url \in visited
         /\ HitAt(base.url, next).url \in FuzzUrls
         /\ HitAt(base.url, next).depth = base.depth
         /\ Kept(base.url, next) => HitAt(base.url, next) \in ResultRecords
PROOF
  <1> DEFINE hit == HitAt(base.url, next)
  <1>1. next # 0 /\ base.url \in visited /\ world[base.url].depth = base.depth
    BY WordlistFacts DEF FuzzInv, DepthOrder
  <1>2. base.url \in FuzzUrls /\ base.depth \in 0 .. maxDepth
    BY FuzzTypes DEF BaseRecords
  <1>3. hit = [url |-> hit.url, status |-> hit.status, depth |-> hit.depth] /\ hit.depth = base.depth
    BY <1>1 DEF HitAt
  <1>4. hit.url \in FuzzUrls
    BY <1>2, WordlistFacts DEF HitAt
  <1>5. Kept(base.url, next) => hit.status \in InterestingStatuses
    BY HitFacts
  <1> HIDE DEF hit
  <1>6. Kept(base.url, next) => hit \in ResultRecords
    BY <1>2, <1>3, <1>4, <1>5 DEF ResultRecords
  <1> QED
    BY <1>1, <1>3, <1>4, <1>6 DEF hit

\* A word whose hit, if it is one, was found: the rest of the words is one less.
LEMMA CompleteFurther ==
  ASSUME FuzzInv, next \in 1 .. Len(Wordlist), next' = next + 1,
         UNCHANGED <<base, visited, world>>,
         \A hit : Found(hit) => Found(hit)',
         \A hit : Kept(base.url, next) /\ hit = HitAt(base.url, next) => Found(hit)'
  PROVE  ResultsComplete'
PROOF
  <1>1. \A b, k : (Kept(b, k)' <=> Kept(b, k)) /\ HitAt(b, k)' = HitAt(b, k)
    BY DEF Kept, HitAt
  <1> SUFFICES ASSUME NEW b \in visited, NEW k \in 1 .. Len(Wordlist), Kept(b, k)
               PROVE  Found(HitAt(b, k))' \/ (next' # 0 /\ b = base.url /\ next' <= k)
    BY <1>1 DEF ResultsComplete
  <1>2. ASSUME NEW hit, hit = HitAt(b, k), Found(hit)' PROVE Found(HitAt(b, k))'
    <2>1. hit = HitAt(b, k)'
      BY <1>1, <1>2
    <2> QED
      BY <1>2, <2>1 DEF Found
  <1>3. CASE Found(HitAt(b, k))
    BY <1>2, <1>3
  <1>4. CASE b = base.url /\ k = next
    BY <1>2, <1>4
  <1>5. CASE b = base.url /\ next <= k /\ k # next
    BY <1>5, WordlistFacts
  <1> QED
    BY <1>3, <1>4, <1>5 DEF FuzzInv, ResultsComplete

\* A word without a hit, or with one whose URL was seen, here or at a lesser depth.
LEMMA SkipKeeps ==
  ASSUME FuzzInv, next \in 1 .. Len(Wordlist), next' = next + 1,
         Kept(base.url, next) => Seen(HitAt(base.url, next).url),
         UNCHANGED <<results, bases, maxDepth, base, visited, params, world>>
  PROVE  FuzzInv'
PROOF
  <1>1. FuzzTypeOK'
    BY WordlistFacts DEF FuzzInv, FuzzTypeOK
  <1>2. base.url \in visited /\ HitAt(base.url, next).depth = base.depth
    BY NextHit
  <1>3. DepthOrder'
    BY <1>2, NextHit DEF FuzzInv, DepthOrder
  <1>4. Kept(base.url, next) => Found(HitAt(base.url, next))
    <2> SUFFICES ASSUME Kept(base.url, next) PROVE Found(HitAt(base.url, next))
      OBVIOUS
    <2>1. PICK i \in 1 .. Len(results) : results[i].url = HitAt(base.url, next).url
      BY FuzzTypes DEF Seen
    <2>2. results[i].depth <= base.depth
      BY DEF FuzzInv, DepthOrder
    <2> QED
      BY <1>2, <2>1, <2>2 DEF Found
  <1>5. ResultsComplete'
    <2>1. \A hit : Found(hit) => Found(hit)'
      BY DEF Found
    <2>2. \A hit : Kept(base.url, next) /\ hit = HitAt(base.url, next) => Found(hit)'
      BY <1>4, <2>1
    <2> QED
      BY <2>1, <2>2, CompleteFurther
  <1>6. ResultsSound'
    BY DEF FuzzInv, ResultsSound, Hits, Kept, HitAt
  <1>7. Directories'
    BY DEF FuzzInv, Directories, Directory, Waiting, Enterable
  <1> QED
    BY <1>1, <1>3, <1>5, <1>6, <1>7 DEF FuzzInv

\* The results and the queue when a new result was recorded.
LEMMA RecordFacts ==
  ASSUME FuzzInv, next \in 1 .. Len(Wordlist), Kept(base.url, next), Record(HitAt(base.url, next))
  PROVE  LET r == HitAt(base.url, next)
             dir == [url |-> r.url, depth |-> base.depth + 1]
         IN  /\ r \in ResultRecords /\ results' \in Seq(ResultRecords)
             /\ Len(results') = Len(results) + 1
             /\ results'[Len(results) + 1] = r
             /\ \A i \in 1 .. Len(results) : results'[i] = results[i]
             /\ \/ ~Enterable(r) /\ bases' = bases
                \/ /\ Enterable(r) /\ dir \in BaseRecords /\ bases' \in Seq(BaseRecords)
                   /\ Len(bases') = Len(bases) + 1 /\ bases'[Len(bases) + 1] = dir
                   /\ \A i \in 1 .. Len(bases) : bases'[i] = bases[i]
PROOF
  <1> DEFINE r == HitAt(base.url, next)
             dir == [url |-> r.url, depth |-> base.depth + 1]
  <1>1. r \in ResultRecords /\ r.url \in FuzzUrls /\ r.depth = base.depth
    BY NextHit
  <1>2. /\ results' = Append(results, r)
        /\ bases' = (IF base.depth < maxDepth /\ r.status \in RecursiveStatuses
                     THEN Append(bases, dir) ELSE bases)
    BY DEF Record
  <1>3. Enterable(r) <=> base.depth < maxDepth /\ r.status \in RecursiveStatuses
    BY <1>1 DEF Enterable
  <1>4. base.depth < maxDepth => dir \in BaseRecords
    BY <1>1, FuzzTypes DEF BaseRecords
  <1> HIDE DEF r, dir
  <1>5. /\ results' \in Seq(ResultRecords) /\ Len(results') = Len(results) + 1
        /\ results'[Len(results) + 1] = r
        /\ \A i \in 1 .. Len(results) : results'[i] = results[i]
    BY <1>1, <1>2, FuzzTypes, AppendProperties
  <1>6. CASE Enterable(r)
    <2>1. bases' = Append(bases, dir) /\ dir \in BaseRecords
      BY <1>2, <1>3, <1>4, <1>6
    <2>2. /\ bases' \in Seq(BaseRecords) /\ Len(bases') = Len(bases) + 1
          /\ bases'[Len(bases) + 1] = dir
          /\ \A i \in 1 .. Len(bases) : bases'[i] = bases[i]
      BY <2>1, FuzzTypes, AppendProperties
    <2> QED
      BY <1>1, <1>5, <1>6, <2>1, <2>2 DEF r, dir
  <1>7. CASE ~Enterable(r)
    BY <1>1, <1>2, <1>3, <1>5, <1>7 DEF r, dir
  <1> QED
    BY <1>6, <1>7

\* A new hit: its URL is not a result yet.
LEMMA RecordKeeps ==
  ASSUME FuzzInv, next \in 1 .. Len(Wordlist), next' = next + 1,
         Kept(base.url, next), ~Seen(HitAt(base.url, next).url), Record(HitAt(base.url, next)),
         UNCHANGED <<maxDepth, base, visited, params, world>>
  PROVE  FuzzInv'
PROOF
  <1> DEFINE r == HitAt(base.url, next)
             dir == [url |-> r.url, depth |-> base.depth + 1]
             n == Len(results)
             m == Len(bases)
  <1>1. /\ r \in ResultRecords /\ results' \in Seq(ResultRecords)
        /\ Len(results') = n + 1 /\ results'[n + 1] = r
        /\ \A i \in 1 .. n : results'[i] = results[i]
    BY RecordFacts
  <1>2. \/ ~Enterable(r) /\ bases' = bases
        \/ /\ Enterable(r) /\ dir \in BaseRecords /\ bases' \in Seq(BaseRecords)
           /\ Len(bases') = m + 1 /\ bases'[m + 1] = dir
           /\ \A i \in 1 .. m : bases'[i] = bases[i]
    BY RecordFacts
  <1>3. /\ n \in Nat /\ m \in Nat /\ bases \in Seq(BaseRecords) /\ base.depth \in Nat
        /\ \A i \in 1 .. n + 1 : i \in 1 .. n \/ i = n + 1
        /\ \A i \in 1 .. m + 1 : i \in 1 .. m \/ i = m + 1
        /\ n + 1 \in 1 .. n + 1 /\ m + 1 \in 1 .. m + 1
        /\ \A i \in 1 .. n : i \in 1 .. n + 1
        /\ \A i \in 1 .. m : i \in 1 .. m + 1
    BY FuzzTypes
  <1>4. r \in Hits(base.url) /\ base.url \in visited /\ r.depth = base.depth
    BY HitFacts, NextHit
  <1>5. \A i \in 1 .. n : results[i].url # r.url
    BY FuzzTypes DEF Seen
  <1>6. dir.url = r.url /\ dir.depth = base.depth + 1
    OBVIOUS
  <1>8. \A hit : Found(hit) => Found(hit)'
    BY <1>1, <1>3 DEF Found, n
  <1>9. \A hit : hit = r => Found(hit)'
    <2> HIDE DEF r, n
    <2>1. results'[n + 1].url = r.url /\ results'[n + 1].depth <= r.depth
      BY <1>1, <1>3, <1>4
    <2> QED
      BY <1>1, <1>3, <2>1 DEF Found
  <1>10. ResultsComplete'
    BY <1>8, <1>9, CompleteFurther
  <1> HIDE DEF r, dir, n, m
  <1>11. FuzzTypeOK'
    <2>1. bases' \in Seq(BaseRecords)
      BY <1>2, <1>3
    <2>2. next' \in 0 .. Len(Wordlist) + 1
      BY WordlistFacts
    <2> QED
      BY <1>1, <2>1, <2>2 DEF FuzzInv, FuzzTypeOK, BaseRecords, ResultRecords
  <1>12. DepthOrder'
    <2>1. \A i \in 1 .. n + 1 : results'[i].depth <= base.depth
      BY <1>1, <1>3, <1>4 DEF FuzzInv, DepthOrder, n
    <2>2. \A i \in 1 .. m : base.depth <= bases[i].depth /\ bases[i].depth <= base.depth + 1
      BY DEF FuzzInv, DepthOrder, m
    <2>3. \A i, j \in 1 .. m : i < j => bases[i].depth <= bases[j].depth
      BY DEF FuzzInv, DepthOrder, m
    <2>4. CASE bases' = bases
      BY <1>1, <1>4, <2>1, <2>4, NextHit DEF FuzzInv, DepthOrder
    <2>5. CASE bases' # bases
      <3>1. /\ Len(bases') = m + 1 /\ bases'[m + 1].depth = base.depth + 1
            /\ \A i \in 1 .. m : bases'[i] = bases[i]
        BY <1>2, <1>6, <2>5
      <3>2. \A i \in 1 .. m + 1 : base.depth <= bases'[i].depth /\ bases'[i].depth <= base.depth + 1
        BY <1>3, <2>2, <3>1
      <3>3. \A i, j \in 1 .. m + 1 : i < j => bases'[i].depth <= bases'[j].depth
        <4> TAKE i, j \in 1 .. m + 1
        <4>1. CASE j = m + 1
          BY <3>1, <3>2, <4>1
        <4>2. CASE j \in 1 .. m /\ i \in 1 .. m
          BY <2>3, <3>1, <4>2
        <4>3. CASE j \in 1 .. m /\ i = m + 1
          BY <1>3, <4>3
        <4> QED
          BY <1>3, <4>1, <4>2, <4>3
      <3> QED
        BY <1>1, <2>1, <3>1, <3>2, <3>3, NextHit DEF FuzzInv, DepthOrder
    <2> QED
      BY <2>4, <2>5
  <1>13. ResultsSound'
    <2>1. \A i, j \in 1 .. n + 1 : results'[i].url = results'[j].url => i = j
      <3> SUFFICES ASSUME NEW i \in 1 .. n + 1, NEW j \in 1 .. n + 1,
                          results'[i].url = results'[j].url
                   PROVE  i = j
        OBVIOUS
      <3>1. CASE i \in 1 .. n /\ j \in 1 .. n
        BY <1>1, <3>1 DEF FuzzInv, ResultsSound, n
      <3>2. CASE i = n + 1 \/ j = n + 1
        BY <1>1, <1>3, <1>5, <3>2
      <3> QED
        BY <1>3, <3>1, <3>2
    <2>2. \A b : Hits(b)' = Hits(b)
      BY DEF Hits, Kept, HitAt
    <2>3. \A i \in 1 .. n + 1 : \E b \in visited : results'[i] \in Hits(b)
      BY <1>1, <1>3, <1>4 DEF FuzzInv, ResultsSound, n
    <2> QED
      BY <1>1, <2>1, <2>2, <2>3 DEF ResultsSound
  <1>14. Directories'
    <2>1. \A x : Enterable(x)' <=> Enterable(x)
      BY DEF Enterable
    <2>2. \A url : Directory(url)' <=>
            Directory(url) \/ (Enterable(r) /\ url = r.url)
      <3>1. \A url : Directory(url)' <=>
              url = StartUrl \/ \E i \in 1 .. n + 1 : Enterable(results'[i]) /\ results'[i].url = url
        BY <1>1, <2>1 DEF Directory
      <3>2. \A url : Directory(url) <=>
              url = StartUrl \/ \E i \in 1 .. n : Enterable(results[i]) /\ results[i].url = url
        BY DEF Directory, n
      <3> QED
        BY <1>1, <1>3, <3>1, <3>2
    <2>3. \A url : Waiting(url)' <=> Waiting(url) \/ (Enterable(r) /\ url = r.url)
      <3>1. CASE bases' = bases /\ ~Enterable(r)
        BY <3>1 DEF Waiting
      <3>2. CASE Enterable(r)
        <4>1. /\ Len(bases') = m + 1 /\ bases'[m + 1].url = r.url
              /\ \A i \in 1 .. m : bases'[i] = bases[i]
          BY <1>2, <1>6, <3>2
        <4>2. \A url : Waiting(url)' <=> \E i \in 1 .. m + 1 : bases'[i].url = url
          BY <4>1 DEF Waiting
        <4>3. \A url : Waiting(url) <=> \E i \in 1 .. m : bases[i].url = url
          BY DEF Waiting, m
        <4> QED
          BY <1>3, <3>2, <4>1, <4>2, <4>3
      <3> QED
        BY <1>2, <3>1, <3>2
    <2>4. \A i \in 1 .. Len(bases') : (Waiting(bases[i].url))'
      BY DEF Waiting
    <2>5. \A url : Waiting(url) => Directory(url)
      BY DEF FuzzInv, Directories, Waiting
    <2>6. \A url : Waiting(url)' => Directory(url)'
      BY <2>2, <2>3, <2>5
    <2>7. \A i \in 1 .. Len(bases') : (Directory(bases[i].url))'
      <3>1. \A url : Waiting(url)' =>
              url = StartUrl \/ \E i \in 1 .. Len(results') : Enterable(results'[i]) /\ results'[i].url = url
        BY <2>1, <2>6 DEF Directory
      <3> QED
        BY <2>1, <2>4, <3>1 DEF Directory
    <2>8. \A url : Directory(url)' => url \in visited \/ Waiting(url)'
      BY <2>2, <2>3 DEF FuzzInv, Directories
    <2>9. \A b \in visited : Directory(b)'
      BY <2>2 DEF FuzzInv, Directories
    <2> QED
      BY <2>7, <2>8, <2>9 DEF Directories
  <1> QED
    BY <1>10, <1>11, <1>12, <1>13, <1>14 DEF FuzzInv

LEMMA CloseKeeps ==
  ASSUME FuzzInv, CloseDirectory
  PROVE  FuzzInv'
PROOF
  <1>1. /\ next = Len(Wordlist) + 1 /\ next' = 0
        /\ UNCHANGED <<maxDepth, bases, base, visited, results, params, world>>
    BY DEF CloseDirectory
  <1>2. FuzzTypeOK'
    BY <1>1, WordlistFacts DEF FuzzInv, FuzzTypeOK
  <1>3. ResultsComplete'
    <2>1. \A k \in 1 .. Len(Wordlist) : ~(next <= k)
      BY <1>1, WordlistFacts
    <2> QED
      BY <1>1, <2>1 DEF FuzzInv, ResultsComplete, Kept, HitAt, Found
  <1>4. DepthOrder' /\ ResultsSound'
    BY <1>1 DEF FuzzInv, DepthOrder, ResultsSound, Hits, Kept, HitAt
  <1>5. Directories'
    BY <1>1 DEF FuzzInv, Directories, Directory, Waiting, Enterable
  <1> QED
    BY <1>2, <1>3, <1>4, <1>5 DEF FuzzInv

\* What FuzzParameters and stuttering leave as it is.
LEMMA FuzzFrame ==
  ASSUME FuzzInv, params' \subseteq Parameters \cup {"done"},
         UNCHANGED <<maxDepth, bases, base, next, visited, results, world>>
  PROVE  FuzzInv'
PROOF
  <1>1. FuzzTypeOK'
    BY DEF FuzzInv, FuzzTypeOK
  <1>2. DepthOrder' /\ ResultsSound' /\ ResultsComplete'
    BY DEF FuzzInv, DepthOrder, ResultsSound, Hits, ResultsComplete, Found, Kept, HitAt
  <1>3. Directories'
    BY DEF FuzzInv, Directories, Directory, Waiting, Enterable
  <1> QED
    BY <1>1, <1>2, <1>3 DEF FuzzInv

LEMMA ParametersKeep ==
  ASSUME FuzzInv, NEW round \in ParamRounds, FuzzParameters(round)
  PROVE  FuzzInv'
PROOF
  <1>1. CASE round.baseline = NoAnswer
    BY <1>1, FuzzFrame DEF FuzzParameters
  <1>2. CASE round.baseline # NoAnswer
    BY <1>2, FuzzFrame DEF FuzzParameters
  <1> QED
    BY <1>1, <1>2

-----------------------------------------------------------------------------

LEMMA FuzzInitial == FuzzInit => FuzzInv
PROOF
  <1> SUFFICES ASSUME FuzzInit PROVE FuzzInv
    OBVIOUS
  <1> DEFINE root == [url |-> StartUrl, depth |-> 0]
  <1>1. maxDepth \in Nat /\ bases = <<root>> /\ base = root /\ next = 0 /\ visited = {}
        /\ results = <<>> /\ world = << >> /\ StartUrl \in FuzzUrls
    BY FuzzAssumption DEF FuzzInit
  <1>2. root.url = StartUrl /\ root.depth = 0 /\ root \in BaseRecords
    BY <1>1 DEF BaseRecords
  <1> HIDE DEF root
  <1>3. Len(bases) = 1 /\ bases[1] = root /\ bases \in Seq(BaseRecords) /\ Len(results) = 0
    BY <1>1, <1>2
  <1>4. FuzzTypeOK
    <2>1. results \in Seq(ResultRecords)
      BY <1>1, EmptySeq
    <2>2. world \in [visited -> WorldRecords]
      BY <1>1
    <2>3. next \in 0 .. Len(Wordlist) + 1
      BY <1>1, WordlistFacts
    <2> QED
      BY <1>1, <1>2, <1>3, <2>1, <2>2, <2>3
         DEF FuzzInit, FuzzTypeOK, BaseRecords, ResultRecords, WorldRecords
  <1>5. DepthOrder
    BY <1>1, <1>2, <1>3 DEF DepthOrder
  <1>6. ResultsSound /\ ResultsComplete
    BY <1>1, <1>3 DEF ResultsSound, ResultsComplete
  <1>7. Directories
    BY <1>1, <1>2, <1>3 DEF Directories, Directory, Waiting
  <1> QED
    BY <1>4, <1>5, <1>6, <1>7 DEF FuzzInv

LEMMA FuzzStep == FuzzInv /\ [FuzzNext]_fuzzVars => FuzzInv'
PROOF
  <1> SUFFICES ASSUME FuzzInv, [FuzzNext]_fuzzVars PROVE FuzzInv'
    OBVIOUS
  <1>1. CASE TakeWord
    <2>1. next \in 1 .. Len(Wordlist)
      BY <1>1, WordlistFacts DEF TakeWord
    <2>2. CASE Kept(base.url, next) /\ ~Seen(HitAt(base.url, next).url)
      BY <1>1, <2>1, <2>2, RecordKeeps DEF TakeWord
    <2>3. CASE ~(Kept(base.url, next) /\ ~Seen(HitAt(base.url, next).url))
      BY <1>1, <2>1, <2>3, SkipKeeps DEF TakeWord
    <2> QED
      BY <2>2, <2>3
  <1>2. CASE UNCHANGED fuzzVars
    <2>1. params' \subseteq Parameters \cup {"done"}
      BY <1>2 DEF fuzzVars, FuzzInv, FuzzTypeOK
    <2> QED
      BY <1>2, <2>1, FuzzFrame DEF fuzzVars
  <1> QED
    BY <1>1, <1>2, OpenKeeps, SkipDirectoryKeeps, CloseKeeps, ParametersKeep DEF FuzzNext

LEMMA FuzzConclusion == FuzzInv => FuzzExact
PROOF
  <1> SUFFICES ASSUME FuzzInv PROVE FuzzExact
    OBVIOUS
  <1>1. DOMAIN bases = 1 .. Len(bases) /\ DOMAIN results = 1 .. Len(results)
    BY FuzzTypes
  <1>2. \A i, j \in DOMAIN results : results[i].url = results[j].url => i = j
    BY <1>1 DEF FuzzInv, ResultsSound
  <1>3. \A r : r \in Range(results) <=> IsResult(r)
    BY <1>1 DEF Range, IsResult
  <1> SUFFICES ASSUME Recursed
               PROVE  /\ Range(results) \subseteq UNION {Hits(b) : b \in visited}
                      /\ \A b \in visited : \A h \in Hits(b) :
                           \E r \in Range(results) : r.url = h.url /\ r.depth <= h.depth
                      /\ visited = {StartUrl} \cup {r.url : r \in {x \in Range(results) : Enterable(x)}}
                      /\ \A b \in visited :
                           (\A i \in DOMAIN Wordlist :
                              world[b].round.answers[i] = world[b].round.baseline) => Hits(b) = {}
    BY <1>2 DEF FuzzExact
  <1>4. \A url : ~Waiting(url)
    BY EmptySeq DEF Recursed, Waiting
  <1>5. Range(results) \subseteq UNION {Hits(b) : b \in visited}
    BY <1>3 DEF FuzzInv, ResultsSound, IsResult
  <1>6. ASSUME NEW b \in visited, NEW h \in Hits(b)
        PROVE  \E r \in Range(results) : r.url = h.url /\ r.depth <= h.depth
    <2>1. Found(h)
      BY HitFacts, <1>6 DEF Recursed, FuzzInv, ResultsComplete
    <2> QED
      BY <1>3, <2>1 DEF Found, IsResult
  <1>7. visited = {StartUrl} \cup {r.url : r \in {x \in Range(results) : Enterable(x)}}
    <2>1. \A url : Directory(url) <=> url = StartUrl \/ \E r : IsResult(r) /\ Enterable(r) /\ r.url = url
      BY DEF Directory, IsResult
    <2>2. \A b \in visited : Directory(b)
      BY DEF FuzzInv, Directories
    <2>3. \A url : Directory(url) => url \in visited
      BY <1>4 DEF FuzzInv, Directories
    <2> QED
      BY <1>3, <2>1, <2>2, <2>3
  <1>8. ASSUME NEW b \in visited,
               \A i \in DOMAIN Wordlist : world[b].round.answers[i] = world[b].round.baseline
        PROVE  Hits(b) = {}
    <2>1. world[b].round \in [baseline : Outcomes, answers : [DOMAIN Wordlist -> Outcomes]]
      <3>1. world[b] \in WorldRecords
        BY FuzzTypes
      <3> QED
        BY <3>1, FuzzAssumption DEF WorldRecords
    <2>2. \A i \in DOMAIN Wordlist : ~Kept(b, i)
      BY <1>8, <2>1, BaselineIsNoHit DEF Kept
    <2> QED
      BY <2>2 DEF Hits
  <1> QED
    BY <1>5, <1>6, <1>7, <1>8

\* For any word list, however its words lead from several directories to one URL, any
\* depth and answers: no URL is a result twice; and when the recursion ends, every hit
\* of every directory that was fuzzed is a result, found at its least depth, and those
\* directories are the start and the results that can be entered
\* (fuzz_paths_recursive).
THEOREM FuzzAlwaysExact == FuzzSpec => []FuzzExact
PROOF
  BY FuzzInitial, FuzzStep, FuzzConclusion, PTL DEF FuzzSpec

=============================================================================
