--------------------------- MODULE DiscoveryProofs ----------------------------
(*****************************************************************************)
(* Theorems about PortScan: what one port takes from the connection budget  *)
(* that all ports share, that all of them together stay within it, and      *)
(* that no port is left out before it is spent; for any number of ports,    *)
(* any budget, and whatever the probes find.                                *)
(*                                                                          *)
(* Theorems about Discovery: whatever fails, a scan looks up the names of   *)
(* every source of its mode, and a cache file that is used is the latest    *)
(* list of crt.sh; for any answers and any number of scans, killed or not.  *)
(*                                                                          *)
(* Theorem about ServiceProfile: what is reported of an open port does not  *)
(* contradict itself; for any answers to any of the connections.            *)
(*                                                                          *)
(* Theorem about Fingerprint: the technologies are those that the surest    *)
(* rules see, and what they imply; for any rules and any response.          *)
(*                                                                          *)
(* Theorem about ApiDiscovery: each operation of a specification becomes    *)
(* one endpoint that is as it declares; for any specifications.             *)
(*****************************************************************************)
EXTENDS PortScan, Discovery, ServiceProfile, Fingerprint, ApiDiscovery, FiniteSetTheorems,
        SequenceTheorems, WellFoundedInduction, TLAPS

\* PortScan: the budget of connections.

\* The places of a task, and the types that the bound rests on.
Places == {"queued", "admit", "connect", "tls", "certificate", "versions", "classify",
           "enrich", "done"}

TypeInv ==
  /\ passive \in BOOLEAN
  /\ used \in Nat
  /\ pc \in [Ports -> Places]
  /\ protocol \in [Ports -> Protocols]
  /\ tls \in [Ports -> BOOLEAN]
  /\ tried \in [Ports -> Nat]
  /\ opened \in [Ports -> Nat]

\* The TLS versions or the generic probes, whichever the profile asks for.
Repeated(p) == IF tls[p] THEN TlsVersions ELSE GenericProbes

\* What a task may have opened when it has come as far as its place.
Spent(p) ==
  CASE pc[p] \in {"queued", "admit"}  -> 0
    [] pc[p] \in {"connect", "tls"}   -> 1
    [] pc[p] = "certificate"          -> 2
    [] pc[p] = "versions"             -> 3 + tried[p]
    [] pc[p] = "classify"             -> IF passive THEN 1
                                         ELSE 3 + (IF tls[p] THEN TlsVersions ELSE tried[p])
    [] pc[p] = "enrich"               -> IF passive THEN 1 ELSE 3 + Repeated(p)
    [] OTHER                          -> IF passive THEN 1 ELSE 4 + Repeated(p)

\* A task that has not reached the TLS versions has tried nothing, and has no TLS
\* before it looked for it.  It tries the versions only over TLS, and has a protocol when it leaves them with TLS, so that it never
\* goes on to the generic probes.
CostInv(p) ==
  /\ opened[p] <= Spent(p)
  /\ passive => pc[p] \notin {"tls", "certificate", "versions"}
  /\ pc[p] \in {"queued", "admit", "connect", "tls", "certificate"} => tried[p] = 0
  /\ pc[p] \in {"queued", "admit", "connect", "tls"} => ~tls[p]
  /\ pc[p] = "versions" => tried[p] <= (IF tls[p] THEN TlsVersions ELSE 0)
  /\ pc[p] = "classify" => /\ tls[p] => protocol[p] # "none"
                           /\ tried[p] <= GenericProbes

Inv == TypeInv /\ \A p \in Ports : CostInv(p)

\* Initially no task has opened a connection.
LEMMA InitCost == Init => Inv
  BY PortScanAssumption DEF Init, Inv, TypeInv, CostInv, Spent, Places, Protocols

\* The locals of the other tasks stay as they are.
Untouched(q) ==
  /\ pc'[q] = pc[q] /\ protocol'[q] = protocol[q] /\ tls'[q] = tls[q]
  /\ tried'[q] = tried[q] /\ opened'[q] = opened[q]

LEMMA UntouchedCost ==
  ASSUME NEW q \in Ports, CostInv(q), Untouched(q), passive' = passive
  PROVE  CostInv(q)'
  BY DEF Untouched, CostInv, Spent, Repeated

\* A step of one task keeps the types and the locals of the others.
LEMMA StepFrame ==
  ASSUME TypeInv, NEW p \in Ports, PortStep(p)
  PROVE  TypeInv' /\ passive' = passive /\ \A q \in Ports \ {p} : Untouched(q)
PROOF
  <1>0. GenericProbes \in Nat /\ ServiceOf \in [Ports -> Protocols]
    BY PortScanAssumption
  <1> USE <1>0 DEF TypeInv, Untouched, Move, budget, profile, Connect, NoConnection, Return,
                   Places, Protocols
  <1>1. CASE Acquire(p) \/ Admit(p) \/ Refuse(p) \/ Closed(p)
    BY <1>1 DEF Acquire, Admit, Refuse, Closed
  <1>2. CASE Greet(p)
    BY <1>2 DEF Greet
  <1>3. CASE ProbeTls(p)
    BY <1>3 DEF ProbeTls
  <1>4. CASE ProbeCertificate(p)
    BY <1>4 DEF ProbeCertificate
  <1>5. CASE ProbeVersion(p)
    BY <1>5 DEF ProbeVersion
  <1>6. CASE EndTls(p)
    BY <1>6 DEF EndTls
  <1>7. CASE ProbeGeneric(p)
    BY <1>7 DEF ProbeGeneric
  <1>8. CASE Classify(p)
    BY <1>8 DEF Classify
  <1>9. CASE Enrich(p)
    BY <1>9 DEF Enrich
  <1> QED
    BY <1>1, <1>2, <1>3, <1>4, <1>5, <1>6, <1>7, <1>8, <1>9 DEF PortStep

\* A step of a task keeps it within what its place allows.
LEMMA StepCost ==
  ASSUME TypeInv, NEW p \in Ports, CostInv(p), PortStep(p)
  PROVE  CostInv(p)'
PROOF
  <1>0. GenericProbes \in Nat
    BY PortScanAssumption
  <1> USE <1>0 DEF TypeInv, CostInv, Spent, Repeated, Move, budget, profile, Connect, NoConnection,
                   Return, TlsVersions
  <1>1. CASE Acquire(p)
    BY <1>1 DEF Acquire
  <1>2. CASE Admit(p)
    BY <1>2 DEF Admit
  <1>3. CASE Refuse(p)
    BY <1>3 DEF Refuse
  <1>4. CASE Closed(p)
    BY <1>4 DEF Closed
  <1>5. CASE Greet(p)
    BY <1>5 DEF Greet
  <1>6. CASE ProbeTls(p)
    BY <1>6 DEF ProbeTls
  <1>7. CASE ProbeCertificate(p)
    BY <1>7 DEF ProbeCertificate
  <1>8. CASE ProbeVersion(p)
    BY <1>8 DEF ProbeVersion
  <1>9. CASE EndTls(p)
    <2>1. /\ pc[p] = "versions" /\ pc'[p] = "classify" /\ ~passive /\ passive' = passive
          /\ tried'[p] = 0 /\ tls'[p] = tls[p] /\ opened'[p] = opened[p]
          /\ tls[p] => tried[p] = 3 /\ protocol'[p] # "none"
          /\ ~tls[p] => tried[p] = 0
      BY <1>9 DEF EndTls
    <2> QED
      BY <2>1
  <1>10. CASE ProbeGeneric(p)
    BY <1>10 DEF ProbeGeneric, Unknown
  <1>11. CASE Classify(p)
    BY <1>11 DEF Classify
  <1>12. CASE Enrich(p)
    BY <1>12 DEF Enrich
  <1> QED
    BY <1>1, <1>2, <1>3, <1>4, <1>5, <1>6, <1>7, <1>8, <1>9, <1>10, <1>11, <1>12 DEF PortStep

\* No port takes more than its share, whatever its answers make the task try and
\* whenever the budget or the deadline ends it.
THEOREM PortCostBounded == Spec => []PortCost
PROOF
  <1>1. Inv /\ [Next]_vars => Inv'
    <2> SUFFICES ASSUME Inv, [Next]_vars PROVE Inv'
      OBVIOUS
    <2>1. ASSUME NEW p \in Ports, PortStep(p) PROVE Inv'
      BY <2>1, StepFrame, StepCost, UntouchedCost DEF Inv
    <2>2. CASE PassDeadline
      <3>1. \A q \in Ports : Untouched(q)
        BY <2>2 DEF PassDeadline, profile, Untouched
      <3> QED
        BY <2>2, <3>1, UntouchedCost DEF PassDeadline, profile, Inv, TypeInv
    <2>3. CASE UNCHANGED vars
      <3>1. \A q \in Ports : Untouched(q)
        BY <2>3 DEF vars, profile, Untouched
      <3> QED
        BY <2>3, <3>1, UntouchedCost DEF vars, budget, profile, Inv, TypeInv
    <2> QED
      BY <2>1, <2>2, <2>3 DEF Next
  <1>2. Inv => PortCost
    <2> SUFFICES ASSUME Inv, NEW p \in Ports
                 PROVE  opened[p] <= IF passive THEN 1
                                     ELSE 4 + (IF tls[p] THEN TlsVersions ELSE GenericProbes)
      BY DEF PortCost
    <2> QED
      BY PortScanAssumption DEF Inv, TypeInv, CostInv, Spent, Repeated, TlsVersions, Places
  <1> QED
    BY <1>1, <1>2, InitCost, PTL DEF Spec

-----------------------------------------------------------------------------
(* The budget.  `used` is the number of connections, whichever tasks opened *)
(* them, and the permits that are not available are the running tasks.      *)

\* The connection that p opens next is a new one.
LEMMA NextConnection ==
  ASSUME opened \in [Ports -> Nat], NEW p \in Ports,
         opened' = [opened EXCEPT ![p] = @ + 1]
  PROVE  /\ Connections' = Connections \cup {<<p, opened[p] + 1>>}
         /\ <<p, opened[p] + 1>> \notin Connections
PROOF
  <1>1. \A q \in Ports : opened'[q] = IF q = p THEN opened[p] + 1 ELSE opened[q]
    OBVIOUS
  <1>2. ASSUME NEW q \in Ports, NEW i
        PROVE  i \in 1 .. opened'[q] <=> i \in 1 .. opened[q] \/ (q = p /\ i = opened[p] + 1)
    BY <1>1
  <1>3. \A c : c \in Connections' <=> \E q \in Ports : \E i \in 1 .. opened'[q] : c = <<q, i>>
    BY DEF Connections
  <1>4. \A c : c \in Connections <=> \E q \in Ports : \E i \in 1 .. opened[q] : c = <<q, i>>
    BY DEF Connections
  <1>5. opened[p] + 1 \in 1 .. opened'[p] /\ opened[p] + 1 \notin 1 .. opened[p]
    BY <1>1
  <1>6. Connections' = Connections \cup {<<p, opened[p] + 1>>}
    BY <1>2, <1>3, <1>4, <1>5
  <1>7. <<p, opened[p] + 1>> \notin Connections
    BY <1>4, <1>5
  <1> QED
    BY <1>6, <1>7

\* What the connections, the permits and the results agree with.
BudgetInv ==
  /\ TypeInv
  /\ late \in BOOLEAN
  /\ IsFiniteSet(Connections) /\ Cardinality(Connections) = used
  /\ used <= Maximum
  /\ state \in [Ports -> {"unknown", "open", "closed", "filtered"}]
  /\ \A p \in Ports : state[p] # "unknown" <=> pc[p] = "done"
  /\ FilteredOnlyWhenSpent

PermitInv ==
  /\ pc \in [Ports -> Places]
  /\ permits \in Nat
  /\ permits + Cardinality(Running) = AtLeastOne(Concurrency)

\* The places of a task that runs.
Between == Places \ {"queued", "done"}

LEMMA MaximumNat == Maximum \in Nat /\ Maximum > 0
  BY PortScanAssumption DEF Maximum, AtLeastOne

LEMMA InitBudget == Init => BudgetInv
PROOF
  <1> SUFFICES ASSUME Init PROVE BudgetInv
    OBVIOUS
  <1>1. \A p \in Ports : opened[p] = 0 /\ 1 .. opened[p] = {}
    BY DEF Init
  <1>2. Connections = {}
    BY <1>1 DEF Connections
  <1>3. TypeInv
    BY InitCost DEF Inv
  <1>4. IsFiniteSet(Connections) /\ Cardinality(Connections) = 0
    BY <1>2, FS_EmptySet
  <1>5. used = 0 /\ late = FALSE /\ \A p \in Ports : state[p] = "unknown" /\ pc[p] = "queued"
    BY DEF Init
  <1>6. state \in [Ports -> {"unknown", "open", "closed", "filtered"}]
    BY DEF Init
  <1>7. used <= Maximum /\ FilteredOnlyWhenSpent
    BY <1>5, MaximumNat DEF FilteredOnlyWhenSpent
  <1>8. late \in BOOLEAN /\ \A p \in Ports : state[p] # "unknown" <=> pc[p] = "done"
    BY <1>5
  <1> QED
    BY <1>3, <1>4, <1>5, <1>6, <1>7, <1>8 DEF BudgetInv

\* A step takes one connection from the budget while there is one, or none.
LEMMA StepUse ==
  ASSUME TypeInv, NEW p \in Ports, PortStep(p)
  PROVE  /\ late' = late
         /\ \/ MayConnect /\ used' = used + 1 /\ opened' = [opened EXCEPT ![p] = @ + 1]
            \/ used' = used /\ opened' = opened
  BY DEF PortStep, Acquire, Admit, Refuse, Closed, Greet, ProbeTls, ProbeCertificate,
         ProbeVersion, EndTls, ProbeGeneric, Classify, Enrich, Connect, NoConnection, budget

\* A step reports its port when it is done; it is filtered only if it may not connect.
LEMMA StepResult ==
  ASSUME TypeInv, NEW p \in Ports, PortStep(p),
         state \in [Ports -> {"unknown", "open", "closed", "filtered"}]
  PROVE  \/ /\ state' = state /\ pc[p] # "done" /\ pc'[p] # "done"
         \/ /\ pc'[p] = "done"
            /\ \E r \in {"open", "closed", "filtered"} :
                 state' = [state EXCEPT ![p] = r] /\ (r = "filtered" => ~MayConnect)
PROOF
  <1> USE DEF TypeInv, Move, Return, Places
  <1>1. CASE Acquire(p) \/ Admit(p) \/ Greet(p) \/ ProbeTls(p) \/ ProbeCertificate(p)
    BY <1>1 DEF Acquire, Admit, Greet, ProbeTls, ProbeCertificate
  <1>2. CASE ProbeVersion(p) \/ EndTls(p) \/ ProbeGeneric(p) \/ Classify(p)
    BY <1>2 DEF ProbeVersion, EndTls, ProbeGeneric, Classify
  <1>3. CASE Refuse(p) \/ Closed(p) \/ Enrich(p)
    BY <1>3 DEF Refuse, Closed, Enrich
  <1> QED
    BY <1>1, <1>2, <1>3 DEF PortStep

LEMMA StepBudget ==
  ASSUME BudgetInv, NEW p \in Ports, PortStep(p)
  PROVE  BudgetInv'
PROOF
  <1>0. TypeInv /\ TypeInv' /\ used \in Nat /\ opened \in [Ports -> Nat]
    BY StepFrame DEF BudgetInv, TypeInv
  <1>1. /\ late' = late
        /\ \/ MayConnect /\ used' = used + 1 /\ opened' = [opened EXCEPT ![p] = @ + 1]
           \/ used' = used /\ opened' = opened
    BY <1>0, StepUse
  <1>2. IsFiniteSet(Connections)' /\ Cardinality(Connections)' = used' /\ used' <= Maximum
    <2>1. CASE MayConnect /\ used' = used + 1 /\ opened' = [opened EXCEPT ![p] = @ + 1]
      <3>1. /\ Connections' = Connections \cup {<<p, opened[p] + 1>>}
            /\ <<p, opened[p] + 1>> \notin Connections
        BY <1>0, <2>1, NextConnection
      <3>2. /\ IsFiniteSet(Connections \cup {<<p, opened[p] + 1>>})
            /\ Cardinality(Connections \cup {<<p, opened[p] + 1>>}) = used + 1
        BY <3>1, FS_AddElement DEF BudgetInv
      <3>3. used + 1 <= Maximum
        BY <1>0, <2>1, MaximumNat DEF MayConnect
      <3> QED
        BY <2>1, <3>1, <3>2, <3>3
    <2>2. CASE used' = used /\ opened' = opened
      BY <2>2 DEF BudgetInv, Connections
    <2> QED
      BY <1>1, <2>1, <2>2
  <1>3. \A q \in Ports \ {p} : pc'[q] = pc[q]
    BY <1>0, StepFrame DEF Untouched
  <1>4. /\ state' \in [Ports -> {"unknown", "open", "closed", "filtered"}]
        /\ \A q \in Ports : state'[q] # "unknown" <=> pc'[q] = "done"
        /\ \A q \in Ports : state'[q] = "filtered" => state[q] = "filtered" \/ ~MayConnect
    BY <1>0, <1>3, StepResult DEF BudgetInv
  <1>5. FilteredOnlyWhenSpent'
    <2> SUFFICES ASSUME NEW q \in Ports, state'[q] = "filtered"
                 PROVE  used' = Maximum \/ late'
      BY DEF FilteredOnlyWhenSpent
    <2>1. used = Maximum \/ late
      BY <1>0, <1>4, MaximumNat DEF MayConnect, BudgetInv, FilteredOnlyWhenSpent
    <2> QED
      BY <1>0, <1>1, <2>1, MaximumNat DEF MayConnect
  <1> QED
    BY <1>0, <1>1, <1>2, <1>4, <1>5 DEF BudgetInv

\* A step takes a permit when its task starts and gives it back when it ends.
LEMMA StepPermit ==
  ASSUME pc \in [Ports -> Places], NEW p \in Ports, PortStep(p)
  PROVE  /\ pc' \in [Ports -> Places] /\ \A q \in Ports \ {p} : pc'[q] = pc[q]
         /\ \/ pc[p] = "queued" /\ pc'[p] \in Between /\ permits > 0 /\ permits' = permits - 1
            \/ pc[p] \in Between /\ pc'[p] \in Between /\ permits' = permits
            \/ pc[p] \in Between /\ pc'[p] = "done" /\ permits' = permits + 1
PROOF
  <1> USE DEF Move, Return, Places, Between
  <1>1. CASE Acquire(p) \/ Admit(p) \/ Greet(p) \/ ProbeTls(p) \/ ProbeCertificate(p)
    BY <1>1 DEF Acquire, Admit, Greet, ProbeTls, ProbeCertificate
  <1>2. CASE ProbeVersion(p) \/ EndTls(p) \/ ProbeGeneric(p) \/ Classify(p)
    BY <1>2 DEF ProbeVersion, EndTls, ProbeGeneric, Classify
  <1>3. CASE Refuse(p) \/ Closed(p) \/ Enrich(p)
    BY <1>3 DEF Refuse, Closed, Enrich
  <1> QED
    BY <1>1, <1>2, <1>3 DEF PortStep

LEMMA StepPermits ==
  ASSUME PermitInv, NEW p \in Ports, PortStep(p)
  PROVE  PermitInv'
PROOF
  <1>1. /\ pc' \in [Ports -> Places] /\ \A q \in Ports \ {p} : pc'[q] = pc[q]
        /\ \/ pc[p] = "queued" /\ pc'[p] \in Between /\ permits > 0 /\ permits' = permits - 1
           \/ pc[p] \in Between /\ pc'[p] \in Between /\ permits' = permits
           \/ pc[p] \in Between /\ pc'[p] = "done" /\ permits' = permits + 1
    BY StepPermit DEF PermitInv
  <1>2. IsFiniteSet(Running) /\ Cardinality(Running) \in Nat
    BY PortScanAssumption, FS_Subset, FS_CardinalityType DEF Running
  <1>3. CASE pc[p] = "queued" /\ pc'[p] \in Between /\ permits > 0 /\ permits' = permits - 1
    <2>1. Running' = Running \cup {p} /\ p \notin Running
      BY <1>1, <1>3 DEF Running, Between
    <2>2. Cardinality(Running') = Cardinality(Running) + 1
      BY <1>2, <2>1, FS_AddElement
    <2>3. permits' \in Nat /\ permits' + Cardinality(Running') = AtLeastOne(Concurrency)
      BY <1>2, <1>3, <2>2 DEF PermitInv
    <2> QED
      BY <1>1, <2>3 DEF PermitInv
  <1>4. CASE pc[p] \in Between /\ pc'[p] \in Between /\ permits' = permits
    <2>1. Running' = Running
      BY <1>1, <1>4 DEF Running, Between
    <2> QED
      BY <1>1, <1>4, <2>1 DEF PermitInv
  <1>5. CASE pc[p] \in Between /\ pc'[p] = "done" /\ permits' = permits + 1
    <2>1. Running' = Running \ {p} /\ p \in Running
      BY <1>1, <1>5 DEF Running, Between
    <2>2. Cardinality(Running') = Cardinality(Running) - 1
      BY <1>2, <2>1, FS_RemoveElement
    <2>3. permits' \in Nat /\ permits' + Cardinality(Running') = AtLeastOne(Concurrency)
      BY <1>2, <1>5, <2>2 DEF PermitInv
    <2> QED
      BY <1>1, <2>3 DEF PermitInv
  <1> QED
    BY <1>1, <1>3, <1>4, <1>5

\* The invariant of the budget and of the permits.
LEMMA BudgetInvariant == Spec => [](BudgetInv /\ PermitInv)
PROOF
  <1>1. Init => PermitInv
    <2> SUFFICES ASSUME Init PROVE PermitInv
      OBVIOUS
    <2>1. Running = {}
      BY DEF Init, Running
    <2> QED
      BY <2>1, FS_EmptySet, PortScanAssumption DEF Init, PermitInv, Places, AtLeastOne
  <1>2. BudgetInv /\ PermitInv /\ [Next]_vars => BudgetInv' /\ PermitInv'
    <2> SUFFICES ASSUME BudgetInv, PermitInv, [Next]_vars PROVE BudgetInv' /\ PermitInv'
      OBVIOUS
    <2>1. ASSUME NEW p \in Ports, PortStep(p) PROVE BudgetInv' /\ PermitInv'
      BY <2>1, StepBudget, StepPermits
    <2>2. CASE PassDeadline \/ UNCHANGED vars
      BY <2>2 DEF PassDeadline, vars, budget, profile, BudgetInv, PermitInv, TypeInv, Connections,
                  Running, FilteredOnlyWhenSpent
    <2> QED
      BY <2>1, <2>2 DEF Next
  <1> QED
    BY <1>1, <1>2, InitBudget, PTL DEF Spec

\* Type correctness, with the concurrency: at any time the permits that are not
\* available are those of the tasks that run, on every way out of a task.
THEOREM TypeCorrect == Spec => []TypeOK
PROOF
  <1>1. BudgetInv /\ PermitInv => TypeOK
    BY MaximumNat DEF BudgetInv, PermitInv, TypeInv, TypeOK, Places
  <1> QED
    BY <1>1, BudgetInvariant, PTL

\* The host never sees more connections than the budget, whatever the number of
\* tasks, the order in which they reserve, and the paths they take.
THEOREM BudgetAlwaysRespected == Spec => []BudgetRespected
PROOF
  <1>1. BudgetInv /\ PermitInv => BudgetRespected
    BY DEF BudgetInv, BudgetRespected
  <1> QED
    BY <1>1, BudgetInvariant, PTL

\* A port is reported as filtered only when the budget is spent or the time is over.
THEOREM NoPortDropped == Spec => []FilteredOnlyWhenSpent
PROOF
  <1>1. BudgetInv /\ PermitInv => FilteredOnlyWhenSpent
    BY DEF BudgetInv
  <1> QED
    BY <1>1, BudgetInvariant, PTL

-----------------------------------------------------------------------------

\* Discovery: the names of a domain.

\* The names whose collection is over, whatever became of it.
Gathered == UNION {NamesOf(s) : s \in SourcesOf(mode) \ stages}

Shapes ==
  /\ sources = [passive |-> sources.passive, zone |-> sources.zone]
  /\ cache = [file |-> cache.file, names |-> cache.names, age |-> cache.age]
  /\ lastList = [names |-> lastList.names, age |-> lastList.age]
  /\ cache.age \in Nat /\ lastList.age \in Nat
  /\ scans \in Nat

\* A scan has the names of the sources behind it and nothing of those ahead.
CollectionInv ==
  /\ stages \subseteq StagesOf(mode)
  /\ "passive" \in stages => sources.passive = {}
  /\ "zone" \in stages => sources.zone = {}
  /\ stages # {} \/ asked # {} => hosts = Gathered
  /\ asked # {} => stages \subseteq {"probe"} /\ asked = {Fqdn(h) : h \in hosts}

CacheInv == CacheUsable => cache.names = lastList.names /\ cache.age = lastList.age

LookUpInv ==
  /\ wildcard \in {{}, WildcardAddresses}
  /\ found \subseteq asked
  /\ wildcard # {} => found \cap {n \in asked : n \notin DOMAIN Addresses} = {}

ProbedInv ==
  /\ stages # {} => probed = <<>>
  /\ \E n \in Nat : DOMAIN probed = 1 .. n
  /\ \A i \in DOMAIN probed : probed[i].host \in found

NamesInv ==
  /\ NamesTypeOK /\ Shapes
  /\ CollectionInv /\ CacheInv /\ LookUpInv /\ ProbedInv

-----------------------------------------------------------------------------

\* At a source no name was looked up yet.
LEMMA SourceFirst ==
  ASSUME NamesInv, NEW s \in {"passive", "bruteforce", "heuristic", "zone", "resolver"}, At(s)
  PROVE  asked = {} /\ stages # {}
BY DEF NamesInv, CollectionInv, At

\* At the look-ups no source is left, and behind them only the probes are.
LEMMA SourcesBehind ==
  ASSUME NamesInv, NEW s \in {"resolver", "wildcard", "lookup", "probe"}, At(s)
  PROVE  /\ SourcesOf(mode) \cap stages = {}
         /\ SourcesOf(mode) \ stages = SourcesOf(mode)
         /\ s = "wildcard" => stages \subseteq {"wildcard", "lookup", "probe"} /\ asked = {}
         /\ s = "lookup" => stages \subseteq {"lookup", "probe"} /\ asked = {}
         /\ s = "probe" => stages = {"probe"}
<1>1. stages \subseteq StagesOf(mode) /\ mode \in Modes
  BY DEF NamesInv, CollectionInv, NamesTypeOK
<1>2. \A t \in stages : Order[s] <= Order[t]
  BY DEF At
<1>3. /\ Order["passive"] = 1 /\ Order["bruteforce"] = 2 /\ Order["heuristic"] = 3
      /\ Order["zone"] = 4 /\ Order["resolver"] = 5 /\ Order["wildcard"] = 6
      /\ Order["lookup"] = 7 /\ Order["probe"] = 8
  BY DEF Order
<1>4. stages \cap {"passive", "bruteforce", "heuristic", "zone"} = {}
  BY <1>2, <1>3
<1>5. SourcesOf(mode) \subseteq {"passive", "bruteforce", "heuristic", "zone"}
  BY <1>1 DEF SourcesOf, Modes
<1>6. s = "wildcard" => stages \subseteq {"wildcard", "lookup", "probe"}
  BY <1>1, <1>2, <1>3, <1>4, <1>5 DEF StagesOf
<1>7. s = "lookup" => stages \subseteq {"lookup", "probe"}
  BY <1>1, <1>2, <1>3, <1>4, <1>5 DEF StagesOf
<1>8. s \in {"wildcard", "lookup"} => asked = {}
  BY DEF NamesInv, CollectionInv, At
<1>9. s = "probe" => stages = {"probe"}
  <2>1. s = "probe" => stages \subseteq {"probe"}
    BY <1>1, <1>2, <1>3, <1>4, <1>5 DEF StagesOf
  <2>2. s \in stages
    BY DEF At
  <2> QED
    BY <2>1, <2>2
<1> QED
  BY <1>4, <1>5, <1>6, <1>7, <1>8, <1>9

\* What a source gives joins what the others gave.
LEMMA SourceDone ==
  ASSUME NamesInv, NEW s \in {"passive", "bruteforce", "heuristic", "zone"}, At(s), Proceed(s),
         UNCHANGED mode, UNCHANGED asked,
         \A t \in {"passive", "bruteforce", "heuristic", "zone"} \ {s} : NamesOf(t)' = NamesOf(t),
         NEW names, names = NamesOf(s)', Collect(names),
         s # "passive" => sources'.passive = sources.passive,
         s # "zone" => sources'.zone = sources.zone
  PROVE  CollectionInv'
<1> DEFINE All == {"passive", "bruteforce", "heuristic", "zone"}
<1>1. mode \in Modes /\ mode' = mode /\ asked' = asked
  BY DEF NamesInv, NamesTypeOK
<1>2. asked = {} /\ stages # {} /\ s \in stages
  BY SourceFirst DEF At
<1>3. stages' = stages \ {s} /\ hosts' = hosts \cup NamesOf(s)'
  BY DEF Proceed, Collect
<1>4. SourcesOf(mode) \subseteq All /\ SourcesOf(mode)' = SourcesOf(mode)
  BY <1>1 DEF SourcesOf, Modes
<1>5. s \in SourcesOf(mode)
  BY <1>1, <1>2 DEF NamesInv, CollectionInv, StagesOf
<1>6. hosts = UNION {NamesOf(t) : t \in SourcesOf(mode) \ stages}
  BY <1>2 DEF NamesInv, CollectionInv, Gathered
<1>7. SourcesOf(mode) \ stages' = (SourcesOf(mode) \ stages) \cup {s}
  BY <1>3, <1>5, <1>2
<1>8. Gathered' = UNION {NamesOf(t)' : t \in SourcesOf(mode) \ stages'}
  BY <1>4 DEF Gathered
<1>9. \A t \in SourcesOf(mode) \ stages : NamesOf(t)' = NamesOf(t)
  BY <1>2, <1>4
<1>10. Gathered' = (UNION {NamesOf(t) : t \in SourcesOf(mode) \ stages}) \cup NamesOf(s)'
  <2> HIDE DEF All
  <2>1. \A x : x \in Gathered' <=> \E t \in (SourcesOf(mode) \ stages) \cup {s} : x \in NamesOf(t)'
    BY <1>7, <1>8
  <2>2. \A x : x \in Gathered' <=>
          \/ \E t \in SourcesOf(mode) \ stages : x \in NamesOf(t)
          \/ x \in NamesOf(s)'
    BY <2>1, <1>9
  <2> QED
    BY <2>2
<1>11. hosts' = Gathered'
  BY <1>3, <1>6, <1>10
<1>12. stages' \subseteq StagesOf(mode)'
  BY <1>1, <1>3 DEF NamesInv, CollectionInv, StagesOf
<1>13. /\ "passive" \in stages' => sources'.passive = {}
       /\ "zone" \in stages' => sources'.zone = {}
  BY <1>3 DEF NamesInv, CollectionInv
<1> QED
  BY <1>1, <1>2, <1>11, <1>12, <1>13 DEF CollectionInv

\* A step that leaves the names alone.
LEMMA CollectionKept ==
  ASSUME NamesInv, UNCHANGED <<mode, hosts, sources, asked>>,
         \/ stages' = stages
         \/ stages' = {} /\ asked = {}
         \/ \E s \in {"resolver", "wildcard", "probe"} : At(s) /\ stages' = stages \ {s}
  PROVE  CollectionInv'
<1>1. /\ mode' = mode /\ asked' = asked
      /\ \A s : NamesOf(s)' = NamesOf(s)
      /\ SourcesOf(mode)' = SourcesOf(mode) /\ StagesOf(mode)' = StagesOf(mode)
  BY DEF NamesOf, SourcesOf, StagesOf, WordNames, Heuristic
<1>2. CASE stages' = stages
  <2>1. Gathered' = Gathered
    BY <1>1, <1>2 DEF Gathered
  <2> QED
    BY <1>1, <1>2, <2>1 DEF NamesInv, CollectionInv
<1>3. CASE stages' = {} /\ asked = {}
  BY <1>1, <1>3 DEF CollectionInv
<1>4. CASE \E s \in {"resolver", "wildcard", "probe"} : At(s) /\ stages' = stages \ {s}
  <2>1. PICK s \in {"resolver", "wildcard", "probe"} : At(s) /\ stages' = stages \ {s}
    BY <1>4
  <2>2. SourcesOf(mode) \ stages' = SourcesOf(mode) \ stages
    BY <2>1, SourcesBehind
  <2>3. Gathered' = Gathered
    BY <1>1, <2>2 DEF Gathered
  <2>4. stages # {}
    BY <2>1 DEF At
  <2> QED
    BY <1>1, <2>1, <2>3, <2>4 DEF NamesInv, CollectionInv
<1> QED
  BY <1>2, <1>3, <1>4

-----------------------------------------------------------------------------

LEMMA ResultsKept ==
  ASSUME NamesInv, UNCHANGED <<wildcard, asked, found, probed>>, stages' \subseteq stages
  PROVE  LookUpInv' /\ ProbedInv'
BY DEF NamesInv, LookUpInv, ProbedInv

LEMMA CacheKept ==
  ASSUME NamesInv, UNCHANGED <<cache, lastList>>
  PROVE  CacheInv'
BY DEF NamesInv, CacheInv, CacheUsable

\* A name without an address of its own has those of the wildcard.
LEMMA WildcardIsNotAlive ==
  ASSUME wildcard = WildcardAddresses, wildcard # {}, NEW name, name \notin DOMAIN Addresses
  PROVE  ~IsAlive(name)
BY DEF IsAlive, AddressesOf

LEMMA LookUpKeeps ==
  ASSUME NamesInv, NEW unanswered \in SUBSET hosts, LookUp(unanswered)
  PROVE  NamesInv'
<1>1. At("lookup") /\ Proceed("lookup")
  BY DEF LookUp
<1>2. /\ asked' = {Fqdn(word) : word \in hosts}
      /\ found' = {name \in {Fqdn(word) : word \in hosts \ unanswered} : IsAlive(name)}
      /\ UNCHANGED <<mode, hosts, certAttempt, cache, scans, sources, lastList, wildcard, probed>>
  BY DEF LookUp, collected
<1>3. /\ SourcesOf(mode) \ stages = SourcesOf(mode) /\ SourcesOf(mode) \cap stages = {}
      /\ stages \subseteq {"lookup", "probe"} /\ asked = {} /\ stages # {}
  BY <1>1, SourcesBehind DEF At
<1>4. stages' \subseteq {"probe"} /\ stages' = stages \ {"lookup"}
  BY <1>1, <1>3 DEF Proceed
<1>5. CollectionInv'
  <2>1. /\ \A s : NamesOf(s)' = NamesOf(s)
        /\ SourcesOf(mode)' = SourcesOf(mode) /\ StagesOf(mode)' = StagesOf(mode)
    BY <1>2 DEF NamesOf, SourcesOf, StagesOf, WordNames, Heuristic
  <2>2. SourcesOf(mode) \ stages' = SourcesOf(mode) \ stages
    BY <1>3, <1>4
  <2>3. Gathered' = Gathered
    BY <2>1, <2>2 DEF Gathered
  <2>4. hosts = Gathered
    BY <1>3 DEF NamesInv, CollectionInv
  <2> QED
    BY <1>2, <1>4, <2>1, <2>3, <2>4 DEF NamesInv, CollectionInv
<1>6. CacheInv'
  BY <1>2, CacheKept
<1>7. found' \subseteq asked'
  BY <1>2
<1>8. LookUpInv'
  <2>1. wildcard # {} => wildcard = WildcardAddresses
    BY DEF NamesInv, LookUpInv
  <2>2. ASSUME wildcard # {}, NEW n \in found', n \notin DOMAIN Addresses PROVE FALSE
    BY <1>2, <2>1, <2>2, WildcardIsNotAlive
  <2> QED
    BY <1>2, <1>7, <2>2 DEF NamesInv, LookUpInv
<1>9. probed = <<>>
  BY <1>3 DEF NamesInv, ProbedInv
<1>10. ProbedInv'
  BY <1>2, <1>9 DEF NamesInv, ProbedInv
<1>11. NamesTypeOK' /\ Shapes'
  BY <1>2, <1>7, <1>9 DEF NamesInv, NamesTypeOK, Shapes
<1> QED
  BY <1>5, <1>6, <1>8, <1>10, <1>11 DEF NamesInv

LEMMA ProbeAllKeeps ==
  ASSUME NamesInv, NEW n \in Nat, NEW live \in [1 .. n -> found], NEW answers,
         ProbeAll(live, answers)
  PROVE  NamesInv'
<1>1. /\ At("probe") /\ Proceed("probe")
      /\ UNCHANGED <<mode, hosts, certAttempt, cache, scans, sources, lastList, wildcard, asked,
                     found>>
  BY DEF ProbeAll, collected
<1>2. DOMAIN probed' = 1 .. n /\ \A i \in 1 .. n : probed'[i].host = live[i]
  BY DEF ProbeAll
<1>3. stages' = {}
  BY <1>1, SourcesBehind DEF Proceed
<1>7. ProbedInv'
  BY <1>1, <1>2, <1>3 DEF ProbedInv
<1>8. CollectionInv'
  BY <1>1, CollectionKept DEF Proceed
<1>9. CacheInv'
  BY <1>1, CacheKept
<1>10. LookUpInv'
  BY <1>1 DEF NamesInv, LookUpInv
<1>11. NamesTypeOK' /\ Shapes'
  BY <1>1, <1>7 DEF NamesInv, NamesTypeOK, Shapes, ProbedInv
<1> QED
  BY <1>7, <1>8, <1>9, <1>10, <1>11 DEF NamesInv

-----------------------------------------------------------------------------

LEMMA NamesInitHolds ==
  NamesInit => NamesInv
<1> SUFFICES ASSUME NamesInit PROVE NamesInv
  OBVIOUS
<1>1. NamesTypeOK /\ Shapes
  BY DiscoveryAssumption DEF NamesInit, NamesTypeOK, Shapes
<1>2. CollectionInv
  <2>1. SourcesOf(mode) \ stages = {}
    BY DEF NamesInit, StagesOf
  <2> QED
    BY <2>1 DEF NamesInit, CollectionInv, Gathered
<1>3. CacheInv /\ LookUpInv
  BY DEF NamesInit, CacheInv, CacheUsable, LookUpInv
<1>4. DOMAIN probed = 1 .. 0
  BY DEF NamesInit
<1>5. ProbedInv
  BY <1>4 DEF NamesInit, ProbedInv
<1> QED
  BY <1>1, <1>2, <1>3, <1>5 DEF NamesInv

\* The actions of the CT logs.
LEMMA PassiveKeeps ==
  ASSUME NamesInv,
         \/ UseCache
         \/ RetryPassive
         \/ FailPassive
         \/ \E list \in CertLists, written \in BOOLEAN : FetchPassive(list, written)
         \/ \E list \in CertLists : CrashWriting(list)
  PROVE  NamesInv'
<1>1. /\ At("passive") /\ asked = {} /\ stages # {} /\ sources.passive = {}
      /\ UNCHANGED <<mode, wildcard, asked, found, probed, scans>>
  <2>1. At("passive") /\ UNCHANGED <<mode, wildcard, asked, found, probed, scans>>
    BY DEF UseCache, RetryPassive, FailPassive, FetchPassive, CrashWriting, later
  <2> QED
    BY <2>1, SourceFirst DEF NamesInv, CollectionInv, At
<1>2. CASE UseCache
  <2>1. CollectionInv'
    <3>1. NamesOf("passive")' = cache.names
      BY <1>2 DEF UseCache, NamesOf, NamesInv, Shapes
    <3>2. \A t \in {"bruteforce", "heuristic", "zone"} : NamesOf(t)' = NamesOf(t)
      BY <1>2 DEF UseCache, NamesOf, NamesInv, Shapes, WordNames, Heuristic
    <3>3. sources'.zone = sources.zone
      BY <1>2 DEF UseCache, NamesInv, Shapes
    <3> QED
      BY <1>1, <1>2, <3>1, <3>2, <3>3, SourceDone DEF UseCache
  <2>2. LookUpInv' /\ ProbedInv' /\ CacheInv'
    BY <1>1, <1>2, ResultsKept, CacheKept DEF UseCache, Proceed
  <2>3. NamesTypeOK' /\ Shapes'
    BY <1>1, <1>2 DEF UseCache, NamesInv, NamesTypeOK, Shapes
  <2> QED
    BY <2>1, <2>2, <2>3 DEF NamesInv
<1>3. CASE RetryPassive
  <2>1. CollectionInv'
    BY <1>1, <1>3, CollectionKept DEF RetryPassive
  <2>2. LookUpInv' /\ ProbedInv' /\ CacheInv'
    BY <1>1, <1>3, ResultsKept, CacheKept DEF RetryPassive
  <2>3. NamesTypeOK' /\ Shapes'
    BY <1>1, <1>3, DiscoveryAssumption DEF RetryPassive, NamesInv, NamesTypeOK, Shapes
  <2> QED
    BY <2>1, <2>2, <2>3 DEF NamesInv
<1>4. CASE FailPassive
  <2>1. CollectionInv'
    <3>1. NamesOf("passive")' = {}
      BY <1>1, <1>4 DEF FailPassive, NamesOf
    <3>2. \A t \in {"bruteforce", "heuristic", "zone"} : NamesOf(t)' = NamesOf(t)
      BY <1>4 DEF FailPassive, NamesOf, WordNames, Heuristic
    <3> QED
      BY <1>1, <1>4, <3>1, <3>2, SourceDone DEF FailPassive, Collect
  <2>2. LookUpInv' /\ ProbedInv' /\ CacheInv'
    BY <1>1, <1>4, ResultsKept, CacheKept DEF FailPassive, Proceed
  <2>3. NamesTypeOK' /\ Shapes'
    BY <1>1, <1>4 DEF FailPassive, NamesInv, NamesTypeOK, Shapes
  <2> QED
    BY <2>1, <2>2, <2>3 DEF NamesInv
<1>5. CASE \E list \in CertLists, written \in BOOLEAN : FetchPassive(list, written)
  <2> PICK list \in CertLists, written \in BOOLEAN : FetchPassive(list, written)
    BY <1>5
  <2> DEFINE names == Inside(list)
  <2>1. /\ Proceed("passive") /\ Collect(names) /\ ~CacheUsable
        /\ sources' = [sources EXCEPT !.passive = names]
        /\ lastList' = [names |-> names, age |-> 0]
        /\ cache' = IF written THEN [file |-> "whole", names |-> names, age |-> 0] ELSE cache
        /\ certAttempt' = certAttempt
    BY DEF FetchPassive
  <2> HIDE DEF names
  <2>2. CollectionInv'
    <3>1. NamesOf("passive")' = names
      BY <2>1 DEF NamesOf, NamesInv, Shapes
    <3>2. \A t \in {"bruteforce", "heuristic", "zone"} : NamesOf(t)' = NamesOf(t)
      BY <2>1 DEF NamesOf, NamesInv, Shapes, WordNames, Heuristic
    <3>3. sources'.zone = sources.zone
      BY <2>1 DEF NamesInv, Shapes
    <3> QED
      BY <1>1, <2>1, <3>1, <3>2, <3>3, SourceDone
  <2>3. LookUpInv' /\ ProbedInv'
    BY <1>1, <2>1, ResultsKept DEF Proceed
  <2>4. CacheInv'
    BY <2>1 DEF CacheInv, CacheUsable
  <2>5. NamesTypeOK' /\ Shapes'
    BY <1>1, <2>1 DEF NamesInv, NamesTypeOK, Shapes
  <2> QED
    BY <2>2, <2>3, <2>4, <2>5 DEF NamesInv
<1>6. CASE \E list \in CertLists : CrashWriting(list)
  <2> PICK list \in CertLists : CrashWriting(list)
    BY <1>6
  <2>1. CollectionInv'
    BY <1>1, CollectionKept DEF CrashWriting
  <2>2. LookUpInv' /\ ProbedInv'
    BY <1>1, ResultsKept DEF CrashWriting
  <2>3. CacheInv'
    BY DEF CrashWriting, CacheInv, CacheUsable
  <2>4. NamesTypeOK' /\ Shapes'
    BY <1>1 DEF CrashWriting, NamesInv, NamesTypeOK, Shapes
  <2> QED
    BY <2>1, <2>2, <2>3, <2>4 DEF NamesInv
<1> QED
  BY <1>2, <1>3, <1>4, <1>5, <1>6

\* The actions of the other sources.
LEMMA SourcesKeep ==
  ASSUME NamesInv,
         \/ CollectBruteforce
         \/ CollectHeuristic
         \/ \E records \in ZoneRecords : CollectZone(records)
         \/ Fail
         \/ CreateResolver
  PROVE  NamesInv'
<1>1. CASE CollectBruteforce
  <2>1. UNCHANGED <<mode, wildcard, asked, found, probed, scans, cache, lastList, sources, certAttempt>>
    BY <1>1 DEF CollectBruteforce, later
  <2>2. CollectionInv'
    <3>1. NamesOf("bruteforce")' = WordNames
      BY DEF NamesOf, WordNames
    <3>2. \A t \in {"passive", "heuristic", "zone"} : NamesOf(t)' = NamesOf(t)
      BY <2>1 DEF NamesOf, WordNames, Heuristic
    <3> QED
      BY <1>1, <2>1, <3>1, <3>2, SourceDone DEF CollectBruteforce
  <2>3. LookUpInv' /\ ProbedInv' /\ CacheInv'
    BY <1>1, <2>1, ResultsKept, CacheKept DEF CollectBruteforce, Proceed
  <2>4. NamesTypeOK' /\ Shapes'
    BY <2>1 DEF NamesInv, NamesTypeOK, Shapes
  <2> QED
    BY <2>2, <2>3, <2>4 DEF NamesInv
<1>2. CASE CollectHeuristic
  <2>1. UNCHANGED <<mode, wildcard, asked, found, probed, scans, cache, lastList, sources, certAttempt>>
    BY <1>2 DEF CollectHeuristic, later
  <2>2. CollectionInv'
    <3>1. NamesOf("heuristic")' = Heuristic
      BY DEF NamesOf, Heuristic
    <3>2. \A t \in {"passive", "bruteforce", "zone"} : NamesOf(t)' = NamesOf(t)
      BY <2>1 DEF NamesOf, WordNames, Heuristic
    <3> QED
      BY <1>2, <2>1, <3>1, <3>2, SourceDone DEF CollectHeuristic
  <2>3. LookUpInv' /\ ProbedInv' /\ CacheInv'
    BY <1>2, <2>1, ResultsKept, CacheKept DEF CollectHeuristic, Proceed
  <2>4. NamesTypeOK' /\ Shapes'
    BY <2>1 DEF NamesInv, NamesTypeOK, Shapes
  <2> QED
    BY <2>2, <2>3, <2>4 DEF NamesInv
<1>3. CASE \E records \in ZoneRecords : CollectZone(records)
  <2> PICK records \in ZoneRecords : CollectZone(records)
    BY <1>3
  <2> DEFINE names == Inside(records)
  <2>1. /\ At("zone") /\ Collect(names) /\ Proceed("zone")
        /\ sources' = [sources EXCEPT !.zone = names]
        /\ UNCHANGED <<mode, wildcard, asked, found, probed, scans, cache, lastList, certAttempt>>
    BY DEF CollectZone, later
  <2> HIDE DEF names
  <2>2. CollectionInv'
    <3>1. NamesOf("zone")' = names
      BY <2>1 DEF NamesOf, NamesInv, Shapes
    <3>2. \A t \in {"passive", "bruteforce", "heuristic"} : NamesOf(t)' = NamesOf(t)
      BY <2>1 DEF NamesOf, NamesInv, Shapes, WordNames, Heuristic
    <3>3. sources'.passive = sources.passive
      BY <2>1 DEF NamesInv, Shapes
    <3> QED
      BY <2>1, <3>1, <3>2, <3>3, SourceDone
  <2>3. LookUpInv' /\ ProbedInv' /\ CacheInv'
    BY <2>1, ResultsKept, CacheKept DEF Proceed
  <2>4. NamesTypeOK' /\ Shapes'
    BY <2>1 DEF NamesInv, NamesTypeOK, Shapes
  <2> QED
    BY <2>2, <2>3, <2>4 DEF NamesInv
<1>4. CASE Fail \/ CreateResolver
  <2>1. UNCHANGED <<mode, hosts, wildcard, asked, found, probed, scans, cache, lastList, sources,
                    certAttempt>>
    BY <1>4 DEF Fail, CreateResolver, later, collected
  <2>2. \/ stages' = {} /\ (At("bruteforce") \/ At("resolver"))
        \/ stages' = stages \ {"resolver"} /\ At("resolver")
    BY <1>4 DEF Fail, CreateResolver, Proceed
  <2>3. CollectionInv'
    BY <2>1, <2>2, SourceFirst, CollectionKept
  <2>4. LookUpInv' /\ ProbedInv' /\ CacheInv'
    BY <2>1, <2>2, ResultsKept, CacheKept
  <2>5. NamesTypeOK' /\ Shapes'
    BY <2>1 DEF NamesInv, NamesTypeOK, Shapes
  <2> QED
    BY <2>3, <2>4, <2>5 DEF NamesInv
<1> QED
  BY <1>1, <1>2, <1>3, <1>4

LEMMA WildcardKeeps ==
  ASSUME NamesInv, NEW answered \in BOOLEAN, DetectWildcard(answered)
  PROVE  NamesInv'
<1>1. /\ At("wildcard") /\ Proceed("wildcard")
      /\ wildcard' \in {{}, WildcardAddresses}
      /\ UNCHANGED <<mode, hosts, certAttempt, cache, scans, sources, lastList, asked, found,
                     probed>>
  BY DEF DetectWildcard, collected
<1>2. CollectionInv'
  BY <1>1, CollectionKept DEF Proceed
<1>3. CacheInv'
  BY <1>1, CacheKept
<1>4. found = {}
  BY <1>1, SourcesBehind DEF NamesInv, LookUpInv
<1>5. LookUpInv'
  BY <1>1, <1>4 DEF LookUpInv
<1>6. ProbedInv'
  BY <1>1 DEF NamesInv, ProbedInv, Proceed
<1>7. NamesTypeOK' /\ Shapes'
  BY <1>1 DEF NamesInv, NamesTypeOK, Shapes
<1> QED
  BY <1>2, <1>3, <1>5, <1>6, <1>7 DEF NamesInv

LEMMA NextScanKeeps ==
  ASSUME NamesInv, NEW hours \in {1, CacheHours}, NextScan(hours)
  PROVE  NamesInv'
<1>1. /\ mode' \in Modes /\ stages' = StagesOf(mode') /\ scans' = scans + 1
      /\ hosts' = {} /\ certAttempt' = 0 /\ wildcard' = {} /\ asked' = {} /\ found' = {}
      /\ probed' = <<>> /\ sources' = [passive |-> {}, zone |-> {}]
      /\ cache' = [cache EXCEPT !.age = @ + hours]
      /\ lastList' = [lastList EXCEPT !.age = @ + hours]
  BY DEF NextScan
<1>2. hours \in Nat
  BY DiscoveryAssumption
<1> DEFINE age == cache.age + hours
           listAge == lastList.age + hours
<1>3. /\ cache' = [file |-> cache.file, names |-> cache.names, age |-> age]
      /\ lastList' = [names |-> lastList.names, age |-> listAge]
      /\ age \in Nat /\ listAge \in Nat
  BY <1>1, <1>2 DEF NamesInv, Shapes
<1> HIDE DEF age, listAge
<1>9. NamesTypeOK' /\ Shapes'
  <2>1. NamesTypeOK'
    BY <1>1, <1>3, DiscoveryAssumption DEF NamesInv, NamesTypeOK
  <2>2. Shapes'
    BY <1>1, <1>3 DEF NamesInv, Shapes
  <2> QED
    BY <2>1, <2>2
<1>4. CollectionInv'
  <2>1. StagesOf(mode)' = StagesOf(mode') /\ SourcesOf(mode)' = SourcesOf(mode')
    BY DEF StagesOf, SourcesOf
  <2>2. SourcesOf(mode') \ stages' = {}
    BY <1>1 DEF StagesOf
  <2>3. Gathered' = {}
    BY <2>1, <2>2 DEF Gathered
  <2> QED
    BY <1>1, <2>1, <2>3 DEF CollectionInv
<1>5. CacheInv'
  <2>1. /\ cache'.file = cache.file /\ cache'.names = cache.names
        /\ cache'.age = cache.age + hours
        /\ lastList'.names = lastList.names /\ lastList'.age = lastList.age + hours
    BY <1>3 DEF age, listAge
  <2>2. CacheUsable' => CacheUsable
    BY <1>2, <2>1, DiscoveryAssumption DEF CacheUsable, NamesInv, Shapes
  <2> QED
    BY <2>1, <2>2 DEF NamesInv, CacheInv
<1>6. LookUpInv'
  BY <1>1 DEF LookUpInv
<1>7. DOMAIN probed' = 1 .. 0
  BY <1>1
<1>8. ProbedInv'
  <2>1. DOMAIN probed' = {}
    BY <1>7
  <2> QED
    BY <1>1, <1>7, <2>1 DEF ProbedInv
<1> QED
  BY <1>4, <1>5, <1>6, <1>8, <1>9 DEF NamesInv

LEMMA NamesNextKeeps ==
  ASSUME NamesInv, [NamesNext]_namingVars
  PROVE  NamesInv'
<1>1. CASE \/ UseCache
           \/ RetryPassive
           \/ FailPassive
           \/ \E list \in CertLists, written \in BOOLEAN : FetchPassive(list, written)
           \/ \E list \in CertLists : CrashWriting(list)
  BY <1>1, PassiveKeeps
<1>2. CASE \/ CollectBruteforce
           \/ CollectHeuristic
           \/ \E records \in ZoneRecords : CollectZone(records)
           \/ Fail
           \/ CreateResolver
  BY <1>2, SourcesKeep
<1>3. CASE \E answered \in BOOLEAN : DetectWildcard(answered)
  BY <1>3, WildcardKeeps
<1>4. CASE \E unanswered \in SUBSET hosts : LookUp(unanswered)
  BY <1>4, LookUpKeeps
<1>5. CASE \E n \in 0 .. Cardinality(found) :
             \E live \in {f \in [1 .. n -> found] : IsInjective(f)},
                answers \in [1 .. n -> ProbeAnswers] : ProbeAll(live, answers)
  <2> PICK n \in 0 .. Cardinality(found) :
        \E live \in {f \in [1 .. n -> found] : IsInjective(f)},
           answers \in [1 .. n -> ProbeAnswers] : ProbeAll(live, answers)
    BY <1>5
  <2>1. PICK live \in {f \in [1 .. n -> found] : IsInjective(f)},
             answers \in [1 .. n -> ProbeAnswers] : ProbeAll(live, answers)
    OBVIOUS
  <2>2. n \in Nat /\ live \in [1 .. n -> found]
    OBVIOUS
  <2> QED
    BY <2>1, <2>2, ProbeAllKeeps
<1>6. CASE \E hours \in {1, CacheHours} : NextScan(hours)
  BY <1>6, NextScanKeeps
<1>7. CASE UNCHANGED namingVars
  <2>1. UNCHANGED <<mode, stages, hosts, certAttempt, cache, wildcard, asked, found, probed, scans,
                    sources, lastList>>
    BY <1>7 DEF namingVars
  <2>2. CollectionInv' /\ LookUpInv' /\ ProbedInv' /\ CacheInv'
    BY <2>1, CollectionKept, ResultsKept, CacheKept
  <2>3. NamesTypeOK' /\ Shapes'
    BY <2>1 DEF NamesInv, NamesTypeOK, Shapes
  <2> QED
    BY <2>2, <2>3 DEF NamesInv
<1> QED
  BY <1>1, <1>2, <1>3, <1>4, <1>5, <1>6, <1>7 DEF NamesNext, NamesStep

LEMMA NamesInvFaithful ==
  NamesInv => DiscoveryFaithful
<1> SUFFICES ASSUME NamesInv PROVE DiscoveryFaithful
  OBVIOUS
<1>1. ASSUME asked # {}
      PROVE  hosts = UNION {NamesOf(s) : s \in SourcesOf(mode)}
  <2>1. hosts = Gathered /\ stages \subseteq {"probe"}
    BY <1>1 DEF NamesInv, CollectionInv
  <2>2. SourcesOf(mode) \ stages = SourcesOf(mode)
    BY <2>1 DEF SourcesOf, NamesInv, NamesTypeOK, Modes
  <2> QED
    BY <2>1, <2>2 DEF Gathered
<1> QED
  BY <1>1 DEF DiscoveryFaithful, NamesInv, CacheInv, LookUpInv

\* Whatever fails, however often a scan is killed while it writes the cache file
\* and however many scans follow each other, run_discovery has collected the names of
\* every source of its mode when it comes to the look-ups, its cache is the latest list
\* of crt.sh, and no name of a wildcard is a subdomain.
THEOREM DiscoveryAlwaysFaithful == NamesSpec => []DiscoveryFaithful
<1>1. NamesInit => NamesInv
  BY NamesInitHolds
<1>2. NamesInv /\ [NamesNext]_namingVars => NamesInv'
  BY NamesNextKeeps
<1>3. NamesInv => DiscoveryFaithful
  BY NamesInvFaithful
<1> QED
  BY <1>1, <1>2, <1>3, PTL DEF NamesSpec

\* The variables of run_discovery have their types.
THEOREM NamesTypeCorrect == NamesSpec => []NamesTypeOK
<1>1. NamesInit => NamesInv
  BY NamesInitHolds
<1>2. NamesInv /\ [NamesNext]_namingVars => NamesInv'
  BY NamesNextKeeps
<1>3. NamesInv => NamesTypeOK
  BY DEF NamesInv
<1> QED
  BY <1>1, <1>2, <1>3, PTL DEF NamesSpec

-----------------------------------------------------------------------------
\* ServiceProfile: the evidence of one port.

\* The pairs of Opposites, one by one.
Apart(signals) ==
  /\ ~("tls_supported" \in signals /\ "tls_not_supported" \in signals)
  /\ ~("nla_required" \in signals /\ "nla_not_required" \in signals)
  /\ ~("smb_signing_required" \in signals /\ "smb_signing_not_required" \in signals)
  /\ ~("starttls_supported" \in signals /\ "starttls_not_advertised" \in signals)
  /\ ~("publicly_routable" \in signals /\ "private_or_local" \in signals)
  /\ ~("auth_required" \in signals /\ "unauthenticated_command_accepted" \in signals)
  /\ ~("auth_required" \in signals /\ "unauthenticated_api_response" \in signals)
  /\ ~("auth_required" \in signals /\ "unauthenticated_database_listing" \in signals)
  /\ ~("passive_banner_only" \in signals /\ "unauthenticated_database_listing" \in signals)
  /\ ~("passive_banner_only" \in signals /\ "tls_detected" \in signals)

\* Signals that only the later steps give.
Later(signals) ==
  \/ "starttls_supported" \in signals \/ "starttls_not_advertised" \in signals
  \/ "unauthenticated_database_listing" \in signals \/ "anonymous_login_accepted" \in signals
  \/ "passive_banner_only" \in signals
  \/ "publicly_routable" \in signals \/ "private_or_local" \in signals

\* The signals of access that parsing, TLS and the default leave to a protocol.
Plain(proto, auth, signals, answer) ==
  /\ ~Later(signals)
  /\ Apart(signals)
  /\ "auth_required" \in signals =>
       /\ auth = TRUE
       /\ proto \in {"redis", "http", "https", "elasticsearch"}
       /\ proto = "elasticsearch" => "200 ok" \notin answer
  /\ "unauthenticated_command_accepted" \in signals => proto \in {"redis", "memcached"}
  /\ "unauthenticated_api_response" \in signals =>
       proto \in {"http", "https", "elasticsearch"} /\ auth = FALSE
  /\ "anonymous_connection_accepted" \in signals => proto = "mqtt" /\ auth = FALSE

OfTls(signals) == "tls_detected" \in signals \/ "tls_hostname_mismatch" \in signals

\* What there is of TLS has its evidence.
TlsShown(signals, seen, l) ==
  /\ "tls_detected" \in signals => seen # NoTls
  /\ "tls_hostname_mismatch" \in signals =>
       \A n \in seen.certificate.names : n.wildcard \/ n.labels # l.host

Evidences == {NoTls} \cup [legacy : BOOLEAN, certificate : Certificates \cup {NoCertificate}]

BeforeEnrich == {"greeting", "hello", "certificate", "versions", "generic", "default", "enrich"}

IsProfile(s) ==
  s = [protocol |-> s.protocol, auth |-> s.auth, signals |-> s.signals, handshake |-> s.handshake]

Nothing(s) == s.protocol = NoProtocol => s.signals = {} /\ s.auth = NotKnown

ServiceInv ==
  /\ listener \in Listeners
  /\ probing \in BeforeEnrich \cup {"categories", "done"}
  /\ evidence \in Evidences
  /\ IsProfile(service)
  /\ probing \in {"hello", "certificate", "versions", "generic"} => ~listener.passive
  /\ listener.passive => ~OfTls(service.signals)
  /\ probing \in {"greeting", "hello", "certificate", "versions", "generic"} =>
       ~OfTls(service.signals)
  /\ probing \in BeforeEnrich =>
       Plain(service.protocol, service.auth, service.signals, service.handshake)
  /\ probing \in BeforeEnrich \ {"enrich"} => Nothing(service)
  /\ TlsShown(service.signals, evidence, listener)
  /\ probing = "categories" => ~("publicly_routable" \in service.signals
                                 \/ "private_or_local" \in service.signals)
  /\ EvidenceConsistent

LEMMA OpToRelLess ==
  ASSUME NEW i \in Nat, NEW j \in Nat, ~(<<j, i>> \in OpToRel(<, Nat))
  PROVE  i <= j
  BY DEF OpToRel

LEMMA Elastic ==
  ASSUME NEW answer, ProtocolOf(answer) = "elasticsearch"
  PROVE  "port 9200" \in answer
<1> DEFINE Fits(i)  == \E m \in Recognised[i].marks : m \subseteq answer
           fitting  == {i \in DOMAIN Recognised : Fits(i)}
           at == CHOOSE i \in fitting : \A j \in fitting : i <= j
<1>1. DOMAIN Recognised = 1 .. 16
  BY DEF Recognised
<1>2. ASSUME fitting # {}
      PROVE  at \in 1 .. 16
  <2>1. fitting \subseteq Nat
    BY <1>1
  <2>2. PICK i \in fitting : \A j \in fitting : ~(<<j, i>> \in OpToRel(<, Nat))
    BY <1>2, <2>1, NatLessThanWellFounded, WFMin, Zenon
  <2>3. \A j \in fitting : i <= j
    BY <2>1, <2>2, OpToRelLess
  <2> HIDE DEF fitting
  <2>4. at \in fitting
    BY <2>3
  <2> QED BY <2>4, <1>1 DEF fitting
<1>3. \A i \in 1 .. 16 : Recognised[i].protocol # "elasticsearch"
  <2>1. \A i \in 1 .. 16 : i \in {1, 2, 3, 4, 5, 6, 7, 8} \/ i \in {9, 10, 11, 12, 13, 14, 15, 16}
    OBVIOUS
  <2>2. Recognised[1].protocol # "elasticsearch"
    BY DEF Recognised
  <2>3. Recognised[2].protocol # "elasticsearch"
    BY DEF Recognised
  <2>4. Recognised[3].protocol # "elasticsearch"
    BY DEF Recognised
  <2>5. Recognised[4].protocol # "elasticsearch"
    BY DEF Recognised
  <2>6. Recognised[5].protocol # "elasticsearch"
    BY DEF Recognised
  <2>7. Recognised[6].protocol # "elasticsearch"
    BY DEF Recognised
  <2>8. Recognised[7].protocol # "elasticsearch"
    BY DEF Recognised
  <2>9. Recognised[8].protocol # "elasticsearch"
    BY DEF Recognised
  <2>10. Recognised[9].protocol # "elasticsearch"
    BY DEF Recognised
  <2>11. Recognised[10].protocol # "elasticsearch"
    BY DEF Recognised
  <2>12. Recognised[11].protocol # "elasticsearch"
    BY DEF Recognised
  <2>13. Recognised[12].protocol # "elasticsearch"
    BY DEF Recognised
  <2>14. Recognised[13].protocol # "elasticsearch"
    BY DEF Recognised
  <2>15. Recognised[14].protocol # "elasticsearch"
    BY DEF Recognised
  <2>16. Recognised[15].protocol # "elasticsearch"
    BY DEF Recognised
  <2>17. Recognised[16].protocol # "elasticsearch"
    BY DEF Recognised
  <2> QED BY <2>1, <2>2, <2>3, <2>4, <2>5, <2>6, <2>7, <2>8, <2>9, <2>10, <2>11, <2>12, <2>13, <2>14, <2>15, <2>16, <2>17
<1>4. CASE fitting = {}
  BY <1>4, ServiceAssumption DEF ProtocolOf
<1>5. CASE fitting # {}
  <2>1. Recognised[at].protocol # "elasticsearch"
    BY <1>2, <1>3, <1>5
  <2>2. ProtocolOf(answer) = IF Recognised[at].protocol = "http" /\ {"port 9200", "elastic"} \subseteq answer THEN "elasticsearch"
      ELSE Recognised[at].protocol
    BY <1>5 DEF ProtocolOf
  <2> QED BY <2>1, <2>2
<1> QED BY <1>4, <1>5

LEMMA OppositesApart ==
  ASSUME NEW signals
  PROVE  (\A pair \in Opposites : ~(pair \subseteq signals)) <=> Apart(signals)
<1>1. \A x, y : ({x, y} \subseteq signals) <=> (x \in signals /\ y \in signals)
  OBVIOUS
<1> QED BY <1>1 DEF Opposites, Apart

LEMMA Booleans ==
  ASSUME NEW a, NEW b \in BOOLEAN, a = b
  PROVE  (b => a = TRUE) /\ (~b => a = FALSE)
  BY Zenon

LEMMA ParsePlain ==
  ASSUME NEW answer
  PROVE  /\ IsProfile(Parse(answer))
         /\ Plain(Parse(answer).protocol, Parse(answer).auth, Parse(answer).signals,
                  Parse(answer).handshake)
         /\ ~OfTls(Parse(answer).signals)
         /\ Nothing(Parse(answer))
<1> DEFINE p == ProtocolOf(answer)
<1>0. p = "elasticsearch" => "port 9200" \in answer
  BY Elastic
<1>1. Parse(answer) = [protocol |-> p, auth |-> AuthOf(p, answer),
       signals |-> SignalsOf(p, answer), handshake |-> answer]
  BY DEF Parse
<1> HIDE DEF p
<1> DEFINE signals == SignalsOf(p, answer)
           auth    == AuthOf(p, answer)
           Goal == /\ Plain(p, auth, signals, answer)
                   /\ ~OfTls(signals)
                   /\ p = NoProtocol => signals = {} /\ auth = NotKnown
<1>a. SUFFICES Goal
  BY <1>1 DEF IsProfile, Nothing
<1>2. CASE p = "redis"
  <2>1. signals = Either("+pong" \in answer, "unauthenticated_command_accepted",
                "noauth" \in answer, "auth_required")
    BY <1>2 DEF SignalsOf
  <2>2. auth = ("noauth" \in answer)
    BY <1>2 DEF AuthOf
  <2>3. p # NoProtocol
    BY <1>2, ServiceAssumption
  <2> HIDE DEF signals, auth
  <2>4. CASE "+pong" \in answer
    <3>1. signals = {"unauthenticated_command_accepted"}
      BY <2>1, <2>4 DEF Either
    <3> QED BY <3>1, <1>2, <2>3 DEF Plain, Later, Apart, OfTls
  <2>5. CASE "+pong" \notin answer /\ "noauth" \in answer
    <3>1. signals = {"auth_required"}
      BY <2>1, <2>5 DEF Either
    <3>2. auth = TRUE
      BY <2>2, <2>5, Booleans, Zenon
    <3> QED BY <3>1, <3>2, <1>2, <2>3 DEF Plain, Later, Apart, OfTls
  <2>6. CASE "+pong" \notin answer /\ "noauth" \notin answer
    <3>1. signals = {}
      BY <2>1, <2>6 DEF Either
    <3> QED BY <3>1, <1>2, <2>3 DEF Plain, Later, Apart, OfTls
  <2> QED BY <2>4, <2>5, <2>6
<1>3. CASE p = "mqtt"
  <2>1. signals = Either("refused" \notin answer /\ "accepted" \in answer,
                         "anonymous_connection_accepted", FALSE, "")
    BY <1>3 DEF SignalsOf
  <2>3. p # NoProtocol
    BY <1>3, ServiceAssumption
  <2> HIDE DEF signals, auth
  <2>4. CASE "refused" \notin answer /\ "accepted" \in answer
    <3>1. signals = {"anonymous_connection_accepted"}
      BY <2>1, <2>4 DEF Either
    <3>2. auth = FALSE
      <4>1. "accepted" \in answer \cap {"accepted", "refused"}
        BY <2>4
      <4>2. answer \cap {"accepted", "refused"} # {}
        BY <4>1
      <4> DEFINE c == answer \cap {"accepted", "refused"}
                 r == "refused" \in answer
      <4>3. AuthOf("mqtt", answer) = (CASE c # {} -> r [] OTHER -> NotKnown)
        BY DEF AuthOf
      <4>4. r = FALSE
        BY <2>4
      <4> HIDE DEF c, r
      <4> QED BY <1>3, <4>2, <4>3, <4>4 DEF auth, c
    <3> QED BY <3>1, <3>2, <1>3, <2>3 DEF Plain, Later, Apart, OfTls
  <2>5. CASE ~("refused" \notin answer /\ "accepted" \in answer)
    <3>1. signals = {}
      BY <2>1, <2>5 DEF Either
    <3> QED BY <3>1, <1>3, <2>3 DEF Plain, Later, Apart, OfTls
  <2> QED BY <2>4, <2>5
<1>4. CASE p \in {"http", "elasticsearch"} /\ "port 9200" \in answer
  <2>1. signals = Either("200 ok" \in answer, "unauthenticated_api_response",
                         "401" \in answer, "auth_required")
    BY <1>4 DEF SignalsOf
  <2>2. answer \cap {"200 ok", "401"} # {} => auth = ("200 ok" \notin answer)
    BY <1>4 DEF AuthOf
  <2>3. p # NoProtocol
    BY <1>4, ServiceAssumption
  <2> HIDE DEF signals, auth
  <2>4. CASE "200 ok" \in answer
    <3>1. signals = {"unauthenticated_api_response"}
      BY <2>1, <2>4 DEF Either
    <3>2. auth = ("200 ok" \notin answer)
      BY <2>2, <2>4
    <3>3. auth = FALSE
      BY <3>2, <2>4, Booleans, Zenon
    <3> QED BY <3>1, <3>3, <1>4, <2>3 DEF Plain, Later, Apart, OfTls
  <2>5. CASE "200 ok" \notin answer /\ "401" \in answer
    <3>1. signals = {"auth_required"}
      BY <2>1, <2>5 DEF Either
    <3>2. auth = ("200 ok" \notin answer)
      BY <2>2, <2>5
    <3>3. auth = TRUE
      BY <3>2, <2>5, Booleans, Zenon
    <3> QED BY <3>1, <3>3, <1>4, <2>3, <2>5 DEF Plain, Later, Apart, OfTls
  <2>6. CASE "200 ok" \notin answer /\ "401" \notin answer
    <3>1. signals = {}
      BY <2>1, <2>6 DEF Either
    <3> QED BY <3>1, <1>4, <2>3 DEF Plain, Later, Apart, OfTls
  <2> QED BY <2>4, <2>5, <2>6
<1>5. CASE p \notin {"redis", "mqtt"} /\ ~(p \in {"http", "elasticsearch"} /\ "port 9200" \in answer)
  <2>1. signals \in {{}, {"unauthenticated_command_accepted"}, {"tls_supported"}, {"tls_not_supported"},
                     {"auth_exchange_available"},
                     {"auth_exchange_available", "tls_supported"},
                     {"auth_exchange_available", "tls_not_supported"}, {"startup_rejected"},
                     {"nla_required"}, {"nla_not_required"}, {"smb_signing_required"},
                     {"smb_signing_not_required"}}
    BY <1>5 DEF SignalsOf, Either
  <2>2. signals = {"unauthenticated_command_accepted"} => p = "memcached"
    BY <1>5 DEF SignalsOf, Either
  <2>3. p = NoProtocol => signals = {} /\ auth = NotKnown
    BY <1>5, ServiceAssumption DEF SignalsOf, AuthOf
  <2> HIDE DEF signals, auth
  <2>4. /\ "auth_required" \notin signals
        /\ "unauthenticated_api_response" \notin signals
        /\ "anonymous_connection_accepted" \notin signals
        /\ ~OfTls(signals)
        /\ ~Later(signals)
        /\ Apart(signals)
    BY <2>1 DEF Later, Apart, OfTls
  <2>5. "unauthenticated_command_accepted" \in signals => p = "memcached"
    BY <2>1, <2>2
  <2> QED BY <2>3, <2>4, <2>5 DEF Plain
<1> HIDE DEF signals, auth, Goal
<1> QED BY <1>2, <1>3, <1>4, <1>5

\* A certificate that matches no name says so of the names themselves.
LEMMA TlsSignalsShown ==
  ASSUME NEW l, NEW seen \in Evidences, seen # NoTls,
         NEW x, x \in TlsSignals(seen, l.host)
  PROVE  /\ x \in {"tls_detected", "legacy_tls_accepted", "tls_self_signed", "tls_hostname_mismatch",
                   "tls_weak_signature", "tls_certificate_expired"}
         /\ x = "tls_hostname_mismatch" =>
              \A n \in seen.certificate.names : n.wildcard \/ n.labels # l.host
<1>1. x \in {"tls_detected", "legacy_tls_accepted", "tls_self_signed", "tls_hostname_mismatch",
             "tls_weak_signature", "tls_certificate_expired"}
  BY DEF TlsSignals, CertificateSignals, Either
<1>2. ASSUME x = "tls_hostname_mismatch", NEW n \in seen.certificate.names
      PROVE  n.wildcard \/ n.labels # l.host
  <2>1. seen.certificate # NoCertificate /\ ~HostMatches(l.host, n)
    BY <1>2 DEF TlsSignals, CertificateSignals, Either
  <2> QED BY <2>1 DEF HostMatches
<1> QED BY <1>1, <1>2

LEMMA ServiceInitInv == ServiceInit => ServiceInv
<1> SUFFICES ASSUME ServiceInit PROVE ServiceInv
  OBVIOUS
<1>1. /\ service.signals = {} /\ service.protocol = NoProtocol /\ service.auth = NotKnown
      /\ IsProfile(service)
  BY DEF ServiceInit, Blank, IsProfile
<1>2. /\ listener \in Listeners /\ probing = "greeting" /\ evidence \in Evidences
  BY DEF ServiceInit, Evidences
<1>3. Apart(service.signals) /\ ~OfTls(service.signals) /\ ~Later(service.signals)
  BY <1>1 DEF Apart, OfTls, Later
<1>4. Plain(service.protocol, service.auth, service.signals, service.handshake)
  BY <1>1, <1>3 DEF Plain
<1>5. EvidenceConsistent
  BY <1>1, <1>3, OppositesApart DEF EvidenceConsistent
<1> QED BY <1>1, <1>2, <1>3, <1>4, <1>5 DEF ServiceInv, BeforeEnrich, Nothing, TlsShown, OfTls

\* Before the extra connection nothing can contradict itself.
LEMMA PlainConsistent ==
  ASSUME Plain(service.protocol, service.auth, service.signals, service.handshake),
         TlsShown(service.signals, evidence, listener)
  PROVE  EvidenceConsistent
<1>1. \A pair \in Opposites : ~(pair \subseteq service.signals)
  BY OppositesApart DEF Plain
<1>2. /\ "unauthenticated_database_listing" \notin service.signals
      /\ "anonymous_login_accepted" \notin service.signals
  BY DEF Plain, Later
<1>3. service.auth = TRUE => service.signals \cap {"unauthenticated_api_response",
        "unauthenticated_database_listing", "anonymous_connection_accepted"} = {}
  BY <1>2 DEF Plain
<1>4. service.auth = FALSE => "auth_required" \notin service.signals
  BY DEF Plain
<1> QED BY <1>1, <1>2, <1>3, <1>4 DEF EvidenceConsistent, TlsShown

\* What any step before the extra connection has to show.
LEMMA StepBefore ==
  ASSUME listener' \in Listeners, probing' \in BeforeEnrich, evidence' \in Evidences,
         IsProfile(service'),
         probing' \in {"hello", "certificate", "versions", "generic"} => ~listener'.passive,
         listener'.passive => ~OfTls(service'.signals),
         probing' \in {"greeting", "hello", "certificate", "versions", "generic"} =>
           ~OfTls(service'.signals),
         Plain(service'.protocol, service'.auth, service'.signals, service'.handshake),
         probing' # "enrich" => Nothing(service'),
         TlsShown(service'.signals, evidence', listener')
  PROVE  ServiceInv'
<1>1. EvidenceConsistent'
  <2>1. \A pair \in Opposites : ~(pair \subseteq service'.signals)
    BY OppositesApart DEF Plain
  <2>2. /\ "unauthenticated_database_listing" \notin service'.signals
        /\ "anonymous_login_accepted" \notin service'.signals
    BY DEF Plain, Later
  <2>3. service'.auth = TRUE => service'.signals \cap {"unauthenticated_api_response",
          "unauthenticated_database_listing", "anonymous_connection_accepted"} = {}
    BY <2>2 DEF Plain
  <2>4. service'.auth = FALSE => "auth_required" \notin service'.signals
    BY DEF Plain
  <2> QED BY <2>1, <2>2, <2>3, <2>4 DEF EvidenceConsistent, TlsShown
<1> QED BY <1>1 DEF ServiceInv, BeforeEnrich

LEMMA ReadGreetingInv == ServiceInv /\ ReadGreeting => ServiceInv'
<1> SUFFICES ASSUME ServiceInv, ReadGreeting PROVE ServiceInv'
  OBVIOUS
<1>1. PICK bytes \in Greetings : service' = Parse(Heard(listener.port, bytes))
  BY DEF ReadGreeting
<1>2. /\ IsProfile(service')
      /\ Plain(service'.protocol, service'.auth, service'.signals, service'.handshake)
      /\ ~OfTls(service'.signals) /\ Nothing(service')
  BY <1>1, ParsePlain
<1>3. /\ listener' = listener /\ evidence' = evidence
      /\ probing' \in {"default", "hello"} /\ (probing' = "hello" => ~listener.passive)
  BY DEF ReadGreeting, MoveOn
<1>4. TlsShown(service'.signals, evidence', listener')
  BY <1>2 DEF TlsShown, OfTls
<1>5. probing' \in BeforeEnrich
  BY <1>3 DEF BeforeEnrich
<1> QED BY <1>2, <1>3, <1>4, <1>5, StepBefore DEF ServiceInv

LEMMA ProbesInv == ServiceInv /\ (ProbeHello \/ ReadCertificate) => ServiceInv'
<1> SUFFICES ASSUME ServiceInv, ProbeHello \/ ReadCertificate PROVE ServiceInv'
  OBVIOUS
<1>1. /\ probing \in {"hello", "certificate"} /\ probing' \in {"certificate", "versions"}
      /\ listener' = listener /\ service' = service
  BY DEF ProbeHello, ReadCertificate, MoveOn
<1>2. evidence' \in Evidences
  BY DEF ProbeHello, ReadCertificate, Evidences, ServiceInv
<1>3. ~OfTls(service.signals) /\ ~listener.passive /\ Nothing(service)
  BY <1>1 DEF ServiceInv, BeforeEnrich
<1>4. TlsShown(service'.signals, evidence', listener')
  BY <1>1, <1>3 DEF TlsShown, OfTls
<1>5. probing' \in BeforeEnrich
  BY <1>1 DEF BeforeEnrich
<1> QED BY <1>1, <1>2, <1>3, <1>4, <1>5, StepBefore DEF ServiceInv, BeforeEnrich

LEMMA ProbeVersionsInv == ServiceInv /\ ProbeVersions => ServiceInv'
<1> SUFFICES ASSUME ServiceInv, ProbeVersions PROVE ServiceInv'
  OBVIOUS
<1>1. /\ probing = "versions" /\ listener' = listener
      /\ probing' = (IF service.protocol = NoProtocol /\ evidence = NoTls
                     THEN "generic" ELSE "default")
      /\ service' = AfterTls(service, evidence', listener.host)
  BY DEF ProbeVersions, MoveOn
<1>2. evidence' \in Evidences /\ (evidence' = NoTls <=> evidence = NoTls)
  <2>1. CASE evidence' = evidence
    BY <2>1 DEF ServiceInv
  <2>2. CASE evidence # NoTls /\ evidence' = [evidence EXCEPT !.legacy = TRUE]
    <3>1. evidence \in [legacy : BOOLEAN, certificate : Certificates \cup {NoCertificate}]
      BY <2>2 DEF ServiceInv, Evidences
    <3>2. evidence' \in [legacy : BOOLEAN, certificate : Certificates \cup {NoCertificate}]
      BY <2>2, <3>1
    <3> QED BY <2>2, <3>2, ServiceAssumption DEF Evidences
  <2> QED BY <2>1, <2>2 DEF ProbeVersions
<1>3. ~OfTls(service.signals) /\ ~listener.passive /\ Nothing(service) /\ IsProfile(service)
  BY <1>1 DEF ServiceInv, BeforeEnrich
<1>4. Plain(service.protocol, service.auth, service.signals, service.handshake)
  BY <1>1 DEF ServiceInv, BeforeEnrich
<1>5. CASE evidence' = NoTls
  <2>1. service' = service /\ probing' \in {"generic", "default"}
    BY <1>1, <1>5 DEF AfterTls
  <2>2. TlsShown(service'.signals, evidence', listener')
    BY <2>1, <1>3 DEF TlsShown, OfTls
  <2>3. probing' \in BeforeEnrich
    BY <2>1 DEF BeforeEnrich
  <2> QED BY <1>1, <1>2, <1>3, <1>4, <2>1, <2>2, <2>3, StepBefore DEF ServiceInv
<1>6. CASE evidence' # NoTls
  <2> DEFINE s == TlsSignals(evidence', listener.host)
             p == IF service.protocol \in {NoProtocol, "http"} THEN "https" ELSE service.protocol
  <2>1. /\ service'.protocol = p /\ service'.auth = service.auth
        /\ service'.signals = service.signals \cup s /\ service'.handshake = service.handshake
        /\ IsProfile(service')
    BY <1>1, <1>3, <1>6 DEF AfterTls, IsProfile
  <2>2. \A x \in s : /\ x \in {"tls_detected", "legacy_tls_accepted", "tls_self_signed",
                               "tls_hostname_mismatch", "tls_weak_signature",
                               "tls_certificate_expired"}
                     /\ x = "tls_hostname_mismatch" =>
                          \A n \in evidence'.certificate.names : n.wildcard \/ n.labels # listener.host
    BY <1>2, <1>6, TlsSignalsShown
  <2> HIDE DEF s
  <2>3. Plain(service'.protocol, service'.auth, service'.signals, service'.handshake)
    <3>1. \A x : x \in service'.signals <=> x \in service.signals \/ x \in s
      BY <2>1
    <3>2. ~Later(service'.signals)
      BY <1>4, <2>2, <3>1 DEF Plain, Later
    <3>3. Apart(service'.signals)
      <4>1. \A x \in {"tls_supported", "tls_not_supported", "nla_required", "nla_not_required",
                      "smb_signing_required", "smb_signing_not_required", "starttls_supported",
                      "starttls_not_advertised", "publicly_routable", "private_or_local",
                      "auth_required", "unauthenticated_command_accepted",
                      "unauthenticated_api_response", "unauthenticated_database_listing",
                      "passive_banner_only"} :
              x \in service'.signals => x \in service.signals
        BY <2>2, <3>1
      <4>2. Apart(service.signals) /\ "passive_banner_only" \notin service.signals
        BY <1>4 DEF Plain, Later
      <4> QED BY <4>1, <4>2 DEF Apart
    <3>4. \A x \in {"auth_required", "unauthenticated_command_accepted",
                    "unauthenticated_api_response", "anonymous_connection_accepted"} :
            x \in service'.signals => x \in service.signals
      BY <2>2, <3>1
    <3>5. service.signals # {} => service.protocol # NoProtocol
      BY <1>3 DEF Nothing
    <3>6. service.protocol \in {"redis", "memcached", "mqtt", "https", "elasticsearch"} => p = service.protocol
      BY ServiceAssumption
    <3>7. service.protocol = "http" => p = "https"
      OBVIOUS
    <3> HIDE DEF p
    <3> QED BY <1>4, <2>1, <3>2, <3>3, <3>4, <3>5, <3>6, <3>7 DEF Plain
  <2>4. TlsShown(service'.signals, evidence', listener')
    BY <1>1, <1>3, <1>6, <2>1, <2>2 DEF TlsShown, OfTls
  <2>5. Nothing(service')
    BY <2>1, ServiceAssumption DEF Nothing
  <2>6. probing' = "default"
    BY <1>1, <1>2, <1>6
  <2> QED BY <1>1, <1>2, <1>3, <2>1, <2>3, <2>4, <2>5, <2>6, StepBefore DEF ServiceInv, BeforeEnrich
<1> QED BY <1>5, <1>6

LEMMA IdentifyGenericInv == ServiceInv /\ IdentifyGeneric => ServiceInv'
<1> SUFFICES ASSUME ServiceInv, IdentifyGeneric PROVE ServiceInv'
  OBVIOUS
<1>1. /\ probing = "generic" /\ probing' = "default" /\ listener' = listener /\ evidence' = evidence
  BY DEF IdentifyGeneric, MoveOn
<1>2. ~listener.passive
  BY <1>1 DEF ServiceInv
<1>3. /\ IsProfile(service')
      /\ Plain(service'.protocol, service'.auth, service'.signals, service'.handshake)
      /\ ~OfTls(service'.signals) /\ Nothing(service')
  <2>1. CASE service' = service
    BY <1>1, <2>1 DEF ServiceInv, BeforeEnrich
  <2>2. ASSUME NEW bytes \in Greetings, service' = Parse(Heard(listener.port, bytes))
        PROVE  /\ IsProfile(service')
               /\ Plain(service'.protocol, service'.auth, service'.signals, service'.handshake)
               /\ ~OfTls(service'.signals) /\ Nothing(service')
    BY <2>2, ParsePlain
  <2> QED BY <2>1, <2>2 DEF IdentifyGeneric
<1>4. TlsShown(service'.signals, evidence', listener')
  BY <1>3 DEF TlsShown, OfTls
<1> QED BY <1>1, <1>2, <1>3, <1>4, StepBefore DEF ServiceInv, BeforeEnrich

LEMMA AssumeDefaultInv == ServiceInv /\ AssumeDefault => ServiceInv'
<1> SUFFICES ASSUME ServiceInv, AssumeDefault PROVE ServiceInv'
  OBVIOUS
<1>1. /\ probing = "default" /\ probing' = "enrich" /\ listener' = listener /\ evidence' = evidence
      /\ service' = [service EXCEPT !.protocol = IF @ = NoProtocol THEN ServiceOfPort[listener.port] ELSE @]
  BY DEF AssumeDefault, MoveOn
<1>2. /\ IsProfile(service) /\ Nothing(service)
      /\ Plain(service.protocol, service.auth, service.signals, service.handshake)
  BY <1>1 DEF ServiceInv, BeforeEnrich
<1>3. /\ service'.auth = service.auth /\ service'.signals = service.signals
      /\ service'.handshake = service.handshake /\ IsProfile(service')
      /\ service.protocol # NoProtocol => service'.protocol = service.protocol
  BY <1>1, <1>2 DEF IsProfile
<1>4. Plain(service'.protocol, service'.auth, service'.signals, service'.handshake)
  BY <1>2, <1>3 DEF Plain, Nothing
<1>5. ~(listener.passive /\ OfTls(service'.signals)) /\ TlsShown(service'.signals, evidence', listener')
  BY <1>1, <1>3 DEF ServiceInv
<1> QED BY <1>1, <1>3, <1>4, <1>5, StepBefore DEF ServiceInv, BeforeEnrich

\* What the extra connection adds, by the protocol that it is made for.
LEMMA EnrichedAdds ==
  ASSUME NEW s, NEW reply, NEW l \in Listeners, IsProfile(s),
         Plain(s.protocol, s.auth, s.signals, s.handshake),
         NEW t, \E reserved \in BOOLEAN : t = Enriched(s, reserved, reply, l.risky)
  PROVE  /\ IsProfile(t)
         /\ Apart(t.signals)
         /\ \A x \in {"passive_banner_only", "publicly_routable", "private_or_local",
                      "tls_detected", "tls_hostname_mismatch"} :
              x \in t.signals => x \in s.signals
         /\ t.auth = TRUE => t.signals \cap {"unauthenticated_api_response",
              "unauthenticated_database_listing", "anonymous_connection_accepted"} = {}
         /\ t.auth = FALSE => "auth_required" \notin t.signals
         /\ "anonymous_login_accepted" \in t.signals => l.risky
<1> DEFINE Goal == /\ IsProfile(t)
                   /\ Apart(t.signals)
                   /\ \A x \in {"passive_banner_only", "publicly_routable", "private_or_local",
                                "tls_detected", "tls_hostname_mismatch"} :
                        x \in t.signals => x \in s.signals
                   /\ t.auth = TRUE =>
                        /\ "unauthenticated_api_response" \notin t.signals
                        /\ "unauthenticated_database_listing" \notin t.signals
                        /\ "anonymous_connection_accepted" \notin t.signals
                   /\ t.auth = FALSE => "auth_required" \notin t.signals
                   /\ "anonymous_login_accepted" \in t.signals => l.risky
<1> SUFFICES Goal
  OBVIOUS
<1> PICK reserved \in BOOLEAN : t = Enriched(s, reserved, reply, l.risky)
  OBVIOUS
<1>0. ~Later(s.signals) /\ Apart(s.signals)
  BY DEF Plain
<1>1. CASE s.protocol = "postgresql" /\ reserved
  <2> DEFINE more == IF "R" \in reply THEN {"auth_exchange_available"}
                     ELSE IF "error" \notin reply THEN {}
                     ELSE Either("pg_hba" \in reply, "pg_hba_rejected", TRUE, "startup_rejected")
  <2>1. t = [s EXCEPT !.auth = IF "R" \in reply THEN TRUE ELSE @, !.signals = @ \cup more]
    BY <1>1 DEF Enriched
  <2>2. /\ IsProfile(t) /\ t.signals = s.signals \cup more
        /\ t.auth \in {TRUE, s.auth}
    BY <2>1 DEF IsProfile
  <2>3. \A x \in more : x \in {"auth_exchange_available", "pg_hba_rejected", "startup_rejected"}
    BY DEF Either
  <2> HIDE DEF more
  <2>4. "auth_required" \notin s.signals /\ "unauthenticated_api_response" \notin s.signals
        /\ "anonymous_connection_accepted" \notin s.signals
    BY <1>1 DEF Plain
  <2>5. \A x : x \in t.signals <=> x \in s.signals \/ x \in more
    BY <2>2
  <2>6. Apart(t.signals)
    BY <1>0, <2>3, <2>5 DEF Apart
  <2> QED BY <1>0, <2>2, <2>3, <2>4, <2>5, <2>6 DEF Later
<1>2. CASE s.protocol = "smtp" /\ reserved
  <2> DEFINE more == {"smtp_banner_exposed"} \cup
            IF reply = {} THEN {}
            ELSE Either("starttls" \in reply, "starttls_supported", TRUE, "starttls_not_advertised")
                 \cup Either("relay" \in reply, "open_relay_no_delivery_accepted", FALSE, "")
  <2>1. t = [s EXCEPT !.signals = @ \cup more]
    BY <1>2 DEF Enriched
  <2>2. IsProfile(t) /\ t.signals = s.signals \cup more /\ t.auth = s.auth
    BY <2>1 DEF IsProfile
  <2>3. /\ \A x \in more : x \in {"smtp_banner_exposed", "starttls_supported",
                                  "starttls_not_advertised", "open_relay_no_delivery_accepted"}
        /\ ~("starttls_supported" \in more /\ "starttls_not_advertised" \in more)
    BY DEF Either
  <2> HIDE DEF more
  <2>4. "auth_required" \notin s.signals /\ "unauthenticated_api_response" \notin s.signals
        /\ "anonymous_connection_accepted" \notin s.signals
    BY <1>2 DEF Plain
  <2>5. \A x : x \in t.signals <=> x \in s.signals \/ x \in more
    BY <2>2
  <2>6. Apart(t.signals)
    BY <1>0, <2>3, <2>5 DEF Apart, Later
  <2> QED BY <1>0, <2>2, <2>3, <2>4, <2>5, <2>6 DEF Later
<1>3. CASE s.protocol = "ftp" /\ l.risky /\ reserved
  <2> DEFINE more == Either("230" \in reply, "anonymous_login_accepted", FALSE, "")
  <2>1. t = [s EXCEPT !.signals = @ \cup more]
    BY <1>3 DEF Enriched
  <2>2. IsProfile(t) /\ t.signals = s.signals \cup more /\ t.auth = s.auth
    BY <2>1 DEF IsProfile
  <2>3. \A x \in more : x = "anonymous_login_accepted"
    BY DEF Either
  <2> HIDE DEF more
  <2>4. "auth_required" \notin s.signals /\ "unauthenticated_api_response" \notin s.signals
        /\ "anonymous_connection_accepted" \notin s.signals
    BY <1>3 DEF Plain
  <2>5. \A x : x \in t.signals <=> x \in s.signals \/ x \in more
    BY <2>2
  <2>6. Apart(t.signals)
    BY <1>0, <2>3, <2>5 DEF Apart
  <2> QED BY <1>0, <1>3, <2>2, <2>3, <2>4, <2>5, <2>6 DEF Later
<1>4. CASE s.protocol = "elasticsearch" /\ "200 ok" \in s.handshake
  <2>1. t = [s EXCEPT !.auth = FALSE, !.signals = @ \cup {"unauthenticated_api_response"}]
    BY <1>4 DEF Enriched
  <2>2. /\ IsProfile(t) /\ t.signals = s.signals \cup {"unauthenticated_api_response"}
        /\ t.auth = FALSE
    BY <2>1 DEF IsProfile
  <2>4. "auth_required" \notin s.signals
    BY <1>4 DEF Plain
  <2>5. \A x : x \in t.signals <=> x \in s.signals \/ x = "unauthenticated_api_response"
    BY <2>2
  <2>6. Apart(t.signals)
    BY <1>0, <2>4, <2>5 DEF Apart
  <2>7. t.auth # TRUE
    BY <2>2
  <2> QED BY <1>0, <2>2, <2>4, <2>5, <2>6, <2>7 DEF Later
<1>5. CASE s.protocol = "mongodb" /\ reserved
  <2> DEFINE listing == "databases" \in reply /\ "unauthorized" \notin reply
             more == Either(listing, "unauthenticated_database_listing",
                            "unauthorized" \in reply, "auth_required")
  <2>1. t = [s EXCEPT !.auth = IF listing THEN FALSE
                               ELSE IF "unauthorized" \in reply THEN TRUE ELSE @,
                      !.signals = @ \cup more]
    BY <1>5 DEF Enriched
  <2>2. /\ IsProfile(t) /\ t.signals = s.signals \cup more
        /\ t.auth = IF listing THEN FALSE ELSE IF "unauthorized" \in reply THEN TRUE ELSE s.auth
    BY <2>1 DEF IsProfile
  <2>3. /\ \A x \in more : \/ x = "unauthenticated_database_listing" /\ listing
                           \/ x = "auth_required" /\ "unauthorized" \in reply
    BY DEF Either
  <2> HIDE DEF more
  <2>4. "auth_required" \notin s.signals /\ "unauthenticated_api_response" \notin s.signals
        /\ "anonymous_connection_accepted" \notin s.signals
        /\ "unauthenticated_command_accepted" \notin s.signals
    BY <1>5 DEF Plain
  <2>5. \A x : x \in t.signals <=> x \in s.signals \/ x \in more
    BY <2>2
  <2>6. Apart(t.signals)
    BY <1>0, <2>3, <2>4, <2>5 DEF Apart, Later
  <2>7. t.auth = TRUE => ~listing
    BY <2>2
  <2>8. t.auth = FALSE => "unauthorized" \notin reply
    BY <2>2
  <2> HIDE DEF listing
  <2> QED BY <1>0, <2>2, <2>3, <2>4, <2>5, <2>6, <2>7, <2>8 DEF Later
<1>6. CASE s.protocol = "http" /\ "port 15672" \in s.handshake
  <2>1. t = [s EXCEPT !.signals = @ \cup {"management_interface_exposed"}]
    BY <1>6 DEF Enriched
  <2>2. /\ IsProfile(t) /\ t.signals = s.signals \cup {"management_interface_exposed"}
        /\ t.auth = s.auth
    BY <2>1 DEF IsProfile
  <2>5. \A x : x \in t.signals <=> x \in s.signals \/ x = "management_interface_exposed"
    BY <2>2
  <2>6. Apart(t.signals)
    BY <1>0, <2>5 DEF Apart
  <2> QED BY <1>0, <2>2, <2>5, <2>6 DEF Later, Plain
<1>7. CASE t = s
  <2> QED BY <1>0, <1>7 DEF Later, Plain
<1> QED BY <1>1, <1>2, <1>3, <1>4, <1>5, <1>6, <1>7 DEF Enriched

LEMMA EnrichServiceInv == ServiceInv /\ EnrichService => ServiceInv'
<1> SUFFICES ASSUME ServiceInv, EnrichService PROVE ServiceInv'
  OBVIOUS
<1>1. /\ probing = "enrich" /\ probing' = "categories"
      /\ listener' = listener /\ evidence' = evidence
  BY DEF EnrichService, MoveOn
<1>2. /\ listener \in Listeners /\ evidence \in Evidences /\ IsProfile(service)
      /\ listener.passive => ~OfTls(service.signals)
      /\ TlsShown(service.signals, evidence, listener)
      /\ Plain(service.protocol, service.auth, service.signals, service.handshake)
  BY <1>1 DEF ServiceInv, BeforeEnrich
<1>3. ~Later(service.signals) /\ Apart(service.signals)
  BY <1>2 DEF Plain
<1>4. CASE listener.passive
  <2>1. service' = [service EXCEPT !.signals = @ \cup {"passive_banner_only"}]
    BY <1>4 DEF EnrichService
  <2>2. /\ IsProfile(service') /\ service'.auth = service.auth
        /\ \A x : x \in service'.signals <=> x \in service.signals \/ x = "passive_banner_only"
    BY <1>2, <2>1 DEF IsProfile
  <2>3. Apart(service'.signals)
    BY <1>2, <1>3, <1>4, <2>2 DEF Apart, Later, OfTls
  <2>4. \A pair \in Opposites : ~(pair \subseteq service'.signals)
    BY <2>3, OppositesApart
  <2>5. ~OfTls(service'.signals)
    BY <1>2, <1>4, <2>2 DEF OfTls
  <2>6. service'.auth = TRUE => service'.signals \cap {"unauthenticated_api_response",
          "unauthenticated_database_listing", "anonymous_connection_accepted"} = {}
    <3>1. \A x \in {"unauthenticated_api_response", "unauthenticated_database_listing",
                    "anonymous_connection_accepted"} :
            x \in service'.signals => x \in service.signals
      BY <2>2
    <3> QED BY <1>2, <1>3, <2>2, <3>1 DEF Plain, Later
  <2>7. service'.auth = FALSE => "auth_required" \notin service'.signals
    BY <1>2, <2>2 DEF Plain
  <2>8. /\ "anonymous_login_accepted" \notin service'.signals
        /\ "publicly_routable" \notin service'.signals
        /\ "private_or_local" \notin service'.signals
    BY <1>3, <2>2 DEF Later
  <2>9. EvidenceConsistent'
    BY <2>4, <2>5, <2>6, <2>7, <2>8 DEF EvidenceConsistent, OfTls
  <2> QED BY <1>1, <1>2, <2>2, <2>5, <2>8, <2>9 DEF ServiceInv, BeforeEnrich, TlsShown, OfTls
<1>5. CASE ~listener.passive
  <2>1. PICK reply \in Replies :
          \E reserved \in BOOLEAN : service' = Enriched(service, reserved, reply, listener.risky)
    BY <1>5 DEF EnrichService
  <2>3. /\ IsProfile(service')
        /\ Apart(service'.signals)
        /\ \A x \in {"passive_banner_only", "publicly_routable", "private_or_local",
                     "tls_detected", "tls_hostname_mismatch"} :
             x \in service'.signals => x \in service.signals
        /\ service'.auth = TRUE => service'.signals \cap {"unauthenticated_api_response",
             "unauthenticated_database_listing", "anonymous_connection_accepted"} = {}
        /\ service'.auth = FALSE => "auth_required" \notin service'.signals
        /\ "anonymous_login_accepted" \in service'.signals => listener.risky
    BY <1>2, <2>1, EnrichedAdds
  <2>4. \A pair \in Opposites : ~(pair \subseteq service'.signals)
    BY <2>3, OppositesApart
  <2>5. TlsShown(service'.signals, evidence', listener')
    BY <1>1, <1>2, <2>3 DEF TlsShown
  <2>6. EvidenceConsistent'
    BY <1>1, <1>5, <2>3, <2>4, <2>5 DEF EvidenceConsistent, TlsShown
  <2>7. "publicly_routable" \notin service'.signals /\ "private_or_local" \notin service'.signals
    BY <1>3, <2>3 DEF Later
  <2> QED BY <1>1, <1>2, <1>5, <2>3, <2>5, <2>6, <2>7 DEF ServiceInv, BeforeEnrich
<1> QED BY <1>4, <1>5

LEMMA CategoriseInv == ServiceInv /\ Categorise => ServiceInv'
<1> SUFFICES ASSUME ServiceInv, Categorise PROVE ServiceInv'
  OBVIOUS
<1> DEFINE route == IF listener.public THEN "publicly_routable" ELSE "private_or_local"
<1>1. /\ probing = "categories" /\ probing' = "done"
      /\ listener' = listener /\ evidence' = evidence
      /\ service' = [service EXCEPT !.signals = @ \cup Category(service) \cup {route}]
  BY DEF Categorise, MoveOn
<1>2. /\ listener \in Listeners /\ evidence \in Evidences /\ IsProfile(service)
      /\ listener.passive => ~OfTls(service.signals)
      /\ TlsShown(service.signals, evidence, listener)
      /\ "publicly_routable" \notin service.signals /\ "private_or_local" \notin service.signals
      /\ EvidenceConsistent
  BY <1>1 DEF ServiceInv, BeforeEnrich
<1>3. /\ IsProfile(service') /\ service'.auth = service.auth
      /\ service'.signals = service.signals \cup Category(service) \cup {route}
  BY <1>1, <1>2 DEF IsProfile
<1>4. \A x \in Category(service) : x \in {"database_or_cache_service", "message_broker_service",
        "remote_management_service", "administrative_interface"}
  BY DEF Category
<1>5. Apart(service.signals)
  BY <1>2, OppositesApart DEF EvidenceConsistent
<1>6. \A x : x \in service'.signals <=> x \in service.signals \/ x \in Category(service) \/ x = route
  BY <1>3
<1>7. route \in {"publicly_routable", "private_or_local"}
  OBVIOUS
<1> HIDE DEF route
<1>8. \A x \in {"tls_supported", "tls_not_supported", "nla_required", "nla_not_required",
                "smb_signing_required", "smb_signing_not_required", "starttls_supported",
                "starttls_not_advertised", "auth_required", "unauthenticated_command_accepted",
                "unauthenticated_api_response", "unauthenticated_database_listing",
                "passive_banner_only", "tls_detected", "tls_hostname_mismatch",
                "anonymous_login_accepted", "anonymous_connection_accepted"} :
        x \in service'.signals <=> x \in service.signals
  BY <1>4, <1>6, <1>7
<1>9. ~("publicly_routable" \in service'.signals /\ "private_or_local" \in service'.signals)
  BY <1>2, <1>4, <1>6, <1>7
<1>10. Apart(service'.signals)
  BY <1>5, <1>8, <1>9 DEF Apart
<1>11. \A pair \in Opposites : ~(pair \subseteq service'.signals)
  BY <1>10, OppositesApart
<1>12. EvidenceConsistent'
  BY <1>1, <1>2, <1>3, <1>8, <1>11 DEF EvidenceConsistent
<1> QED BY <1>1, <1>2, <1>3, <1>8, <1>12 DEF ServiceInv, BeforeEnrich, TlsShown, OfTls

LEMMA ServiceStutterInv == ServiceInv /\ UNCHANGED serviceVars => ServiceInv'
  BY DEF ServiceInv, serviceVars, IsProfile, Nothing, EvidenceConsistent

\* Whatever a service answers, one thing after the other, the evidence of its port
\* does not contradict itself (scan_one_port).
THEOREM ServiceEvidence == ServiceSpec => []EvidenceConsistent
<1>1. ServiceInv /\ [ServiceNext]_serviceVars => ServiceInv'
  BY ReadGreetingInv, ProbesInv, ProbeVersionsInv, IdentifyGenericInv, AssumeDefaultInv,
     EnrichServiceInv, CategoriseInv, ServiceStutterInv DEF ServiceNext
<1>2. ServiceInv => EvidenceConsistent
  BY DEF ServiceInv
<1> QED BY <1>1, <1>2, ServiceInitInv, PTL DEF ServiceSpec

-----------------------------------------------------------------------------
\* Fingerprint: the rules in their order, then what they imply.

Hit(i) == Versions(ruleset[i]) # {}

SeenNames == {ruleset[i].name : i \in {k \in 1 .. matched : Hit(k)}}

\* The technology of this name is that of its surest rule so far, the first of equals.
Deserved(n) ==
  \E i \in 1 .. matched :
    /\ ruleset[i].name = n /\ Hit(i)
    /\ techs[n].confidence = ruleset[i].confidence
    /\ techs[n].version \in Versions(ruleset[i])
    /\ \A j \in 1 .. matched : ruleset[j].name = n /\ Hit(j) =>
         \/ ruleset[j].confidence < ruleset[i].confidence
         \/ ruleset[j].confidence = ruleset[i].confidence /\ i <= j

RulesetOk ==
  /\ Len(ruleset) \in Nat /\ DOMAIN ruleset = 1 .. Len(ruleset)
  /\ \A i \in 1 .. Len(ruleset) : ruleset[i].confidence \in Nat

FingerInv ==
  /\ RulesetOk
  /\ matching \in {"rules", "implies", "done"} /\ matched \in 0 .. Len(ruleset)
  /\ matching = "rules" => DOMAIN techs = SeenNames
  /\ matching # "rules" =>
       /\ matched = Len(ruleset)
       /\ SeenNames \subseteq DOMAIN techs
       /\ DOMAIN techs \cup implied = SeenNames \cup ImpliedBy(SeenNames)
       /\ \A n \in DOMAIN techs \ SeenNames : techs[n] = Inferred(n)
  /\ \A n \in SeenNames : Deserved(n)
  /\ matching = "done" => implied = {}

LEMMA FingerInitial == FingerInit => FingerInv
<1> SUFFICES ASSUME FingerInit PROVE FingerInv
  OBVIOUS
<1>1. RulesetOk
  <2>1. PICK S : ruleset \in Seq(S)
    BY FingerprintAssumption DEF FingerInit
  <2>2. Len(ruleset) \in Nat /\ DOMAIN ruleset = 1 .. Len(ruleset)
    BY <2>1
  <2>3. \A i \in DOMAIN ruleset : ruleset[i].confidence \in Nat
    BY FingerprintAssumption DEF FingerInit
  <2> QED BY <2>2, <2>3 DEF RulesetOk
<1>2. 1 .. matched = {} /\ SeenNames = {} /\ DOMAIN techs = {}
  BY DEF FingerInit, SeenNames
<1> QED BY <1>1, <1>2 DEF FingerInit, FingerInv, RulesetOk

\* What a rule reads does not change.
LEMMA SameRules ==
  ASSUME UNCHANGED <<ruleset, fetched>>
  PROVE  /\ \A rule : Versions(rule)' = Versions(rule)
         /\ \A i : Hit(i)' <=> Hit(i)
         /\ \A n : Inferred(n)' = Inferred(n)
         /\ \A S : ImpliedBy(S)' = ImpliedBy(S)
         /\ RulesetOk' <=> RulesetOk
<1>1. \A rule : Versions(rule)' = Versions(rule)
  BY DEF Versions, Compiles
<1> QED BY <1>1 DEF Hit, Inferred, RulesOf, ImpliedBy, RulesetOk

\* Nothing is deserved by a name until a rule of this name is matched.
LEMMA MatchRuleKeeps == FingerInv /\ MatchRule => FingerInv'
<1> SUFFICES ASSUME FingerInv, MatchRule PROVE FingerInv'
  OBVIOUS
<1>0. PICK i0, r, n0 : i0 = matched + 1 /\ r = ruleset[i0] /\ n0 = r.name
  OBVIOUS
<1>1. /\ UNCHANGED <<ruleset, fetched, matching, implied>> /\ matching = "rules"
      /\ matched' = i0 /\ i0 \in 1 .. Len(ruleset) /\ matched \in Nat
      /\ 1 .. matched' = (1 .. matched) \cup {i0} /\ i0 \notin 1 .. matched
  BY <1>0 DEF MatchRule, FingerInv, RulesetOk
<1>2. /\ \A rule : Versions(rule)' = Versions(rule)
      /\ \A i : Hit(i)' <=> Hit(i)
      /\ RulesetOk'
  BY <1>0, <1>1, SameRules DEF FingerInv
<1>3. /\ DOMAIN techs = SeenNames
      /\ \A n \in SeenNames : Deserved(n)
      /\ \A i \in 1 .. matched' : ruleset[i].confidence \in Nat
  BY <1>0, <1>1 DEF FingerInv, RulesetOk
<1>4. SUFFICES DOMAIN techs' = SeenNames' /\ \A n \in SeenNames' : Deserved(n)'
  BY <1>0, <1>1, <1>2 DEF FingerInv
<1>5. CASE Versions(r) = {}
  <2>1. techs' = techs /\ ~Hit(i0)
    BY <1>0, <1>1, <1>5 DEF MatchRule, Hit, Surest
  <2>2. SeenNames' = SeenNames
    BY <1>0, <1>1, <1>2, <2>1 DEF SeenNames
  <2>3. ASSUME NEW n \in SeenNames PROVE Deserved(n)'
    BY <1>0, <1>1, <1>2, <1>3, <2>1 DEF Deserved
  <2> QED BY <1>0, <1>3, <2>1, <2>2, <2>3
<1>6. CASE Versions(r) # {}
  <2>1. PICK v \in Versions(r) :
          techs' = Surest(techs, n0, [version |-> v, confidence |-> r.confidence])
    BY <1>0, <1>1, <1>6 DEF MatchRule
  <2>2. SeenNames' = SeenNames \cup {n0} /\ Hit(i0)
    BY <1>0, <1>1, <1>2, <1>6 DEF SeenNames, Hit
  <2>3. CASE n0 \in DOMAIN techs /\ techs[n0].confidence >= r.confidence
    <3>1. techs' = techs
      BY <1>0, <2>1, <2>3 DEF Surest
    <3>2. SeenNames' = SeenNames
      BY <1>0, <1>3, <2>2, <2>3
    <3>3. ASSUME NEW n \in SeenNames PROVE Deserved(n)'
      <4>1. PICK i \in 1 .. matched :
              /\ ruleset[i].name = n /\ Hit(i)
              /\ techs[n].confidence = ruleset[i].confidence
              /\ techs[n].version \in Versions(ruleset[i])
              /\ \A j \in 1 .. matched : ruleset[j].name = n /\ Hit(j) =>
                   \/ ruleset[j].confidence < ruleset[i].confidence
                   \/ ruleset[j].confidence = ruleset[i].confidence /\ i <= j
        BY <1>0, <1>3 DEF Deserved
      <4>2. n = n0 => \/ r.confidence < ruleset[i].confidence
                      \/ r.confidence = ruleset[i].confidence /\ i <= i0
        BY <1>0, <1>1, <1>3, <2>3, <4>1
      <4>3. \A j \in 1 .. matched' : ruleset'[j].name = n /\ Hit(j)' =>
              \/ ruleset'[j].confidence < ruleset'[i].confidence
              \/ ruleset'[j].confidence = ruleset'[i].confidence /\ i <= j
        BY <1>0, <1>1, <1>2, <4>1, <4>2
      <4>4. /\ ruleset'[i].name = n /\ Hit(i)' /\ i \in 1 .. matched'
            /\ techs'[n].confidence = ruleset'[i].confidence
            /\ techs'[n].version \in Versions(ruleset[i])'
        BY <1>0, <1>1, <1>2, <3>1, <4>1
      <4> QED BY <4>3, <4>4 DEF Deserved
    <3> QED BY <1>0, <1>3, <3>1, <3>2, <3>3
  <2>4. CASE ~(n0 \in DOMAIN techs /\ techs[n0].confidence >= r.confidence)
    <3>1. /\ techs' = With(techs, n0, [version |-> v, confidence |-> r.confidence])
          /\ DOMAIN techs' = DOMAIN techs \cup {n0}
          /\ techs'[n0].version = v /\ techs'[n0].confidence = r.confidence
          /\ \A n \in DOMAIN techs \ {n0} : techs'[n] = techs[n]
      BY <1>0, <2>1, <2>4 DEF Surest, With
    <3>2. Deserved(n0)'
      <4>1. ASSUME NEW j \in 1 .. matched, ruleset[j].name = n0, Hit(j)
            PROVE  ruleset[j].confidence < r.confidence
        <5>1. n0 \in SeenNames
          BY <4>1 DEF SeenNames
        <5>2. PICK i \in 1 .. matched :
                /\ techs[n0].confidence = ruleset[i].confidence
                /\ \/ ruleset[j].confidence < ruleset[i].confidence
                   \/ ruleset[j].confidence = ruleset[i].confidence
          BY <1>0, <1>3, <4>1, <5>1 DEF Deserved
        <5>3. /\ ruleset[i].confidence \in Nat /\ ruleset[j].confidence \in Nat
              /\ r.confidence \in Nat
          BY <1>0, <1>1, <1>3
        <5>4. ~(techs[n0].confidence >= r.confidence)
          BY <1>3, <2>4, <5>1
        <5> QED BY <5>2, <5>3, <5>4
      <4>2. \A j \in 1 .. matched' : ruleset'[j].name = n0 /\ Hit(j)' =>
              \/ ruleset'[j].confidence < ruleset'[i0].confidence
              \/ ruleset'[j].confidence = ruleset'[i0].confidence /\ i0 <= j
        BY <1>0, <1>1, <1>2, <4>1
      <4>3. /\ ruleset'[i0].name = n0 /\ Hit(i0)' /\ i0 \in 1 .. matched'
            /\ techs'[n0].confidence = ruleset'[i0].confidence
            /\ techs'[n0].version \in Versions(ruleset[i0])'
        BY <1>0, <1>1, <1>2, <2>1, <2>2, <3>1
      <4> QED BY <1>0, <1>1, <4>2, <4>3 DEF Deserved
    <3>3. ASSUME NEW n \in SeenNames \ {n0} PROVE Deserved(n)'
      <4>1. PICK i \in 1 .. matched :
              /\ ruleset[i].name = n /\ Hit(i)
              /\ techs[n].confidence = ruleset[i].confidence
              /\ techs[n].version \in Versions(ruleset[i])
              /\ \A j \in 1 .. matched : ruleset[j].name = n /\ Hit(j) =>
                   \/ ruleset[j].confidence < ruleset[i].confidence
                   \/ ruleset[j].confidence = ruleset[i].confidence /\ i <= j
        BY <1>0, <1>3 DEF Deserved
      <4>2. \A j \in 1 .. matched' : ruleset'[j].name = n /\ Hit(j)' =>
              \/ ruleset'[j].confidence < ruleset'[i].confidence
              \/ ruleset'[j].confidence = ruleset'[i].confidence /\ i <= j
        BY <1>0, <1>1, <1>2, <4>1
      <4>3. /\ ruleset'[i].name = n /\ Hit(i)' /\ i \in 1 .. matched'
            /\ techs'[n].confidence = ruleset'[i].confidence
            /\ techs'[n].version \in Versions(ruleset[i])'
        BY <1>0, <1>1, <1>2, <1>3, <3>1, <4>1
      <4> QED BY <1>0, <1>1, <4>2, <4>3 DEF Deserved
    <3> QED BY <1>0, <1>3, <2>2, <3>1, <3>2, <3>3
  <2> QED BY <2>3, <2>4
<1> QED BY <1>5, <1>6

\* Where the rules are matched, nothing about them changes.
LEMMA SameSeen ==
  ASSUME UNCHANGED <<ruleset, fetched, matched>>
  PROVE  /\ SeenNames' = SeenNames
         /\ RulesetOk' <=> RulesetOk
         /\ \A n : Inferred(n)' = Inferred(n)
         /\ ImpliedBy(SeenNames)' = ImpliedBy(SeenNames)
         /\ \A n : techs'[n] = techs[n] => (Deserved(n)' <=> Deserved(n))
<1>1. /\ \A rule : Versions(rule)' = Versions(rule)
      /\ \A i : Hit(i)' <=> Hit(i)
      /\ \A n : Inferred(n)' = Inferred(n)
      /\ RulesetOk' <=> RulesetOk
  BY SameRules
<1>2. SeenNames' = SeenNames
  BY <1>1 DEF SeenNames
<1>3. ImpliedBy(SeenNames)' = ImpliedBy(SeenNames)
  BY <1>2 DEF ImpliedBy
<1>4. ASSUME NEW n, techs'[n] = techs[n] PROVE Deserved(n)' <=> Deserved(n)
  BY <1>1, <1>4 DEF Deserved
<1> QED BY <1>1, <1>2, <1>3, <1>4

LEMMA FingerStep == FingerInv /\ [FingerNext]_fingerVars => FingerInv'
<1> SUFFICES ASSUME FingerInv, [FingerNext]_fingerVars PROVE FingerInv'
  OBVIOUS
<1>1. CASE MatchRule
  BY <1>1, MatchRuleKeeps
<1>2. CASE CollectImplied
  BY <1>2, SameSeen DEF FingerInv, CollectImplied
<1>3. ASSUME NEW name \in implied, AddImplied(name) PROVE FingerInv'
  <2>1. /\ UNCHANGED <<ruleset, fetched, matched, matching>> /\ matching = "implies"
        /\ implied' = implied \ {name} /\ techs' = Imply(techs, name)
    BY <1>3 DEF AddImplied
  <2>2. /\ SeenNames \subseteq DOMAIN techs
        /\ DOMAIN techs \cup implied = SeenNames \cup ImpliedBy(SeenNames)
        /\ \A n \in DOMAIN techs \ SeenNames : techs[n] = Inferred(n)
    BY <2>1 DEF FingerInv
  <2>3. /\ DOMAIN techs' = DOMAIN techs \cup {name}
        /\ \A n \in DOMAIN techs : techs'[n] = techs[n]
        /\ name \notin DOMAIN techs => techs'[name] = Inferred(name)
    BY <2>1 DEF Imply, With
  <2>4. \A n \in SeenNames : Deserved(n)'
    BY <2>1, <2>2, <2>3, SameSeen DEF FingerInv
  <2>5. DOMAIN techs' \cup implied' = DOMAIN techs \cup implied
    BY <1>3, <2>1, <2>3
  <2>6. \A n \in DOMAIN techs' \ SeenNames : techs'[n] = Inferred(n)
    BY <2>2, <2>3
  <2> QED BY <2>1, <2>2, <2>3, <2>4, <2>5, <2>6, SameSeen DEF FingerInv
<1>4. CASE EndMatching
  BY <1>4, SameSeen DEF FingerInv, EndMatching
<1>5. CASE UNCHANGED fingerVars
  BY <1>5, SameSeen DEF FingerInv, fingerVars
<1> QED BY <1>1, <1>2, <1>3, <1>4, <1>5 DEF FingerNext

\* No technology is lost, invented or weakened (match_all_rules, apply_implies),
\* whatever the rules and the response are, whichever pattern of a map is tried first
\* and in whatever order the implied names come.
THEOREM MatchingExact == FingerSpec => []MatchExact
<1>1. FingerInv => MatchExact
  <2> SUFFICES ASSUME FingerInv, matching = "done" PROVE MatchExact
    BY DEF MatchExact
  <2> DEFINE Hits(n) == {i \in RulesOf(n) : Versions(ruleset[i]) # {}}
             seen == {n \in {ruleset[i].name : i \in DOMAIN ruleset} : Hits(n) # {}}
  <2>1. matched = Len(ruleset) /\ DOMAIN ruleset = 1 .. matched
    BY DEF FingerInv, RulesetOk
  <2>2. seen = SeenNames
    BY <2>1 DEF RulesOf, SeenNames, Hit
  <2>3. \A n, i : i \in Hits(n) <=> i \in 1 .. matched /\ ruleset[i].name = n /\ Hit(i)
    BY <2>1 DEF RulesOf, Hit
  <2>4. DOMAIN techs = seen \cup ImpliedBy(seen)
    BY <2>2 DEF FingerInv
  <2>5. ASSUME NEW n \in seen
        PROVE  \E i \in Hits(n) :
                 /\ techs[n].confidence = ruleset[i].confidence
                 /\ techs[n].version \in Versions(ruleset[i])
                 /\ \A j \in Hits(n) : \/ ruleset[j].confidence < ruleset[i].confidence
                                       \/ ruleset[j].confidence = ruleset[i].confidence /\ i <= j
    <3>1. Deserved(n)
      BY <2>2 DEF FingerInv
    <3> HIDE DEF Hits
    <3> QED BY <2>3, <3>1 DEF Deserved
  <2>6. \A n \in ImpliedBy(seen) \ seen : techs[n] = Inferred(n)
    BY <2>2, <2>4 DEF FingerInv
  <2> QED BY <2>4, <2>5, <2>6 DEF MatchExact
<1> QED BY <1>1, FingerInitial, FingerStep, PTL DEF FingerSpec

-------------------------------------------------------------------------------
\* ApiDiscovery: one endpoint for each operation.

\* The names of the first k parameters.
NamesIn(params, k, place) == {params[i].name : i \in {j \in 1 .. k : params[j].in = place}}

\* What a URL is after the first k parameters.
FilledBy(url, path, params, k) ==
  /\ url = [template |-> path.template, left |-> url.left, query |-> url.query]
  /\ url.left = path.placeholders \ NamesIn(params, k, "path")
  /\ DOMAIN url.query = NamesIn(params, k, "query")
  /\ \A n \in DOMAIN url.query :
       \E j \in 1 .. k :
         /\ params[j].in = "query" /\ params[j].name = n
         /\ url.query[n] = BenignValue(params[j])
         /\ \A i \in j + 1 .. k : ~(params[i].in = "query" /\ params[i].name = n)

LEMMA NamesInMore ==
  ASSUME NEW params, NEW k \in Nat, NEW place
  PROVE  NamesIn(params, k + 1, place) =
           IF params[k + 1].in = place THEN NamesIn(params, k, place) \cup {params[k + 1].name}
           ELSE NamesIn(params, k, place)
<1>1. 1 .. k + 1 = (1 .. k) \cup {k + 1}
  OBVIOUS
<1> QED BY <1>1 DEF NamesIn

LEMMA FilledMore ==
  ASSUME NEW params, NEW k \in Nat, NEW path, NEW url, FilledBy(url, path, params, k)
  PROVE  FilledBy(Filled(url, params[k + 1]), path, params, k + 1)
<1>1. PICK p : p = params[k + 1]
  OBVIOUS
<1>2. PICK left, query : url = [template |-> path.template, left |-> left, query |-> query]
  BY DEF FilledBy
<1>3. /\ left = path.placeholders \ NamesIn(params, k, "path")
      /\ DOMAIN query = NamesIn(params, k, "query")
      /\ \A n \in DOMAIN query :
           \E j \in 1 .. k :
             /\ params[j].in = "query" /\ params[j].name = n
             /\ query[n] = BenignValue(params[j])
             /\ \A i \in j + 1 .. k : ~(params[i].in = "query" /\ params[i].name = n)
  BY <1>2 DEF FilledBy
<1>4. /\ NamesIn(params, k + 1, "path") =
           IF p.in = "path" THEN NamesIn(params, k, "path") \cup {p.name} ELSE NamesIn(params, k, "path")
      /\ NamesIn(params, k + 1, "query") =
           IF p.in = "query" THEN NamesIn(params, k, "query") \cup {p.name}
           ELSE NamesIn(params, k, "query")
  BY <1>1, NamesInMore
\* A parameter with another name, or in another place, leaves the values as they are.
<1>5. ASSUME NEW n \in DOMAIN query, ~(p.in = "query" /\ p.name = n)
      PROVE  \E j \in 1 .. k + 1 :
               /\ params[j].in = "query" /\ params[j].name = n
               /\ query[n] = BenignValue(params[j])
               /\ \A i \in j + 1 .. k + 1 : ~(params[i].in = "query" /\ params[i].name = n)
  <2>1. PICK j \in 1 .. k :
             /\ params[j].in = "query" /\ params[j].name = n
             /\ query[n] = BenignValue(params[j])
             /\ \A i \in j + 1 .. k : ~(params[i].in = "query" /\ params[i].name = n)
    BY <1>3
  <2>2. \A i \in j + 1 .. k + 1 : i \in j + 1 .. k \/ i = k + 1
    OBVIOUS
  <2>3. j \in 1 .. k + 1
    OBVIOUS
  <2> QED BY <1>1, <1>5, <2>1, <2>2, <2>3
<1>6. CASE p.in = "path"
  <2>1. Filled(url, p) = [template |-> path.template, left |-> left \ {p.name}, query |-> query]
    BY <1>2, <1>6 DEF Filled
  <2>2. left \ {p.name} = path.placeholders \ NamesIn(params, k + 1, "path")
    BY <1>3, <1>4, <1>6
  <2>3. DOMAIN query = NamesIn(params, k + 1, "query")
    BY <1>3, <1>4, <1>6
  <2>4. \A n \in DOMAIN query :
          \E j \in 1 .. k + 1 :
            /\ params[j].in = "query" /\ params[j].name = n
            /\ query[n] = BenignValue(params[j])
            /\ \A i \in j + 1 .. k + 1 : ~(params[i].in = "query" /\ params[i].name = n)
    BY <1>5, <1>6
  <2> QED BY <1>1, <2>1, <2>2, <2>3, <2>4 DEF FilledBy
<1>7. CASE p.in = "query"
  <2> DEFINE new == [n \in DOMAIN query \cup {p.name} |->
                       IF n = p.name THEN BenignValue(p) ELSE query[n]]
  <2>1. Filled(url, p) = [template |-> path.template, left |-> left, query |-> new]
    BY <1>2, <1>7 DEF Filled
  <2>2. left = path.placeholders \ NamesIn(params, k + 1, "path")
    BY <1>3, <1>4, <1>7
  <2>3. DOMAIN new = NamesIn(params, k + 1, "query")
    BY <1>3, <1>4, <1>7
  <2>4. ASSUME NEW n \in DOMAIN new
        PROVE  \E j \in 1 .. k + 1 :
                 /\ params[j].in = "query" /\ params[j].name = n
                 /\ new[n] = BenignValue(params[j])
                 /\ \A i \in j + 1 .. k + 1 : ~(params[i].in = "query" /\ params[i].name = n)
    <3>1. CASE n = p.name
      <4>1. new[n] = BenignValue(p) /\ k + 1 \in 1 .. k + 1 /\ (k + 1) + 1 .. k + 1 = {}
        BY <3>1
      <4> QED BY <1>1, <1>7, <3>1, <4>1
    <3>2. CASE n # p.name
      <4>1. new[n] = query[n] /\ n \in DOMAIN query
        BY <3>2
      <4> QED BY <1>5, <3>2, <4>1
    <3> QED BY <3>1, <3>2
  <2> HIDE DEF new
  <2> QED BY <1>1, <2>1, <2>2, <2>3, <2>4 DEF FilledBy
<1>8. CASE p.in \notin {"path", "query"}
  <2>1. Filled(url, p) = url
    BY <1>8 DEF Filled
  <2>2. left = path.placeholders \ NamesIn(params, k + 1, "path")
    BY <1>3, <1>4, <1>8
  <2>3. DOMAIN query = NamesIn(params, k + 1, "query")
    BY <1>3, <1>4, <1>8
  <2>4. \A n \in DOMAIN query :
          \E j \in 1 .. k + 1 :
            /\ params[j].in = "query" /\ params[j].name = n
            /\ query[n] = BenignValue(params[j])
            /\ \A i \in j + 1 .. k + 1 : ~(params[i].in = "query" /\ params[i].name = n)
    BY <1>5, <1>8
  <2>5. /\ url = [template |-> path.template, left |-> url.left, query |-> url.query]
        /\ url.left = left /\ url.query = query
    BY <1>2
  <2>6. FilledBy(url, path, params, k + 1)
    BY <2>2, <2>3, <2>4, <2>5 DEF FilledBy
  <2> QED BY <1>1, <2>1, <2>6
<1> QED BY <1>6, <1>7, <1>8

\* A URL of all parameters is as the operation, and else the path, declares.
LEMMA FilledDescribed ==
  ASSUME NEW path, NEW own, NEW S, path.inherited \in Seq(S), own \in Seq(S), NEW url,
         FilledBy(url, path, path.inherited \o own, Len(path.inherited \o own))
  PROVE  Described(path, own, url)
<1>1. PICK a, b : a = path.inherited /\ b = own
  OBVIOUS
<1>2. PICK all : all = a \o b
  OBVIOUS
<1>3. /\ Len(a) \in Nat /\ Len(b) \in Nat /\ Len(all) = Len(a) + Len(b)
      /\ DOMAIN a = 1 .. Len(a) /\ DOMAIN b = 1 .. Len(b)
  BY <1>1, <1>2
<1>4. /\ \A i \in 1 .. Len(a) : all[i] = a[i]
      /\ \A i \in 1 .. Len(b) : all[Len(a) + i] = b[i]
  BY <1>1, <1>2, <1>3
<1>5. \A i \in 1 .. Len(all) : i \in 1 .. Len(a) \/ (i - Len(a) \in 1 .. Len(b) /\ all[i] = b[i - Len(a)])
  <2> SUFFICES ASSUME NEW i \in 1 .. Len(all), i \notin 1 .. Len(a)
               PROVE  i - Len(a) \in 1 .. Len(b) /\ all[i] = b[i - Len(a)]
    OBVIOUS
  <2>1. i - Len(a) \in 1 .. Len(b) /\ Len(a) + (i - Len(a)) = i
    BY <1>3
  <2> QED BY <1>4, <2>1
<1>6. ASSUME NEW place
      PROVE  NamesIn(all, Len(all), place) = Declared(a, place) \cup Declared(b, place)
  <2>1. ASSUME NEW n \in NamesIn(all, Len(all), place)
        PROVE  n \in Declared(a, place) \cup Declared(b, place)
    <3>1. PICK i \in 1 .. Len(all) : all[i].in = place /\ all[i].name = n
      BY <2>1 DEF NamesIn
    <3>2. CASE i \in 1 .. Len(a)
      BY <1>3, <1>4, <3>1, <3>2 DEF Declared
    <3>3. CASE i - Len(a) \in 1 .. Len(b) /\ all[i] = b[i - Len(a)]
      BY <1>3, <3>1, <3>3 DEF Declared
    <3> QED BY <1>5, <3>2, <3>3
  <2>2. ASSUME NEW n \in Declared(a, place) PROVE n \in NamesIn(all, Len(all), place)
    <3>1. PICK i \in 1 .. Len(a) : a[i].in = place /\ a[i].name = n
      BY <1>3, <2>2 DEF Declared
    <3>2. i \in 1 .. Len(all) /\ all[i] = a[i]
      BY <1>3, <1>4
    <3> QED BY <3>1, <3>2 DEF NamesIn
  <2>3. ASSUME NEW n \in Declared(b, place) PROVE n \in NamesIn(all, Len(all), place)
    <3>1. PICK i \in 1 .. Len(b) : b[i].in = place /\ b[i].name = n
      BY <1>3, <2>3 DEF Declared
    <3>2. Len(a) + i \in 1 .. Len(all) /\ all[Len(a) + i] = b[i]
      BY <1>3, <1>4
    <3> QED BY <3>1, <3>2 DEF NamesIn
  <2> QED BY <2>1, <2>2, <2>3
<1>7. FilledBy(url, path, all, Len(all))
  BY <1>1, <1>2
<1>8. ASSUME NEW n \in DOMAIN url.query
      PROVE  IsLatest(url.query[n], IF n \in Declared(b, "query") THEN b ELSE a, n)
  <2>1. PICK j \in 1 .. Len(all) :
          /\ all[j].in = "query" /\ all[j].name = n /\ url.query[n] = BenignValue(all[j])
          /\ \A i \in j + 1 .. Len(all) : ~(all[i].in = "query" /\ all[i].name = n)
    BY <1>7 DEF FilledBy
  <2>2. CASE j \in 1 .. Len(a)
    <3>1. ASSUME NEW i \in 1 .. Len(b) PROVE ~(b[i].in = "query" /\ b[i].name = n)
      <4>1. Len(a) + i \in j + 1 .. Len(all) /\ all[Len(a) + i] = b[i]
        BY <1>3, <1>4, <2>2
      <4> QED BY <2>1, <4>1
    <3>2. n \notin Declared(b, "query")
      BY <1>3, <3>1 DEF Declared
    <3>3. ASSUME NEW i \in 1 .. Len(a), a[i].in = "query", a[i].name = n PROVE i <= j
      <4>1. all[i] = a[i] /\ i \in 1 .. Len(all)
        BY <1>3, <1>4
      <4>2. ~(i \in j + 1 .. Len(all))
        BY <2>1, <3>3, <4>1
      <4> QED BY <1>3, <4>1, <4>2
    <3>4. a[j] = all[j]
      BY <1>4, <2>2
    <3>5. IsLatest(url.query[n], a, n)
      BY <1>3, <2>1, <2>2, <3>3, <3>4 DEF IsLatest
    <3> QED BY <3>2, <3>5
  <2>3. CASE j - Len(a) \in 1 .. Len(b) /\ all[j] = b[j - Len(a)]
    <3>1. PICK m \in 1 .. Len(b) : m = j - Len(a) /\ all[j] = b[m]
      BY <2>3
    <3>2. n \in Declared(b, "query")
      BY <1>3, <2>1, <3>1 DEF Declared
    <3>3. ASSUME NEW i \in 1 .. Len(b), b[i].in = "query", b[i].name = n PROVE i <= m
      <4>1. all[Len(a) + i] = b[i] /\ Len(a) + i \in 1 .. Len(all)
        BY <1>3, <1>4
      <4>2. ~(Len(a) + i \in j + 1 .. Len(all))
        BY <2>1, <3>3, <4>1
      <4> QED BY <1>3, <3>1, <4>1, <4>2
    <3>4. IsLatest(url.query[n], b, n)
      BY <1>3, <2>1, <3>1, <3>3 DEF IsLatest
    <3> QED BY <3>2, <3>4
  <2> QED BY <1>5, <2>2, <2>3
<1>9. url.template = path.template
  BY <1>7 DEF FilledBy
<1>10. url.left = path.placeholders \ (Declared(a, "path") \cup Declared(b, "path"))
       /\ DOMAIN url.query = Declared(a, "query") \cup Declared(b, "query")
  BY <1>6, <1>7 DEF FilledBy
<1> QED BY <1>1, <1>8, <1>9, <1>10 DEF Described

\* The asset list has no asset twice; so it is the list of a set.
AssetsListed ==
  /\ apiAssets \in Seq(ToSet(apiAssets))
  /\ \A i, j \in DOMAIN apiAssets : apiAssets[i] = apiAssets[j] => i = j

Found(o) == \E url \in Endpoints : Described(o.path, o.path.methods[o.method], url)

Making(b) ==
  /\ [path |-> b.path, method |-> b.method] \in ReadOperations
  /\ b.used \in 0 .. Len(ParametersOf(b.path, b.method))
  /\ FilledBy(b.url, b.path, ParametersOf(b.path, b.method), b.used)

\* A GraphQL path is reported when it is asked, and not before.
GraphqlListed ==
  /\ \A a \in ToSet(apiAssets) : a.source \notin {"openapi", "openapi_spec"} =>
       \E g \in 1 .. graphqlRead : a.url = [graphql |-> g]
  /\ \A a, b \in ToSet(apiAssets) :
       {a.source, b.source} \cap {"openapi", "openapi_spec"} = {} /\ a.url = b.url => a = b

ApiInv ==
  /\ site \in ApiSites
  /\ specsRead \in 0 .. Len(site.documents) /\ graphqlRead \in 0 .. Len(site.graphql)
  /\ operations \subseteq ReadOperations
  /\ \A b \in building : Making(b)
  /\ \A b, c \in building : b = c
  /\ AssetsListed /\ GraphqlListed
  /\ \A o \in ReadOperations :
       o \in operations \/ Found(o) \/ \E b \in building : b.path = o.path /\ b.method = o.method
  /\ \A url \in Endpoints :
       \E o \in ReadOperations : Described(o.path, o.path.methods[o.method], url)

LEMMA ApiTyped ==
  ASSUME site \in ApiSites
  PROVE  /\ Len(site.documents) \in Nat /\ DOMAIN site.documents = 1 .. Len(site.documents)
         /\ Len(site.graphql) \in Nat
         /\ specsRead \in 0 .. Len(site.documents) =>
              \A o \in ReadOperations : \E S :
                o.path.inherited \in Seq(S) /\ o.path.methods[o.method] \in Seq(S)
<1>1. Len(site.documents) \in Nat /\ DOMAIN site.documents = 1 .. Len(site.documents)
      /\ Len(site.graphql) \in Nat
  BY ApiAssumption
<1>2. ASSUME specsRead \in 0 .. Len(site.documents), NEW o \in ReadOperations
      PROVE  \E S : o.path.inherited \in Seq(S) /\ o.path.methods[o.method] \in Seq(S)
  <2>1. PICK d \in 1 .. specsRead :
          site.documents[d] # NoSpec /\ o \in OperationsOf(site.documents[d])
    BY DEF ReadOperations
  <2>2. d \in DOMAIN site.documents
    BY <1>1, <1>2
  <2>3. PICK i \in DOMAIN site.documents[d] :
          \E m \in DOMAIN site.documents[d][i].methods :
            o = [path |-> site.documents[d][i], method |-> m]
    BY <2>1 DEF OperationsOf
  <2>4. PICK m \in DOMAIN site.documents[d][i].methods :
          o = [path |-> site.documents[d][i], method |-> m]
    BY <2>3
  <2>5. PICK path : path = site.documents[d][i]
    OBVIOUS
  <2>6. /\ path.inherited \in Seq({path.inherited[k] : k \in DOMAIN path.inherited})
        /\ path.methods[m] \in Seq({path.methods[m][k] : k \in DOMAIN path.methods[m]})
    <3>1. /\ site.documents[d][i].inherited
                \in Seq({site.documents[d][i].inherited[k] : k \in DOMAIN site.documents[d][i].inherited})
          /\ site.documents[d][i].methods[m]
                \in Seq({site.documents[d][i].methods[m][k] :
                          k \in DOMAIN site.documents[d][i].methods[m]})
      BY <2>1, <2>2, <2>3, <2>4, ApiAssumption, Zenon
    <3> QED BY <2>5, <3>1, Zenon
  <2> DEFINE A == {path.inherited[k] : k \in DOMAIN path.inherited}
             B == {path.methods[m][k] : k \in DOMAIN path.methods[m]}
  <2>7. path.inherited \in Seq(A \cup B) /\ path.methods[m] \in Seq(A \cup B)
    <3> HIDE DEF A, B
    <3>1. path.inherited \in Seq(A) /\ path.methods[m] \in Seq(B)
      BY <2>6 DEF A, B
    <3> QED BY <3>1
  <2>8. o.path = path /\ o.method = m
    BY <2>4, <2>5
  <2> QED BY <2>7, <2>8
<1> QED BY <1>1, <1>2

LEMMA Recorded ==
  ASSUME AssetsListed, NEW asset, RecordAsset(asset)
  PROVE  AssetsListed' /\ ToSet(apiAssets') = ToSet(apiAssets) \cup {asset}
<1>1. Len(apiAssets) \in Nat /\ DOMAIN apiAssets = 1 .. Len(apiAssets)
  BY DEF AssetsListed
<1>2. CASE asset \in ToSet(apiAssets)
  <2>1. apiAssets' = apiAssets
    BY <1>2 DEF RecordAsset
  <2> QED BY <1>2, <2>1 DEF AssetsListed
<1>3. CASE asset \notin ToSet(apiAssets)
  <2> DEFINE n == Len(apiAssets)
             old == ToSet(apiAssets)
  <2>1. apiAssets' = Append(apiAssets, asset)
    BY <1>3 DEF RecordAsset
  <2>2. /\ DOMAIN apiAssets' = (1 .. n) \cup {n + 1}
        /\ apiAssets'[n + 1] = asset /\ \A i \in 1 .. n : apiAssets'[i] = apiAssets[i]
    BY <1>1, <2>1 DEF AssetsListed
  <2>3. ToSet(apiAssets') = old \cup {asset}
    BY <1>1, <2>2 DEF ToSet
  <2>4. apiAssets' \in Seq(old \cup {asset})
    <3>1. apiAssets \in Seq(old)
      BY DEF AssetsListed
    <3> HIDE DEF old
    <3> QED BY <2>1, <3>1
  <2>5. \A i \in 1 .. n : apiAssets[i] # asset
    BY <1>1, <1>3 DEF ToSet
  <2>6. \A i, j \in DOMAIN apiAssets' : apiAssets'[i] = apiAssets'[j] => i = j
    BY <1>1, <2>2, <2>5 DEF AssetsListed
  <2> QED BY <2>3, <2>4, <2>6 DEF AssetsListed
<1> QED BY <1>2, <1>3

LEMMA RecordedEndpoints ==
  ASSUME AssetsListed, NEW asset, RecordAsset(asset)
  PROVE  /\ AssetsListed'
         /\ Endpoints' = IF asset.source = "openapi" THEN Endpoints \cup {asset.url} ELSE Endpoints
         /\ Endpoints \subseteq Endpoints'
<1>1. AssetsListed' /\ ToSet(apiAssets') = ToSet(apiAssets) \cup {asset}
  BY Recorded
<1> QED BY <1>1 DEF Endpoints

LEMMA SameOperations ==
  ASSUME UNCHANGED <<site, specsRead>>
  PROVE  ReadOperations' = ReadOperations
  BY DEF ReadOperations

\* A specification that was read adds its operations.
LEMMA MoreOperations ==
  ASSUME site' = site, specsRead \in Nat, specsRead' = specsRead + 1
  PROVE  ReadOperations' =
           IF site.documents[specsRead + 1] = NoSpec THEN ReadOperations
           ELSE ReadOperations \cup OperationsOf(site.documents[specsRead + 1])
<1>1. 1 .. specsRead + 1 = (1 .. specsRead) \cup {specsRead + 1}
  OBVIOUS
<1> DEFINE new == site.documents[specsRead + 1]
           old == {OperationsOf(site.documents[d]) : d \in {k \in 1 .. specsRead : site.documents[k] # NoSpec}}
<1>2. ReadOperations = UNION old
  BY DEF ReadOperations
<1>3. ReadOperations' =
        UNION {OperationsOf(site.documents[d]) :
               d \in {k \in 1 .. specsRead + 1 : site.documents[k] # NoSpec}}
  BY DEF ReadOperations
<1>4. {OperationsOf(site.documents[d]) : d \in {k \in 1 .. specsRead + 1 : site.documents[k] # NoSpec}}
        = IF new = NoSpec THEN old ELSE old \cup {OperationsOf(new)}
  BY <1>1
<1> HIDE DEF new, old
<1>5. UNION (old \cup {OperationsOf(new)}) = (UNION old) \cup OperationsOf(new)
  OBVIOUS
<1> QED BY <1>2, <1>3, <1>4, <1>5 DEF new

LEMMA FoundKept ==
  ASSUME Endpoints \subseteq Endpoints', NEW o, Found(o)
  PROVE  Found(o)'
  BY DEF Found

LEMMA SameGraphql ==
  ASSUME GraphqlListed, graphqlRead' = graphqlRead, AssetsListed, NEW asset, RecordAsset(asset),
         asset.source \in {"openapi", "openapi_spec"}
  PROVE  GraphqlListed'
<1>1. ToSet(apiAssets') = ToSet(apiAssets) \cup {asset}
  BY Recorded
<1> QED BY <1>1 DEF GraphqlListed

LEMMA ApiInitInv == ApiInit => ApiInv
<1> SUFFICES ASSUME ApiInit PROVE ApiInv
  OBVIOUS
<1>1. /\ site \in ApiSites /\ specsRead = 0 /\ graphqlRead = 0
      /\ operations = {} /\ building = {} /\ apiAssets = <<>>
  BY DEF ApiInit
<1>2. Len(site.documents) \in Nat /\ Len(site.graphql) \in Nat /\ 1 .. 0 = {}
  BY <1>1, ApiTyped
<1>3. ReadOperations = {} /\ ToSet(apiAssets) = {} /\ DOMAIN apiAssets = {}
  BY <1>1, <1>2 DEF ReadOperations, ToSet
<1>4. AssetsListed /\ GraphqlListed /\ Endpoints = {}
  BY <1>1, <1>3 DEF AssetsListed, GraphqlListed, Endpoints
<1> QED BY <1>1, <1>2, <1>3, <1>4 DEF ApiInv

LEMMA ReadSpecInv == ApiInv /\ ReadSpec => ApiInv'
<1> SUFFICES ASSUME ApiInv, ReadSpec PROVE ApiInv'
  OBVIOUS
<1>1. /\ operations = {} /\ building = {} /\ specsRead < Len(site.documents)
      /\ specsRead' = specsRead + 1 /\ UNCHANGED <<site, building, graphqlRead>>
  BY DEF ReadSpec
<1>2. /\ site \in ApiSites /\ specsRead \in Nat /\ Len(site.documents) \in Nat
      /\ specsRead' \in 0 .. Len(site.documents)
  BY <1>1, ApiTyped DEF ApiInv
<1>3. ReadOperations' =
        IF site.documents[specsRead + 1] = NoSpec THEN ReadOperations
        ELSE ReadOperations \cup OperationsOf(site.documents[specsRead + 1])
  BY <1>1, <1>2, MoreOperations
<1>4. /\ AssetsListed /\ GraphqlListed /\ \A o \in ReadOperations : Found(o)
      /\ \A url \in Endpoints :
           \E o \in ReadOperations : Described(o.path, o.path.methods[o.method], url)
  BY <1>1 DEF ApiInv
<1>5. CASE site.documents[specsRead + 1] = NoSpec
  <2>1. UNCHANGED <<operations, apiAssets>>
    BY <1>5 DEF ReadSpec
  <2>2. Endpoints' = Endpoints /\ AssetsListed' /\ GraphqlListed'
    BY <1>1, <1>4, <2>1 DEF Endpoints, AssetsListed, GraphqlListed
  <2>3. ReadOperations' = ReadOperations /\ \A o \in ReadOperations : Found(o)'
    BY <1>3, <1>4, <1>5, <2>2, FoundKept
  <2> QED BY <1>1, <1>2, <1>4, <2>1, <2>2, <2>3 DEF ApiInv
<1>6. CASE site.documents[specsRead + 1] # NoSpec
  <2>0. PICK asset : asset = [source |-> "openapi_spec", url |-> [document |-> specsRead + 1]]
    OBVIOUS
  <2>1. /\ RecordAsset(asset) /\ asset.source = "openapi_spec"
        /\ operations' = OperationsOf(site.documents[specsRead + 1])
    BY <1>6, <2>0 DEF ReadSpec
  <2>2. Endpoints' = Endpoints /\ AssetsListed'
    BY <1>4, <2>1, RecordedEndpoints
  <2>3. GraphqlListed'
    BY <1>1, <1>4, <2>1, SameGraphql
  <2>4. ReadOperations' = ReadOperations \cup operations' /\ \A o \in ReadOperations : Found(o)'
    BY <1>3, <1>4, <1>6, <2>1, <2>2, FoundKept
  <2> QED BY <1>1, <1>2, <1>4, <2>2, <2>3, <2>4 DEF ApiInv
<1> QED BY <1>5, <1>6

\* The steps between two assets.
LEMMA SameAssets ==
  ASSUME ApiInv, UNCHANGED <<site, specsRead, apiAssets, graphqlRead>>
  PROVE  /\ ReadOperations' = ReadOperations /\ Endpoints' = Endpoints
         /\ AssetsListed' /\ GraphqlListed' /\ \A o : Found(o) => Found(o)'
         /\ \A b : Making(b)' <=> Making(b)
         /\ site' \in ApiSites /\ specsRead' \in 0 .. Len(site'.documents)
         /\ graphqlRead' \in 0 .. Len(site'.graphql)
         /\ \A url \in Endpoints' :
              \E o \in ReadOperations' : Described(o.path, o.path.methods[o.method], url)
<1>1. ReadOperations' = ReadOperations /\ Endpoints' = Endpoints
  BY SameOperations DEF Endpoints
<1>2. AssetsListed' /\ GraphqlListed'
  BY DEF ApiInv, AssetsListed, GraphqlListed
<1>3. \A o : Found(o) => Found(o)'
  BY <1>1, FoundKept
<1>4. \A b : Making(b)' <=> Making(b)
  BY <1>1 DEF Making
<1> QED BY <1>1, <1>2, <1>3, <1>4 DEF ApiInv

LEMMA ParametersCounted ==
  ASSUME NEW path, NEW method, NEW S, path.inherited \in Seq(S), path.methods[method] \in Seq(S)
  PROVE  Len(ParametersOf(path, method)) \in Nat
<1>1. PICK a, b : a = path.inherited /\ b = path.methods[method]
  OBVIOUS
<1>2. a \in Seq(S) /\ b \in Seq(S)
  BY <1>1
<1>3. a \o b \in Seq(S)
  BY <1>2
<1>4. Len(a \o b) \in Nat
  BY <1>3
<1> QED BY <1>1, <1>4 DEF ParametersOf

LEMMA StartEndpointInv == ApiInv /\ StartEndpoint => ApiInv'
<1> SUFFICES ASSUME ApiInv, StartEndpoint PROVE ApiInv'
  OBVIOUS
<1>1. UNCHANGED <<site, specsRead, apiAssets, graphqlRead>> /\ building = {}
  BY DEF StartEndpoint
<1>2. PICK o \in operations :
        /\ operations' = operations \ {o}
        /\ building' = {[path |-> o.path, method |-> o.method, used |-> 0,
                         url |-> [template |-> o.path.template, left |-> o.path.placeholders,
                                  query |-> <<>>]]}
  BY DEF StartEndpoint
<1>3. PICK b : b = [path |-> o.path, method |-> o.method, used |-> 0,
                    url |-> [template |-> o.path.template, left |-> o.path.placeholders,
                             query |-> <<>>]]
  OBVIOUS
<1>4. building' = {b} /\ b.path = o.path /\ b.method = o.method /\ b.used = 0
      /\ b.url = [template |-> o.path.template, left |-> o.path.placeholders, query |-> <<>>]
  BY <1>2, <1>3
<1>5. o \in ReadOperations /\ o = [path |-> o.path, method |-> o.method]
  <2>1. o \in ReadOperations
    BY DEF ApiInv
  <2> QED BY <2>1 DEF ReadOperations, OperationsOf
<1>6. PICK S : o.path.inherited \in Seq(S) /\ o.path.methods[o.method] \in Seq(S)
  BY <1>5, ApiTyped DEF ApiInv
<1>7. Making(b)
  <2>1. Len(ParametersOf(b.path, b.method)) \in Nat
    BY <1>4, <1>6, ParametersCounted
  <2>2. 1 .. 0 = {} /\ DOMAIN << >> = {}
    OBVIOUS
  <2>3. FilledBy(b.url, b.path, ParametersOf(b.path, b.method), 0)
    BY <1>4, <2>2 DEF FilledBy, NamesIn
  <2> QED BY <1>4, <1>5, <2>1, <2>3 DEF Making
<1>8. /\ ReadOperations' = ReadOperations /\ Endpoints' = Endpoints
      /\ AssetsListed' /\ GraphqlListed' /\ \A p : Found(p) => Found(p)'
      /\ Making(b)' /\ site' \in ApiSites /\ specsRead' \in 0 .. Len(site'.documents)
      /\ graphqlRead' \in 0 .. Len(site'.graphql)
      /\ \A url \in Endpoints' :
           \E p \in ReadOperations' : Described(p.path, p.path.methods[p.method], url)
  BY <1>1, <1>7, SameAssets
<1>9. \A p \in ReadOperations : p \in operations \/ Found(p)
  BY <1>1 DEF ApiInv
<1>10. \A p \in ReadOperations' :
         p \in operations' \/ Found(p)' \/ \E c \in building' : c.path = p.path /\ c.method = p.method
  BY <1>2, <1>4, <1>8, <1>9
<1>11. operations' \subseteq ReadOperations'
  BY <1>2, <1>8 DEF ApiInv
<1> QED BY <1>4, <1>8, <1>10, <1>11 DEF ApiInv

LEMMA UseParameterInv == ApiInv /\ UseParameter => ApiInv'
<1> SUFFICES ASSUME ApiInv, UseParameter PROVE ApiInv'
  OBVIOUS
<1>1. UNCHANGED <<site, specsRead, operations, apiAssets, graphqlRead>>
  BY DEF UseParameter
<1>2. PICK b \in building :
        /\ b.used < Len(ParametersOf(b.path, b.method))
        /\ building' = {[path |-> b.path, method |-> b.method, used |-> b.used + 1,
                         url |-> Filled(b.url, ParametersOf(b.path, b.method)[b.used + 1])]}
  BY DEF UseParameter
<1>3. Making(b)
  BY DEF ApiInv
<1>4. PICK params : params = ParametersOf(b.path, b.method)
  OBVIOUS
<1>5. PICK c : c = [path |-> b.path, method |-> b.method, used |-> b.used + 1,
                    url |-> Filled(b.url, params[b.used + 1])]
  OBVIOUS
<1>7. /\ building' = {c} /\ c.path = b.path /\ c.method = b.method /\ c.used = b.used + 1
      /\ c.url = Filled(b.url, params[b.used + 1])
  BY <1>2, <1>4, <1>5
<1>8. Len(params) \in Nat
  <2>1. PICK o : o = [path |-> b.path, method |-> b.method]
    OBVIOUS
  <2>2. o \in ReadOperations /\ o.path = b.path /\ o.method = b.method
    BY <1>3, <2>1 DEF Making
  <2>3. PICK S : o.path.inherited \in Seq(S) /\ o.path.methods[o.method] \in Seq(S)
    BY <2>2, ApiTyped DEF ApiInv
  <2>4. Len(ParametersOf(o.path, o.method)) \in Nat
    BY <2>3, ParametersCounted
  <2> QED BY <1>4, <2>2, <2>4
<1>9. Making(c)
  <2>1. b.used \in Nat /\ FilledBy(b.url, b.path, params, b.used)
    BY <1>3, <1>4, <1>8 DEF Making
  <2>2. FilledBy(Filled(b.url, params[b.used + 1]), b.path, params, b.used + 1)
    BY <2>1, FilledMore
  <2>3. FilledBy(c.url, c.path, ParametersOf(c.path, c.method), c.used)
    BY <1>4, <1>7, <2>2
  <2>4. c.used \in 0 .. Len(ParametersOf(c.path, c.method))
    BY <1>2, <1>4, <1>7, <1>8, <2>1
  <2>6. [path |-> c.path, method |-> c.method] \in ReadOperations
    BY <1>3, <1>7 DEF Making
  <2> QED BY <2>3, <2>4, <2>6 DEF Making
<1>10. /\ ReadOperations' = ReadOperations /\ Endpoints' = Endpoints
       /\ AssetsListed' /\ GraphqlListed' /\ \A p : Found(p) => Found(p)'
       /\ Making(c)' /\ site' \in ApiSites /\ specsRead' \in 0 .. Len(site'.documents)
       /\ graphqlRead' \in 0 .. Len(site'.graphql)
       /\ \A url \in Endpoints' :
            \E p \in ReadOperations' : Described(p.path, p.path.methods[p.method], url)
  BY <1>1, <1>9, SameAssets
<1>11. \A p \in ReadOperations :
         p \in operations \/ Found(p) \/ (b.path = p.path /\ b.method = p.method)
  BY DEF ApiInv
<1>12. \A p \in ReadOperations' :
         p \in operations' \/ Found(p)' \/ \E e \in building' : e.path = p.path /\ e.method = p.method
  BY <1>1, <1>7, <1>10, <1>11
<1>13. operations' \subseteq ReadOperations'
  BY <1>1, <1>10 DEF ApiInv
<1>14. building' = {c}
  BY <1>7
<1>15. \A e \in building' : Making(e)'
  BY <1>10, <1>14
<1>16. \A e, f \in building' : e = f
  BY <1>14
<1> QED BY <1>10, <1>12, <1>13, <1>15, <1>16 DEF ApiInv

LEMMA RecordEndpointInv == ApiInv /\ RecordEndpoint => ApiInv'
<1> SUFFICES ASSUME ApiInv, RecordEndpoint PROVE ApiInv'
  OBVIOUS
<1>1. UNCHANGED <<site, specsRead, operations, graphqlRead>> /\ building' = {}
  BY DEF RecordEndpoint
<1>2. PICK b \in building :
        /\ b.used = Len(ParametersOf(b.path, b.method))
        /\ RecordAsset([source |-> "openapi", url |-> b.url])
  BY DEF RecordEndpoint
<1>3. Making(b)
  BY DEF ApiInv
<1>4. PICK o : o = [path |-> b.path, method |-> b.method]
  OBVIOUS
<1>5. o \in ReadOperations /\ o.path = b.path /\ o.method = b.method
  BY <1>3, <1>4 DEF Making
<1>6. Described(o.path, o.path.methods[o.method], b.url)
  <2>1. PICK S : o.path.inherited \in Seq(S) /\ o.path.methods[o.method] \in Seq(S)
    BY <1>5, ApiTyped DEF ApiInv
  <2>2. FilledBy(b.url, o.path, o.path.inherited \o o.path.methods[o.method],
                 Len(o.path.inherited \o o.path.methods[o.method]))
    BY <1>2, <1>3, <1>5 DEF Making, ParametersOf
  <2> QED BY <2>1, <2>2, FilledDescribed
<1>7. PICK asset : asset = [source |-> "openapi", url |-> b.url]
  OBVIOUS
<1>8. RecordAsset(asset) /\ asset.source = "openapi" /\ asset.url = b.url
  BY <1>2, <1>7
<1>9. AssetsListed /\ GraphqlListed
  BY DEF ApiInv
<1>10. AssetsListed' /\ Endpoints' = Endpoints \cup {b.url}
  BY <1>8, <1>9, RecordedEndpoints
<1>11. GraphqlListed'
  BY <1>1, <1>8, <1>9, SameGraphql
<1>12. ReadOperations' = ReadOperations
  BY <1>1, SameOperations
<1>13. \A p \in ReadOperations : p \in operations \/ Found(p)'
  <2> SUFFICES ASSUME NEW p \in ReadOperations, p \notin operations PROVE Found(p)'
    OBVIOUS
  <2>1. CASE Found(p)
    BY <1>10, <2>1, FoundKept
  <2>2. CASE b.path = p.path /\ b.method = p.method
    BY <1>5, <1>6, <1>10, <2>2 DEF Found
  <2> QED BY <2>1, <2>2 DEF ApiInv
<1>14. \A url \in Endpoints' :
         \E p \in ReadOperations : Described(p.path, p.path.methods[p.method], url)
  BY <1>5, <1>6, <1>10 DEF ApiInv
<1> QED BY <1>1, <1>10, <1>11, <1>12, <1>13, <1>14 DEF ApiInv

LEMMA DetectGraphqlInv == ApiInv /\ DetectGraphql => ApiInv'
<1> SUFFICES ASSUME ApiInv, DetectGraphql PROVE ApiInv'
  OBVIOUS
<1>1. /\ UNCHANGED <<site, specsRead, operations, building>> /\ operations = {} /\ building = {}
      /\ graphqlRead < Len(site.graphql) /\ graphqlRead' = graphqlRead + 1
  BY DEF DetectGraphql
<1>2. graphqlRead \in Nat /\ graphqlRead' \in 0 .. Len(site.graphql)
      /\ AssetsListed /\ GraphqlListed /\ site \in ApiSites
  BY <1>1, ApiTyped DEF ApiInv
<1>3. PICK source : source = GraphqlSource(site.graphql[graphqlRead + 1].page,
                                           site.graphql[graphqlRead + 1].reply)
  OBVIOUS
<1>4. source = NoSpec \/ source \notin {"openapi", "openapi_spec"}
  BY <1>3 DEF GraphqlSource
<1>5. AssetsListed' /\ GraphqlListed' /\ Endpoints \subseteq Endpoints' /\ Endpoints' = Endpoints
  <2>1. CASE source = NoSpec
    <3>1. apiAssets' = apiAssets
      BY <1>3, <2>1 DEF DetectGraphql
    <3>2. \A g \in 1 .. graphqlRead : g \in 1 .. graphqlRead'
      BY <1>1, <1>2
    <3> QED BY <1>2, <3>1, <3>2 DEF AssetsListed, GraphqlListed, Endpoints
  <2>2. CASE source # NoSpec
    <3>1. PICK asset : asset = [source |-> source, url |-> [graphql |-> graphqlRead + 1]]
      OBVIOUS
    <3>2. /\ RecordAsset(asset) /\ asset.source \notin {"openapi", "openapi_spec"}
          /\ asset.url = [graphql |-> graphqlRead + 1]
      BY <1>3, <1>4, <2>2, <3>1 DEF DetectGraphql
    <3>3. ToSet(apiAssets') = ToSet(apiAssets) \cup {asset}
      BY <1>2, <3>2, Recorded
    <3>4. AssetsListed' /\ Endpoints' = Endpoints
      BY <1>2, <3>2, RecordedEndpoints
    <3>5. \A a \in ToSet(apiAssets) : a.source \notin {"openapi", "openapi_spec"} => a.url # asset.url
      <4> SUFFICES ASSUME NEW a \in ToSet(apiAssets), a.source \notin {"openapi", "openapi_spec"}
                   PROVE  a.url # asset.url
        OBVIOUS
      <4>1. PICK g \in 1 .. graphqlRead : a.url = [graphql |-> g]
        BY <1>2 DEF GraphqlListed
      <4>2. a.url.graphql = g /\ asset.url.graphql = graphqlRead + 1 /\ g # graphqlRead + 1
        BY <1>2, <3>2, <4>1
      <4> QED BY <4>2
    <3>6. \A a \in ToSet(apiAssets') : a.source \notin {"openapi", "openapi_spec"} =>
            \E g \in 1 .. graphqlRead' : a.url = [graphql |-> g]
      <4>1. \A g \in 1 .. graphqlRead : g \in 1 .. graphqlRead'
        BY <1>1, <1>2
      <4>2. graphqlRead + 1 \in 1 .. graphqlRead'
        BY <1>1, <1>2
      <4> QED BY <1>2, <3>2, <3>3, <4>1, <4>2 DEF GraphqlListed
    <3>7. \A a, b \in ToSet(apiAssets') :
            {a.source, b.source} \cap {"openapi", "openapi_spec"} = {} /\ a.url = b.url => a = b
      <4> SUFFICES ASSUME NEW a \in ToSet(apiAssets'), NEW b \in ToSet(apiAssets'),
                          {a.source, b.source} \cap {"openapi", "openapi_spec"} = {}, a.url = b.url
                   PROVE  a = b
        OBVIOUS
      <4>1. a.source \notin {"openapi", "openapi_spec"} /\ b.source \notin {"openapi", "openapi_spec"}
        OBVIOUS
      <4>2. CASE a \in ToSet(apiAssets) /\ b \in ToSet(apiAssets)
        BY <1>2, <4>2 DEF GraphqlListed
      <4>3. CASE a = asset \/ b = asset
        BY <3>3, <3>5, <4>1, <4>3
      <4> QED BY <3>3, <4>2, <4>3
    <3> QED BY <3>4, <3>6, <3>7 DEF GraphqlListed
  <2> QED BY <2>1, <2>2
<1>6. ReadOperations' = ReadOperations
  BY <1>1, SameOperations
<1>7. \A o \in ReadOperations : Found(o)'
  <2>1. \A o \in ReadOperations : Found(o)
    BY <1>1 DEF ApiInv
  <2> QED BY <1>5, <2>1, FoundKept
<1> QED BY <1>1, <1>2, <1>5, <1>6, <1>7 DEF ApiInv

LEMMA ApiStutter == ApiInv /\ UNCHANGED apiVars => ApiInv'
<1> SUFFICES ASSUME ApiInv, UNCHANGED apiVars PROVE ApiInv'
  OBVIOUS
<1>1. UNCHANGED <<site, specsRead, operations, building, apiAssets, graphqlRead>>
  BY DEF apiVars
<1> QED BY <1>1, SameAssets DEF ApiInv

\* Whatever specifications a site has, each of their operations becomes one endpoint
\* with a value for all that it declares, and nothing else does.
THEOREM EndpointsExact == ApiSpec => []ApiExact
<1>1. ApiInv /\ [ApiNext]_apiVars => ApiInv'
  BY ReadSpecInv, StartEndpointInv, UseParameterInv, RecordEndpointInv, DetectGraphqlInv,
     ApiStutter DEF ApiNext
<1>2. ApiInv => ApiExact
  BY DEF ApiInv, ApiExact, AssetsListed, GraphqlListed, Found
<1> QED BY <1>1, <1>2, ApiInitInv, PTL DEF ApiSpec

=============================================================================
