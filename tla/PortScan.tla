------------------------------ MODULE PortScan ------------------------------
(***************************************************************************)
(* The TCP port scan of one host: scan_ports_with_mode and scan_one_port   *)
(* of crates/discovery/src/port_scan.rs.  One task per port waits for a    *)
(* permit of the semaphore; every connection it opens, the first one and   *)
(* those of the TLS, version, generic and protocol probes, is taken from   *)
(* one ConnectionBudget that all ports share.                              *)
(*                                                                         *)
(* One action is one reserve and the connection it allows.  What a probe   *)
(* finds out is chosen freely; of the profile only the kind of protocol    *)
(* and the presence of TLS matter for what the task does next.             *)
(***************************************************************************)
EXTENDS Naturals, FiniteSets

CONSTANTS
  Ports,          \* the ports to scan
  TlsPorts,       \* ports of which likely_tls_port is true
  ServiceOf,      \* service_from_port, by kind of protocol
  Concurrency,    \* config.concurrency
  Budget,         \* config.network_connection_budget
  GenericProbes,  \* length of generic_protocol_probes: 9
  AllowRisky      \* config.allow_risky_rules

\* Kinds of protocols: "checked" (postgresql, smtp, mongodb) are probed once more,
\* "ftp" only if risky probes are allowed, "plain" are not.
Protocols == {"none", "plain", "checked", "ftp"}

ASSUME PortScanAssumption ==
  /\ IsFiniteSet(Ports) /\ TlsPorts \subseteq Ports
  /\ ServiceOf \in [Ports -> Protocols]
  /\ Concurrency \in Nat /\ Budget \in Nat /\ GenericProbes \in Nat
  /\ AllowRisky \in BOOLEAN

AtLeastOne(n) == IF n = 0 THEN 1 ELSE n

Maximum == AtLeastOne(Budget)

\* TLS 1.0, 1.1 and 1.2 are tried one by one.
TlsVersions == 3

VARIABLES
  passive,   \* scan_ports_passive
  used,      \* ConnectionBudget.used
  late,      \* its deadline has passed
  permits,   \* available permits of the semaphore
  pc,        \* where the task of each port is
  protocol,  \* kind of the protocol found so far
  tls,       \* TLS evidence is Some
  tried,     \* TLS versions or generic probes done
  state,     \* PortState of the results so far
  opened     \* history: connections opened by each task

budget == <<used, late>>
profile == <<protocol, tls, tried>>
vars == <<passive, budget, permits, pc, profile, state, opened>>

Init ==
  /\ passive \in BOOLEAN
  /\ used = 0 /\ late = FALSE
  /\ permits = AtLeastOne(Concurrency)
  /\ pc = [p \in Ports |-> "queued"]
  /\ protocol = [p \in Ports |-> "none"]
  /\ tls = [p \in Ports |-> FALSE]
  /\ tried = [p \in Ports |-> 0]
  /\ state = [p \in Ports |-> "unknown"]
  /\ opened = [p \in Ports |-> 0]

Move(p, from, to) == pc[p] = from /\ pc' = [pc EXCEPT ![p] = to]

\* Faulty variant: the permit is not dropped.
ReturnKeepPermit(p, from, result) ==
  /\ Move(p, from, "done")
  /\ state' = [state EXCEPT ![p] = result]
  /\ UNCHANGED permits

\* The result of p is returned, and the permit dropped.
Return(p, from, result) ==
  /\ Move(p, from, "done")
  /\ state' = [state EXCEPT ![p] = result]
  /\ permits' = permits + 1

-----------------------------------------------------------------------------
(* ConnectionBudget::reserve.                                              *)

\* Faulty variants: one connection too many, or too few, is allowed.
MayConnectOneMore == ~late /\ used <= Maximum
MayConnectOneLess == ~late /\ used + 1 < Maximum

MayConnect == ~late /\ used < Maximum

\* reserve returns true and p opens a connection.
Connect(p) ==
  /\ MayConnect
  /\ used' = used + 1
  /\ opened' = [opened EXCEPT ![p] = @ + 1]

\* reserve returns false, or is not called.
NoConnection == UNCHANGED <<used, opened>>

\* The deadline passes.
PassDeadline ==
  /\ ~late /\ late' = TRUE
  /\ UNCHANGED <<passive, used, permits, pc, profile, state, opened>>

-----------------------------------------------------------------------------
(* The task of port p.                                                     *)

\* sem.acquire().await
Acquire(p) ==
  /\ Move(p, "queued", "admit")
  /\ permits > 0 /\ permits' = permits - 1
  /\ UNCHANGED <<passive, budget, profile, state, opened>>

\* The first connection is allowed ...
Admit(p) ==
  /\ Move(p, "admit", "connect")
  /\ Connect(p)
  /\ UNCHANGED <<passive, late, permits, profile, state>>

\* ... or not: filtered_result.
Refuse(p) ==
  /\ ~MayConnect
  /\ Return(p, "admit", "filtered")
  /\ UNCHANGED <<passive, budget, profile, opened>>

\* The connection fails: closed_result.
Closed(p) ==
  /\ Return(p, "connect", "closed")
  /\ UNCHANGED <<passive, budget, profile, opened>>

\* The greeting, or the answer to protocol_probe, is parsed.
Greet(p) ==
  /\ Move(p, "connect", IF passive THEN "classify" ELSE "tls")
  /\ \E kind \in Protocols : protocol' = [protocol EXCEPT ![p] = kind]
  /\ UNCHANGED <<passive, budget, permits, tls, tried, state, opened>>

ProbeTls(p) ==
  /\ Move(p, "tls", "certificate")
  /\ \/ Connect(p) /\ \E found \in BOOLEAN : tls' = [tls EXCEPT ![p] = found]
     \/ ~MayConnect /\ NoConnection /\ UNCHANGED tls
  /\ UNCHANGED <<passive, late, permits, protocol, tried, state>>

\* The certificate is fetched if TLS was seen, or is likely on this port.
ProbeCertificate(p) ==
  /\ Move(p, "certificate", "versions")
  /\ LET wanted == tls[p] \/ p \in TlsPorts
     IN  \/ /\ wanted /\ Connect(p)
            /\ \E found \in BOOLEAN : tls' = [tls EXCEPT ![p] = @ \/ found]
         \/ ~(wanted /\ MayConnect) /\ NoConnection /\ UNCHANGED tls
  /\ UNCHANGED <<passive, late, permits, protocol, tried, state>>

\* One TLS version; a version for which reserve fails is passed over.
ProbeVersion(p) ==
  /\ pc[p] = "versions" /\ tls[p] /\ tried[p] < TlsVersions
  /\ tried' = [tried EXCEPT ![p] = @ + 1]
  /\ Connect(p) \/ (~MayConnect /\ NoConnection)
  /\ UNCHANGED <<passive, late, permits, pc, protocol, tls, state>>

\* Faulty variant: TLS does not count as a protocol.
EndTlsUnknown(p) ==
  /\ Move(p, "versions", "classify")
  /\ tls[p] => tried[p] = TlsVersions
  /\ tried' = [tried EXCEPT ![p] = 0]
  /\ UNCHANGED <<passive, budget, permits, protocol, tls, state, opened>>

\* An unknown protocol over TLS is https.
EndTls(p) ==
  /\ Move(p, "versions", "classify")
  /\ tls[p] => tried[p] = TlsVersions
  /\ tried' = [tried EXCEPT ![p] = 0]
  /\ protocol' = [protocol EXCEPT ![p] = IF tls[p] /\ @ = "none" THEN "plain" ELSE @]
  /\ UNCHANGED <<passive, budget, permits, tls, state, opened>>

\* probe_unknown_service has more to try.
Unknown(p) == ~passive /\ protocol[p] = "none" /\ tried[p] < GenericProbes

ProbeGeneric(p) ==
  /\ pc[p] = "classify" /\ Unknown(p)
  /\ Connect(p)
  /\ tried' = [tried EXCEPT ![p] = @ + 1]
  /\ \E kind \in Protocols : protocol' = [protocol EXCEPT ![p] = kind]
  /\ UNCHANGED <<passive, late, permits, pc, tls, state>>

\* A protocol was found, or nothing more can be tried: the port decides.
Classify(p) ==
  /\ Move(p, "classify", "enrich")
  /\ ~Unknown(p) \/ ~MayConnect
  /\ protocol' = [protocol EXCEPT ![p] = IF @ = "none" THEN ServiceOf[p] ELSE @]
  /\ UNCHANGED <<passive, budget, permits, tls, tried, state, opened>>

\* Faulty variant: the probes of known protocols are not taken from the budget.
EnrichUncounted(p) ==
  /\ Return(p, "enrich", "open")
  /\ IF ~passive /\ (protocol[p] = "checked" \/ (protocol[p] = "ftp" /\ AllowRisky))
     THEN opened' = [opened EXCEPT ![p] = @ + 1]
     ELSE UNCHANGED opened
  /\ UNCHANGED <<passive, budget, profile>>

\* enrich_service_profile, and the port is reported as open.
Enrich(p) ==
  /\ Return(p, "enrich", "open")
  /\ LET wanted == ~passive /\ (protocol[p] = "checked" \/ (protocol[p] = "ftp" /\ AllowRisky))
     IN  \/ wanted /\ Connect(p)
         \/ ~(wanted /\ MayConnect) /\ NoConnection
  /\ UNCHANGED <<passive, late, profile>>

-----------------------------------------------------------------------------
PortStep(p) ==
  \/ Acquire(p) \/ Admit(p) \/ Refuse(p) \/ Closed(p) \/ Greet(p)
  \/ ProbeTls(p) \/ ProbeCertificate(p) \/ ProbeVersion(p) \/ EndTls(p)
  \/ ProbeGeneric(p) \/ Classify(p) \/ Enrich(p)

Next == PassDeadline \/ \E p \in Ports : PortStep(p)

Spec == Init /\ [][Next]_vars

\* Every connection, read and write has a timeout, so tasks keep running.
FairSpec == Spec /\ \A p \in Ports : WF_vars(PortStep(p))

-----------------------------------------------------------------------------
(* Properties.                                                             *)

Running == {p \in Ports : pc[p] \notin {"queued", "done"}}

\* Type invariant; at most `concurrency` ports are scanned at a time, on every
\* way out of a task.
TypeOK ==
  /\ passive \in BOOLEAN /\ late \in BOOLEAN
  /\ used \in 0 .. Maximum
  /\ permits + Cardinality(Running) = AtLeastOne(Concurrency)
  /\ pc \in [Ports -> {"queued", "admit", "connect", "tls", "certificate", "versions",
                       "classify", "enrich", "done"}]
  /\ protocol \in [Ports -> Protocols]
  /\ tls \in [Ports -> BOOLEAN]
  /\ tried \in [Ports -> Nat]
  /\ state \in [Ports -> {"unknown", "open", "closed", "filtered"}]
  /\ \A p \in Ports : state[p] # "unknown" <=> pc[p] = "done"

\* The connections that were opened, numbered by the task that opened them.
Connections == UNION {{p} \X (1 .. opened[p]) : p \in Ports}

\* However many tasks reserve at the same time and whichever probes they go
\* through, the host sees no more connections than its budget.
BudgetRespected == Cardinality(Connections) <= Maximum

\* A port is left out only if the budget is spent or the time is over: no port is
\* dropped while there are connections left.
FilteredOnlyWhenSpent ==
  \A p \in Ports : state[p] = "filtered" => used = Maximum \/ late

\* What one port can take from the others: one connection in a passive scan; else
\* the first one, TLS, certificate, one enrichment, and either the TLS versions
\* or the generic probes, never both, since a TLS service counts as known.
PortCost ==
  \A p \in Ports :
    opened[p] <= IF passive THEN 1
                 ELSE 4 + (IF tls[p] THEN TlsVersions ELSE GenericProbes)

\* Every port gets a result, whatever the others use up.
AllPortsScanned == <>(\A p \in Ports : pc[p] = "done")

=============================================================================
