---------------------------- MODULE RealtimeProofs ----------------------------
(***************************************************************************)
(* Theorems about Realtime, for any connections, any capacity of the log   *)
(* and of the channel, and any number of scans, commands and findings.     *)
(***************************************************************************)
EXTENDS Realtime, SequenceTheorems, TLAPS

-----------------------------------------------------------------------------
(* Type correctness.                                                       *)

\* A connection names a scan exactly while it handles a command about it.
ClientInv ==
  \A c \in Clients :
    IF cpc[c] \in {"start", "insert", "cancel", "pause", "resume"}
    THEN scan[c] \in 1 .. scanSeq - 1 ELSE scan[c] = 0

\* Of a running scan the id was handed out.
StartedInv == \A s \in ScanIds : spc[s] # "none" => s < scanSeq

\* The constants, as the proofs use them.
LEMMA ConstantFacts ==
  /\ EventLogCapacity \in Nat /\ EventLogCapacity > 0
  /\ MaxScans \in Nat /\ MaxCommands \in Nat /\ MaxFindings \in Nat
  /\ Clients \subseteq Emitters /\ ScanIds \subseteq Emitters
  /\ Watchers \subseteq Clients
  /\ Clients \cap ScanIds = {}
  /\ ScanIds \subseteq Nat /\ 0 \notin ScanIds
BY RealtimeAssumption DEF Emitters, ScanIds

\* TypeOK in parts: what all share, the connections, the scan tasks.
EmitTypesOK ==
  /\ log \in Seq(Events) /\ Len(log) <= EventLogCapacity
  /\ event \in [Emitters -> Events \cup {NoEvent}]

SharedTypesOK ==
  /\ scanSeq \in 1 .. MaxScans + 1
  /\ sent \in Seq(Events)
  /\ DOMAIN scans \subseteq 1 .. scanSeq - 1
  /\ \A s \in DOMAIN scans : scans[s] \in BOOLEAN
  /\ aborted \subseteq 1 .. scanSeq - 1

ClientTypesOK ==
  /\ cpc \in [Clients -> {"accepted", "greet", "subscribe", "live", "start", "insert",
                          "cancel", "pause", "resume", "closed"}]
  /\ scan \in [Clients -> 0 .. MaxScans]
  /\ commands \in 0 .. MaxCommands

SocketTypesOK ==
  /\ seen \in [Watchers -> Seq(Events)]
  /\ pos \in [Watchers -> Nat] /\ joined \in [Watchers -> Nat]
  /\ \A c \in Watchers : pos[c] <= Len(sent)

TaskTypesOK ==
  /\ spc \in [ScanIds -> {"none", "spawned", "scanning", "report", "complete",
                          "remove", "done"}]
  /\ findings \in [ScanIds -> 0 .. MaxFindings]

TypeInv ==
  /\ EmitTypesOK /\ SharedTypesOK /\ ClientTypesOK /\ SocketTypesOK /\ TaskTypesOK
  /\ ClientInv /\ StartedInv

\* The parts make up TypeOK.
LEMMA TypeParts == TypeInv => TypeOK
BY DEF TypeInv, TypeOK, EmitTypesOK, SharedTypesOK, ClientTypesOK, SocketTypesOK, TaskTypesOK

\* The initial states are typed.
LEMMA InitTypes == Init => TypeInv
PROOF
  <1> SUFFICES ASSUME Init PROVE TypeInv
    OBVIOUS
  <1>1. /\ <<>> \in Seq(Events) /\ Len(<<>>) = 0
        /\ DOMAIN scans = {}
    BY EmptySeq DEF Init
  <1>2. EmitTypesOK /\ SharedTypesOK /\ ClientTypesOK /\ SocketTypesOK /\ TaskTypesOK
    BY <1>1, ConstantFacts
      DEF Init, EmitTypesOK, SharedTypesOK, ClientTypesOK, SocketTypesOK, TaskTypesOK
  <1> QED
    BY <1>2, ConstantFacts DEF Init, TypeInv, ClientInv, StartedInv

\* The locked section of emit keeps the log within its capacity.
LEMMA EmitTypes ==
  ASSUME EmitTypesOK, NEW e \in Emitters, NEW s \in 0 .. MaxScans, NEW k \in Kinds, Emit(e, s, k)
  PROVE  EmitTypesOK'
PROOF
  <1> DEFINE ev == [scan |-> s, kind |-> k]
  <1>1. ev \in Events
    BY DEF Events
  <1>2. log \in Seq(Events) /\ Len(log) \in Nat /\ Len(log) <= EventLogCapacity
    BY LenProperties DEF EmitTypesOK
  <1>3. CASE Len(log) = EventLogCapacity
    <2>1. log # <<>>
      BY <1>2, <1>3, ConstantFacts, EmptySeq
    <2>2. Tail(log) \in Seq(Events) /\ Len(Tail(log)) = Len(log) - 1
      BY <1>2, <2>1, HeadTailProperties
    <2>3. log' = Append(Tail(log), ev)
      BY <1>3 DEF Emit
    <2>4. log' \in Seq(Events) /\ Len(log') = Len(log)
      <3> HIDE DEF ev
      <3> QED
        BY <1>1, <1>2, <2>2, <2>3, AppendProperties
    <2> QED
      BY <1>1, <1>2, <2>4 DEF Emit, EmitTypesOK
  <1>4. CASE Len(log) # EventLogCapacity
    <2>1. log' = Append(log, ev)
      BY <1>4 DEF Emit
    <2>2. log' \in Seq(Events) /\ Len(log') = Len(log) + 1
      <3> HIDE DEF ev
      <3> QED
        BY <1>1, <1>2, <2>1, AppendProperties
    <2> QED
      BY <1>1, <1>2, <1>4, <2>2, ConstantFacts DEF Emit, EmitTypesOK
  <1> QED
    BY <1>3, <1>4

\* A connection that handles a command about a scan has handed out its id.
LEMMA ScanOfClient ==
  ASSUME TypeInv, NEW c \in Clients,
         cpc[c] \in {"start", "insert", "cancel", "pause", "resume"}
  PROVE  scan[c] \in ScanIds /\ scan[c] \in 0 .. MaxScans /\ scan[c] < scanSeq
BY ConstantFacts DEF TypeInv, SharedTypesOK, ClientInv, ScanIds

\* Types that a step leaves alone.
LEMMA SameTypes ==
  ASSUME TypeInv
  PROVE  /\ UNCHANGED <<log, event>> => EmitTypesOK'
         /\ UNCHANGED <<scanSeq, sent, scans, aborted>> => SharedTypesOK'
         /\ UNCHANGED <<cpc, scan, commands>> => ClientTypesOK'
         /\ UNCHANGED <<seen, pos, joined, sent>> => SocketTypesOK'
         /\ UNCHANGED <<spc, findings>> => TaskTypesOK'
         /\ UNCHANGED <<cpc, scan, scanSeq>> => ClientInv'
         /\ UNCHANGED <<spc, scanSeq>> => StartedInv'
PROOF
  <1>1. UNCHANGED <<log, event>> => EmitTypesOK'
    BY DEF TypeInv, EmitTypesOK
  <1>2. UNCHANGED <<scanSeq, sent, scans, aborted>> => SharedTypesOK'
    BY DEF TypeInv, SharedTypesOK
  <1>3. UNCHANGED <<cpc, scan, commands>> => ClientTypesOK'
    BY DEF TypeInv, ClientTypesOK
  <1>4. UNCHANGED <<seen, pos, joined, sent>> => SocketTypesOK'
    BY DEF TypeInv, SocketTypesOK
  <1>5. UNCHANGED <<spc, findings>> => TaskTypesOK'
    BY DEF TypeInv, TaskTypesOK
  <1>6. UNCHANGED <<cpc, scan, scanSeq>> => ClientInv'
    BY DEF TypeInv, ClientInv
  <1>7. UNCHANGED <<spc, scanSeq>> => StartedInv'
    BY DEF TypeInv, StartedInv
  <1> QED
    BY <1>1, <1>2, <1>3, <1>4, <1>5, <1>6, <1>7

\* The steps in which a connection handles a command keep the types.
LEMMA CommandTypes ==
  ASSUME TypeInv, NEW c \in Clients, CommandStep(c)
  PROVE  TypeInv'
PROOF
  <1> USE SameTypes, ConstantFacts DEF MoveClient, shared, scanVars
  <1>a. cpc[c] \in {"start", "insert", "cancel", "pause", "resume"} =>
          scan[c] \in ScanIds /\ scan[c] \in 0 .. MaxScans /\ scan[c] \in 1 .. scanSeq - 1
    BY ScanOfClient DEF TypeInv, ClientInv
  <1>1. CASE Spawn(c)
    <2>1. ClientTypesOK' /\ ClientInv'
      BY <1>1 DEF Spawn, TypeInv, ClientTypesOK, ClientInv
    <2>2. TaskTypesOK'
      BY <1>1, <1>a DEF Spawn, TypeInv, TaskTypesOK
    <2>3. StartedInv'
      <3>1. scan[c] \in Nat /\ scan[c] < scanSeq
        BY <1>1, <1>a, ScanOfClient DEF Spawn
      <3>2. \A s \in ScanIds : spc'[s] # "none" => s = scan[c] \/ spc[s] # "none"
        BY <1>1 DEF Spawn, TypeInv, TaskTypesOK
      <3> QED
        BY <1>1, <3>1, <3>2 DEF Spawn, TypeInv, StartedInv
    <2> QED
      BY <1>1, <2>1, <2>2, <2>3 DEF Spawn, TypeInv
  <1>2. CASE RejectPorts(c)
    <2>1. EmitTypesOK'
      BY <1>2, <1>a, EmitTypes DEF RejectPorts, TypeInv, Kinds
    <2>2. ClientTypesOK' /\ ClientInv'
      BY <1>2 DEF RejectPorts, TypeInv, ClientTypesOK, ClientInv
    <2> QED
      BY <1>2, <2>1, <2>2 DEF RejectPorts, TypeInv
  <1>3. CASE Insert(c)
    <2>1. SharedTypesOK'
      BY <1>3, <1>a DEF Insert, TypeInv, SharedTypesOK
    <2>2. ClientTypesOK' /\ ClientInv'
      BY <1>3 DEF Insert, TypeInv, ClientTypesOK, ClientInv
    <2> QED
      BY <1>3, <2>1, <2>2 DEF Insert, TypeInv
  <1>4. CASE Abort(c)
    <2>1. EmitTypesOK'
      BY <1>4, <1>a, EmitTypes DEF Abort, TypeInv, Kinds
    <2>2. SharedTypesOK'
      BY <1>4, <1>a DEF Abort, TypeInv, SharedTypesOK
    <2>3. ClientTypesOK' /\ ClientInv'
      BY <1>4 DEF Abort, TypeInv, ClientTypesOK, ClientInv
    <2> QED
      BY <1>4, <2>1, <2>2, <2>3 DEF Abort, TypeInv
  <1>5. CASE Acknowledge(c)
    <2>1. EmitTypesOK'
      BY <1>5, <1>a, EmitTypes DEF Acknowledge, TypeInv, Kinds
    <2>2. ClientTypesOK' /\ ClientInv'
      BY <1>5 DEF Acknowledge, TypeInv, ClientTypesOK, ClientInv
    <2> QED
      BY <1>5, <2>1, <2>2 DEF Acknowledge, TypeInv
  <1> QED
    BY <1>1, <1>2, <1>3, <1>4, <1>5 DEF CommandStep
\* The other steps of a connection keep the types.
LEMMA ConnectionTypes ==
  ASSUME TypeInv, NEW c \in Clients, ClientStep(c)
  PROVE  TypeInv'
PROOF
  <1> USE SameTypes, ConstantFacts DEF MoveClient, shared, scanVars, Live
  <1>0. Len(sent) \in Nat /\ commands \in Nat
    BY LenProperties DEF TypeInv, SharedTypesOK, ClientTypesOK
  <1>a. Command(c) => commands' \in 0 .. MaxCommands
    BY <1>0 DEF Command
  <1>1. CASE Replay(c)
    <2>1. ClientTypesOK' /\ ClientInv'
      BY <1>1 DEF Replay, TypeInv, ClientTypesOK, ClientInv
    <2>2. SocketTypesOK'
      BY <1>1 DEF Replay, TypeInv, EmitTypesOK, SocketTypesOK
    <2> QED
      BY <1>1, <2>1, <2>2 DEF Replay, TypeInv
  <1>2. CASE Greet(c)
    <2>1. EmitTypesOK'
      BY <1>2, EmitTypes DEF Greet, TypeInv, Kinds
    <2>2. ClientTypesOK' /\ ClientInv'
      BY <1>2 DEF Greet, TypeInv, ClientTypesOK, ClientInv
    <2> QED
      BY <1>2, <2>1, <2>2 DEF Greet, TypeInv
  <1>3. CASE Subscribe(c)
    <2>1. ClientTypesOK' /\ ClientInv'
      BY <1>3 DEF Subscribe, TypeInv, ClientTypesOK, ClientInv
    <2>2. SocketTypesOK'
      BY <1>0, <1>3 DEF Subscribe, TypeInv, SocketTypesOK
    <2> QED
      BY <1>3, <2>1, <2>2 DEF Subscribe, TypeInv
  <1>4. CASE Receive(c)
    <2>1. pos[c] + 1 \in 1 .. Len(sent)
      BY <1>0, <1>4 DEF Receive, TypeInv, SocketTypesOK
    <2>2. sent[pos[c] + 1] \in Events
      BY <2>1, ElementOfSeq DEF TypeInv, SharedTypesOK
    <2>3. Append(seen[c], sent[pos[c] + 1]) \in Seq(Events)
      BY <1>4, <2>2, AppendProperties DEF Receive, TypeInv, SocketTypesOK
    <2>4. SocketTypesOK'
      <3>1. seen' \in [Watchers -> Seq(Events)]
        BY <1>4, <2>3 DEF Receive, TypeInv, SocketTypesOK
      <3>2. /\ pos' \in [Watchers -> Nat]
            /\ \A d \in Watchers : pos'[d] <= Len(sent)
        BY <1>0, <1>4, <2>1 DEF Receive, TypeInv, SocketTypesOK
      <3> QED
        BY <1>4, <3>1, <3>2 DEF Receive, TypeInv, SocketTypesOK
    <2> QED
      BY <1>4, <2>4 DEF Receive, TypeInv
  <1>5. CASE Lagged(c) \/ Close(c)
    <2>1. EndConnection(c) /\ c \in Watchers /\ (cpc[c] = "greet" \/ cpc[c] = "live")
      BY <1>5 DEF Lagged, Close
    <2>2. ClientTypesOK' /\ ClientInv'
      BY <2>1 DEF EndConnection, TypeInv, ClientTypesOK, ClientInv
    <2>3. SocketTypesOK'
      BY <1>0, <2>1, EmptySeq DEF EndConnection, TypeInv, SocketTypesOK
    <2> QED
      BY <2>1, <2>2, <2>3 DEF EndConnection, TypeInv
  <1>6. CASE Answer(c)
    <2>1. EmitTypesOK'
      BY <1>6, EmitTypes DEF Answer, TypeInv, Kinds
    <2>2. ClientTypesOK'
      BY <1>6, <1>a DEF Answer, TypeInv, ClientTypesOK
    <2> QED
      BY <1>6, <2>1, <2>2 DEF Answer, TypeInv
  <1>7. CASE StartScan(c)
    <2>0. scanSeq \in 1 .. MaxScans /\ scanSeq \in Nat
      BY <1>7 DEF StartScan, ScanIds
    <2>1. EmitTypesOK'
      BY <1>7, <2>0, EmitTypes DEF StartScan, TypeInv, Kinds
    <2>2. SharedTypesOK'
      BY <1>7, <2>0 DEF StartScan, TypeInv, SharedTypesOK
    <2>3. ClientTypesOK'
      BY <1>7, <1>a, <2>0 DEF StartScan, TypeInv, ClientTypesOK
    <2>4. ClientInv' /\ StartedInv'
      BY <1>7, <2>0 DEF StartScan, TypeInv, ClientTypesOK, ClientInv, StartedInv
    <2> QED
      BY <1>7, <2>1, <2>2, <2>3, <2>4 DEF StartScan, TypeInv
  <1>8. CASE CancelScan(c)
    <2>1. PICK s \in DOMAIN scans :
            /\ scan' = [scan EXCEPT ![c] = s]
            /\ scans' = Without(s)
      BY <1>8 DEF CancelScan
    <2>2. s \in 1 .. scanSeq - 1 /\ s \in 0 .. MaxScans
      BY DEF TypeInv, SharedTypesOK
    <2>3. SharedTypesOK'
      BY <1>8, <2>1 DEF CancelScan, Without, TypeInv, SharedTypesOK
    <2>4. ClientTypesOK'
      BY <1>8, <1>a, <2>1, <2>2 DEF CancelScan, TypeInv, ClientTypesOK
    <2>5. ClientInv'
      BY <1>8, <2>1, <2>2 DEF CancelScan, TypeInv, ClientTypesOK, ClientInv
    <2> QED
      BY <1>8, <2>3, <2>4, <2>5 DEF CancelScan, TypeInv
  <1>9. CASE SetPaused(c)
    <2>1. PICK s \in DOMAIN scans, paused \in BOOLEAN :
            /\ scan' = [scan EXCEPT ![c] = s]
            /\ scans' = [scans EXCEPT ![s] = paused]
            /\ cpc' = [cpc EXCEPT ![c] = IF paused THEN "pause" ELSE "resume"]
      BY <1>9 DEF SetPaused
    <2>2. s \in 1 .. scanSeq - 1 /\ s \in 0 .. MaxScans
      BY DEF TypeInv, SharedTypesOK
    <2>3. SharedTypesOK'
      BY <1>9, <2>1 DEF SetPaused, TypeInv, SharedTypesOK
    <2>4. ClientTypesOK'
      BY <1>9, <1>a, <2>1, <2>2 DEF SetPaused, TypeInv, ClientTypesOK
    <2>5. ClientInv'
      BY <1>9, <2>1, <2>2 DEF SetPaused, TypeInv, ClientTypesOK, ClientInv
    <2> QED
      BY <1>9, <2>3, <2>4, <2>5 DEF SetPaused, TypeInv
  <1> QED
    BY <1>1, <1>2, <1>3, <1>4, <1>5, <1>6, <1>7, <1>8, <1>9 DEF ClientStep

\* The steps of a scan task and of emit keep the types.
LEMMA TaskTypes ==
  ASSUME TypeInv,
         (\E s \in ScanIds : ScanStep(s)) \/ (\E e \in Emitters : Send(e)) \/ UNCHANGED vars
  PROVE  TypeInv'
PROOF
  <1> USE SameTypes, ConstantFacts DEF MoveScan, shared, scanVars, clientVars
  <1>1. ASSUME NEW s \in ScanIds, ScanStep(s) PROVE TypeInv'
    <2>0. s \in Emitters /\ s \in 0 .. MaxScans
      BY DEF ScanIds
    <2>1. CASE BeginScan(s)
      <3>1. EmitTypesOK'
        BY <2>0, <2>1, EmitTypes DEF BeginScan, TypeInv, Kinds
      <3>2. TaskTypesOK' /\ StartedInv'
        BY <2>1 DEF BeginScan, TypeInv, TaskTypesOK, StartedInv
      <3> QED
        BY <2>1, <3>1, <3>2 DEF BeginScan, TypeInv
    <2>2. CASE ScanOk(s)
      <3>1. TaskTypesOK' /\ StartedInv'
        BY <2>2 DEF ScanOk, TypeInv, TaskTypesOK, StartedInv
      <3> QED
        BY <2>2, <3>1 DEF ScanOk, TypeInv
    <2>3. CASE ReportFinding(s)
      <3>1. EmitTypesOK'
        BY <2>0, <2>3, EmitTypes DEF ReportFinding, TypeInv, Kinds
      <3>2. TaskTypesOK'
        BY <2>3 DEF ReportFinding, TypeInv, TaskTypesOK
      <3> QED
        BY <2>3, <3>1, <3>2 DEF ReportFinding, TypeInv
    <2>4. CASE ReportArtifacts(s)
      <3>1. EmitTypesOK'
        BY <2>0, <2>4, EmitTypes DEF ReportArtifacts, TypeInv, Kinds
      <3>2. TaskTypesOK' /\ StartedInv'
        BY <2>4 DEF ReportArtifacts, TypeInv, TaskTypesOK, StartedInv
      <3> QED
        BY <2>4, <3>1, <3>2 DEF ReportArtifacts, TypeInv
    <2>5. CASE Complete(s)
      <3>1. EmitTypesOK'
        BY <2>0, <2>5, EmitTypes DEF Complete, TypeInv, Kinds
      <3>2. TaskTypesOK' /\ StartedInv'
        BY <2>5 DEF Complete, TypeInv, TaskTypesOK, StartedInv
      <3> QED
        BY <2>5, <3>1, <3>2 DEF Complete, TypeInv
    <2>6. CASE ScanErr(s)
      <3>1. EmitTypesOK'
        BY <2>0, <2>6, EmitTypes DEF ScanErr, TypeInv, Kinds
      <3>2. TaskTypesOK' /\ StartedInv'
        BY <2>6 DEF ScanErr, TypeInv, TaskTypesOK, StartedInv
      <3> QED
        BY <2>6, <3>1, <3>2 DEF ScanErr, TypeInv
    <2>7. CASE RemoveScan(s)
      <3>1. TaskTypesOK' /\ StartedInv'
        BY <2>7 DEF RemoveScan, TypeInv, TaskTypesOK, StartedInv
      <3>2. SharedTypesOK'
        BY <2>7 DEF RemoveScan, Without, TypeInv, SharedTypesOK
      <3> QED
        BY <2>7, <3>1, <3>2 DEF RemoveScan, TypeInv
    <2> QED
      BY <1>1, <2>1, <2>2, <2>3, <2>4, <2>5, <2>6, <2>7 DEF ScanStep
  <1>2. ASSUME NEW e \in Emitters, Send(e) PROVE TypeInv'
    <2>1. event[e] \in Events /\ sent \in Seq(Events)
      BY <1>2 DEF Send, Idle, TypeInv, EmitTypesOK, SharedTypesOK
    <2>2. /\ sent' \in Seq(Events)
          /\ Len(sent') = Len(sent) + 1 /\ Len(sent) \in Nat
      BY <1>2, <2>1, AppendProperties, LenProperties DEF Send
    <2>3. EmitTypesOK'
      BY <1>2 DEF Send, TypeInv, EmitTypesOK
    <2>4. SharedTypesOK'
      BY <1>2, <2>2 DEF Send, TypeInv, SharedTypesOK
    <2>5. SocketTypesOK'
      BY <1>2, <2>2 DEF Send, TypeInv, SocketTypesOK
    <2> QED
      BY <1>2, <2>3, <2>4, <2>5 DEF Send, TypeInv
  <1>3. CASE UNCHANGED vars
    BY <1>3 DEF vars, TypeInv
  <1> QED
    BY <1>1, <1>2, <1>3

\* Every step keeps the types.
LEMMA TypeNext == TypeInv /\ [Next]_vars => TypeInv'
BY CommandTypes, ConnectionTypes, TaskTypes DEF Next

-----------------------------------------------------------------------------
(* Nothing is lost: the log is written before the channel.                  *)

Within(l, ev) == \E j \in 1 .. Len(l) : l[j] = ev

\* While the log has room, all that was sent, and all that will be, is in it.
LoggedInv ==
  Len(log) # EventLogCapacity =>
    /\ \A i \in 1 .. Len(sent) : Within(log, sent[i])
    /\ \A e \in Emitters : event[e] # NoEvent => Within(log, event[e])

\* The socket s ends with what the channel t has from j + 1 to p.
Matches(s, t, j, p) ==
  /\ j <= p
  /\ p - j <= Len(s)
  /\ \A i \in 1 .. p - j : s[Len(s) - (p - j) + i] = t[j + i]

\* A watcher subscribes once, and has received what the channel had since then.
GapInv ==
  \A c \in Watchers :
    /\ Matches(seen[c], sent, joined[c], pos[c])
    /\ cpc[c] \in {"accepted", "greet", "subscribe"} => pos[c] = joined[c]

\* Every step either leaves the log and the channel alone, or is one of emit's two.
LEMMA EmitCases ==
  ASSUME TypeInv, [Next]_vars
  PROVE  \/ UNCHANGED <<log, event, sent>>
         \/ /\ sent' = sent
            /\ \E e \in Emitters, s \in 0 .. MaxScans, k \in Kinds : Emit(e, s, k)
         \/ \E e \in Emitters : Send(e)
PROOF
  <1> DEFINE P == \/ UNCHANGED <<log, event, sent>>
                  \/ /\ sent' = sent
                     /\ \E e \in Emitters, s \in 0 .. MaxScans, k \in Kinds : Emit(e, s, k)
                  \/ \E e \in Emitters : Send(e)
  <1> USE ConstantFacts DEF shared
  <1>0. \A k \in {"queued", "progress", "finding", "log", "error", "artifact",
                  "completed", "paused", "resumed", "cancelled"} : k \in Kinds
    BY DEF Kinds
  <1>1. ASSUME NEW c \in Clients, CommandStep(c) PROVE P
    <2>1. scan[c] \in 0 .. MaxScans /\ c \in Emitters
      BY DEF TypeInv, ClientTypesOK
    <2>2. CASE Spawn(c) \/ Insert(c)
      BY <2>2 DEF Spawn, Insert
    <2>3. CASE RejectPorts(c) \/ Abort(c) \/ Acknowledge(c)
      <3>1. PICK k \in {"error", "cancelled", "paused", "resumed"} :
              Emit(c, scan[c], k) /\ sent' = sent
        BY <2>3 DEF RejectPorts, Abort, Acknowledge
      <3> QED
        BY <1>0, <2>1, <3>1
    <2> QED
      BY <1>1, <2>2, <2>3 DEF CommandStep
  <1>2. ASSUME NEW c \in Clients, ClientStep(c) PROVE P
    <2>1. c \in Emitters /\ 0 \in 0 .. MaxScans
      OBVIOUS
    <2>2. CASE \/ Replay(c) \/ Subscribe(c) \/ Receive(c) \/ Lagged(c) \/ Close(c)
               \/ CancelScan(c) \/ SetPaused(c)
      BY <2>2 DEF Replay, Subscribe, Receive, Lagged, Close, EndConnection, CancelScan, SetPaused
    <2>3. CASE Greet(c) \/ Answer(c)
      BY <1>0, <2>1, <2>3 DEF Greet, Answer
    <2>4. CASE StartScan(c)
      <3>1. scanSeq \in 0 .. MaxScans /\ Emit(c, scanSeq, "queued") /\ sent' = sent
        BY <2>4 DEF StartScan, ScanIds
      <3> QED
        BY <1>0, <2>1, <3>1
    <2> QED
      BY <1>2, <2>2, <2>3, <2>4 DEF ClientStep
  <1>3. ASSUME NEW s \in ScanIds, ScanStep(s) PROVE P
    <2>1. s \in Emitters /\ s \in 0 .. MaxScans
      BY DEF ScanIds
    <2>2. CASE ScanOk(s) \/ RemoveScan(s)
      BY <2>2 DEF ScanOk, RemoveScan
    <2>3. CASE BeginScan(s) \/ ReportFinding(s) \/ ReportArtifacts(s) \/ Complete(s) \/ ScanErr(s)
      <3>1. PICK k \in {"progress", "finding", "artifact", "completed", "error"} :
              Emit(s, s, k) /\ sent' = sent
        BY <2>3 DEF BeginScan, ReportFinding, ReportArtifacts, Complete, ScanErr
      <3> QED
        BY <1>0, <2>1, <3>1
    <2> QED
      BY <1>3, <2>2, <2>3 DEF ScanStep
  <1>4. CASE UNCHANGED vars
    BY <1>4 DEF vars
  <1> QED
    BY <1>1, <1>2, <1>3, <1>4 DEF Next

\* The locked section of emit logs the event, and while there is room drops nothing.
LEMMA EmitLogs ==
  ASSUME TypeInv, NEW e \in Emitters, NEW s \in 0 .. MaxScans, NEW k \in Kinds, Emit(e, s, k),
         Len(log') # EventLogCapacity
  PROVE  /\ Len(log) # EventLogCapacity
         /\ Within(log', [scan |-> s, kind |-> k])
         /\ \A ev : Within(log, ev) => Within(log', ev)
PROOF
  <1> DEFINE ev == [scan |-> s, kind |-> k]
  <1>1. ev \in Events
    BY DEF Events
  <1>2. log \in Seq(Events) /\ Len(log) \in Nat
    BY LenProperties DEF TypeInv, EmitTypesOK
  <1>3. Len(log) # EventLogCapacity
    <2> SUFFICES ASSUME Len(log) = EventLogCapacity PROVE FALSE
      OBVIOUS
    <2>1. log # <<>>
      BY <1>2, ConstantFacts, EmptySeq
    <2>2. Tail(log) \in Seq(Events) /\ Len(Tail(log)) = Len(log) - 1
      BY <1>2, <2>1, HeadTailProperties
    <2>3. log' = Append(Tail(log), ev)
      BY DEF Emit
    <2>4. Len(log') = Len(log)
      <3> HIDE DEF ev
      <3> QED
        BY <1>1, <1>2, <2>2, <2>3, AppendProperties
    <2> QED
      BY <2>4
  <1>4. log' = Append(log, ev)
    BY <1>3 DEF Emit
  <1>5. /\ Len(log') = Len(log) + 1
        /\ \A i \in 1 .. Len(log) : log'[i] = log[i]
        /\ log'[Len(log) + 1] = ev
    <2> HIDE DEF ev
    <2> QED
      BY <1>1, <1>2, <1>4, AppendProperties
  <1>6. Within(log', ev)
    <2> HIDE DEF ev
    <2>1. Len(log) + 1 \in 1 .. Len(log')
      BY <1>2, <1>5
    <2>2. \E j \in 1 .. Len(log') : log'[j] = ev
      BY <1>5, <2>1
    <2> QED
      BY <2>2 DEF Within, ev
  <1>7. ASSUME NEW r, Within(log, r) PROVE Within(log', r)
    <2>1. PICK j \in 1 .. Len(log) : log[j] = r
      BY <1>7 DEF Within
    <2>2. j \in 1 .. Len(log') /\ log'[j] = r
      BY <1>2, <1>5, <2>1
    <2>3. \E i \in 1 .. Len(log') : log'[i] = r
      BY <2>2
    <2> QED
      BY <2>3 DEF Within
  <1> QED
    BY <1>3, <1>6, <1>7

\* What a send appends to the channel.
LEMMA SendAppends ==
  ASSUME TypeInv, NEW e \in Emitters, Send(e)
  PROVE  /\ event[e] \in Events
         /\ Len(sent) \in Nat
         /\ Len(sent') = Len(sent) + 1
         /\ \A i \in 1 .. Len(sent) : sent'[i] = sent[i]
         /\ sent'[Len(sent) + 1] = event[e]
         /\ event'[e] = NoEvent
         /\ \A f \in Emitters \ {e} : event'[f] = event[f]
PROOF
  <1>1. event[e] \in Events /\ sent \in Seq(Events)
    BY DEF Send, Idle, TypeInv, EmitTypesOK, SharedTypesOK
  <1>2. /\ Len(sent) \in Nat
        /\ Len(sent') = Len(sent) + 1
        /\ \A i \in 1 .. Len(sent) : sent'[i] = sent[i]
        /\ sent'[Len(sent) + 1] = event[e]
    BY <1>1, AppendProperties, LenProperties DEF Send
  <1> QED
    BY <1>1, <1>2 DEF Send, TypeInv, EmitTypesOK

\* Every step keeps the log ahead of the channel.
LEMMA LoggedNext == TypeInv /\ LoggedInv /\ [Next]_vars => LoggedInv'
PROOF
  <1> SUFFICES ASSUME TypeInv, LoggedInv, [Next]_vars PROVE LoggedInv'
    OBVIOUS
  <1>1. CASE UNCHANGED <<log, event, sent>>
    BY <1>1 DEF LoggedInv, Within
  <1>2. ASSUME sent' = sent,
               NEW e \in Emitters, NEW s \in 0 .. MaxScans, NEW k \in Kinds, Emit(e, s, k)
        PROVE  LoggedInv'
    <2> SUFFICES ASSUME Len(log') # EventLogCapacity
                 PROVE  /\ \A i \in 1 .. Len(sent') : Within(log', sent'[i])
                        /\ \A f \in Emitters : event'[f] # NoEvent => Within(log', event'[f])
      BY DEF LoggedInv, Within
    <2>1. /\ Len(log) # EventLogCapacity
          /\ Within(log', [scan |-> s, kind |-> k])
          /\ \A ev : Within(log, ev) => Within(log', ev)
      BY <1>2, EmitLogs
    <2>2. \A i \in 1 .. Len(sent') : Within(log', sent'[i])
      BY <1>2, <2>1 DEF LoggedInv, Within
    <2>3. ASSUME NEW f \in Emitters, event'[f] # NoEvent PROVE Within(log', event'[f])
      <3>1. event' = [event EXCEPT ![e] = [scan |-> s, kind |-> k]]
        BY <1>2 DEF Emit
      <3>2. CASE f = e
        BY <2>1, <3>1, <3>2 DEF TypeInv, EmitTypesOK, Within
      <3>3. CASE f # e
        <4>1. event'[f] = event[f]
          BY <3>1, <3>3 DEF TypeInv, EmitTypesOK
        <4>2. Within(log, event[f])
          BY <2>1, <2>3, <4>1 DEF LoggedInv
        <4> QED
          BY <2>1, <4>1, <4>2 DEF Within
      <3> QED
        BY <3>2, <3>3
    <2> QED
      BY <2>2, <2>3
  <1>3. ASSUME NEW e \in Emitters, Send(e) PROVE LoggedInv'
    <2>1. log' = log
      BY <1>3 DEF Send
    <2>2. Len(log) # EventLogCapacity => Within(log, event[e])
      BY <1>3 DEF LoggedInv, Send, Idle
    <2>3. ASSUME Len(log) # EventLogCapacity, NEW i \in 1 .. Len(sent')
          PROVE  Within(log, sent'[i])
      <3>1. CASE i = Len(sent) + 1
        BY <1>3, <2>2, <2>3, <3>1, SendAppends
      <3>2. CASE i # Len(sent) + 1
        <4>1. i \in 1 .. Len(sent) /\ sent'[i] = sent[i]
          BY <1>3, <3>2, SendAppends
        <4> QED
          BY <2>3, <4>1 DEF LoggedInv
      <3> QED
        BY <3>1, <3>2
    <2>4. ASSUME Len(log) # EventLogCapacity, NEW f \in Emitters, event'[f] # NoEvent
          PROVE  Within(log, event'[f])
      <3>1. f # e /\ event'[f] = event[f]
        BY <1>3, <2>4, SendAppends
      <3> QED
        BY <2>4, <3>1 DEF LoggedInv
    <2> QED
      BY <2>1, <2>3, <2>4 DEF LoggedInv, Within
  <1> QED
    BY <1>1, <1>2, <1>3, EmitCases

\* The next event of the channel is received.
LEMMA MatchesNext ==
  ASSUME NEW s \in Seq(Events), NEW t \in Seq(Events), NEW j \in Nat, NEW p \in Nat,
         p + 1 <= Len(t), Matches(s, t, j, p)
  PROVE  Matches(Append(s, t[p + 1]), t, j, p + 1)
PROOF
  <1> DEFINE r == Append(s, t[p + 1])
  <1>1. Len(s) \in Nat /\ Len(t) \in Nat
    BY LenProperties
  <1>2. t[p + 1] \in Events
    BY <1>1, ElementOfSeq
  <1>3. /\ Len(r) = Len(s) + 1
        /\ \A i \in 1 .. Len(s) : r[i] = s[i]
        /\ r[Len(s) + 1] = t[p + 1]
    BY <1>2, AppendProperties
  <1> HIDE DEF r
  <1>4. ASSUME NEW i \in 1 .. (p + 1) - j
        PROVE  r[Len(r) - ((p + 1) - j) + i] = t[j + i]
    <2>1. Len(r) - ((p + 1) - j) + i = Len(s) - (p - j) + i
      BY <1>1, <1>3
    <2>2. CASE i = (p - j) + 1
      <3>1. Len(s) - (p - j) + i = Len(s) + 1 /\ j + i = p + 1
        BY <1>1, <2>2
      <3> QED
        BY <1>3, <2>1, <3>1
    <2>3. CASE i # (p - j) + 1
      <3>1. i \in 1 .. p - j
        BY <2>3
      <3>2. Len(s) - (p - j) + i \in 1 .. Len(s)
        BY <1>1, <3>1 DEF Matches
      <3> QED
        BY <1>3, <2>1, <3>1, <3>2 DEF Matches
    <2> QED
      BY <2>2, <2>3
  <1>5. j <= p + 1 /\ (p + 1) - j <= Len(r)
    BY <1>1, <1>3 DEF Matches
  <1>6. Matches(r, t, j, p + 1)
    BY <1>4, <1>5 DEF Matches
  <1> QED
    BY <1>6 DEF r

\* Who just subscribed has received nothing.
LEMMA MatchesNothing ==
  ASSUME NEW s \in Seq(Events), NEW t, NEW j \in Nat
  PROVE  Matches(s, t, j, j)
PROOF
  <1>1. Len(s) \in Nat
    BY LenProperties
  <1> QED
    BY <1>1 DEF Matches

\* What was received matches a longer channel too.
LEMMA MatchesMore ==
  ASSUME NEW s, NEW t \in Seq(Events), NEW more, NEW j \in Nat, NEW p \in Nat, p <= Len(t),
         \A i \in 1 .. Len(t) : more[i] = t[i],
         Matches(s, t, j, p)
  PROVE  Matches(s, more, j, p)
PROOF
  <1>1. Len(t) \in Nat
    BY LenProperties
  <1>2. \A i \in 1 .. p - j : j + i \in 1 .. Len(t)
    BY <1>1
  <1> QED
    BY <1>2 DEF Matches

\* What matches is a part of the channel, as it stands.
LEMMA MatchesSubSeq ==
  ASSUME NEW s \in Seq(Events), NEW t \in Seq(Events), NEW j \in Nat, NEW p \in Nat,
         p <= Len(t), Matches(s, t, j, p)
  PROVE  SubSeq(s, Len(s) - (p - j) + 1, Len(s)) = SubSeq(t, j + 1, p)
PROOF
  <1> DEFINE n == p - j
             first == Len(s) - n + 1
             got == SubSeq(s, first, Len(s))
             due == SubSeq(t, j + 1, p)
  <1>1. Len(s) \in Nat /\ Len(t) \in Nat
    BY LenProperties
  <1>2. /\ n \in Nat /\ first \in Nat /\ first >= 1
        /\ Len(s) - first + 1 = n /\ p - (j + 1) + 1 = n
    BY <1>1 DEF Matches
  <1>3. /\ \A i \in first .. Len(s) : s[i] \in Events
        /\ \A i \in j + 1 .. p : t[i] \in Events
    <2>1. \A i \in 1 .. Len(s) : s[i] \in Events
      BY ElementOfSeq
    <2>2. \A i \in 1 .. Len(t) : t[i] \in Events
      BY ElementOfSeq
    <2> HIDE DEF first
    <2> QED
      BY <1>1, <1>2, <2>1, <2>2
  <1>4. /\ got \in Seq(Events)
        /\ Len(got) = IF first <= Len(s) THEN Len(s) - first + 1 ELSE 0
        /\ \A i \in 1 .. Len(s) - first + 1 : got[i] = s[first + i - 1]
    <2> HIDE DEF first
    <2> QED
      BY <1>1, <1>2, <1>3, SubSeqProperties
  <1>5. /\ due \in Seq(Events)
        /\ Len(due) = IF j + 1 <= p THEN p - (j + 1) + 1 ELSE 0
        /\ \A i \in 1 .. p - (j + 1) + 1 : due[i] = t[(j + 1) + i - 1]
    <2>1. j + 1 \in Int /\ p \in Int
      OBVIOUS
    <2> QED
      BY <1>3, <2>1, SubSeqProperties
  <1>6. Len(got) = n /\ Len(due) = n
    <2> HIDE DEF got, due, first, n
    <2> QED
      BY <1>1, <1>2, <1>4, <1>5
  <1>7. ASSUME NEW i \in 1 .. n PROVE got[i] = due[i]
    <2>1. got[i] = s[first + i - 1] /\ due[i] = t[(j + 1) + i - 1]
      <3> HIDE DEF got, due, first, n
      <3> QED
        BY <1>2, <1>4, <1>5
    <2>2. first + i - 1 = Len(s) - n + i /\ (j + 1) + i - 1 = j + i
      BY <1>1, <1>2
    <2>3. s[Len(s) - n + i] = t[j + i]
      BY DEF Matches
    <2> QED
      BY <2>1, <2>2, <2>3
  <1>8. got = due
    <2> HIDE DEF got, due, first, n
    <2> QED
      BY <1>4, <1>5, <1>6, <1>7, SeqEqual
  <1> QED
    BY <1>8

\* A step that touches no socket and no channel keeps the sockets without gaps.
LEMMA SameGaps ==
  ASSUME GapInv, UNCHANGED <<seen, pos, joined, sent>>,
         \A d \in Watchers : cpc'[d] \in {"accepted", "greet", "subscribe"} =>
                               cpc[d] \in {"accepted", "greet", "subscribe"}
  PROVE  GapInv'
BY DEF GapInv

\* Every step keeps the sockets without gaps.
LEMMA GapNext == TypeInv /\ GapInv /\ [Next]_vars => GapInv'
PROOF
  <1> SUFFICES ASSUME TypeInv, GapInv, [Next]_vars PROVE GapInv'
    OBVIOUS
  <1> USE ConstantFacts
  <1>0. /\ Len(sent) \in Nat
        /\ \A c \in Watchers : /\ pos[c] \in Nat /\ joined[c] \in Nat /\ pos[c] <= Len(sent)
                               /\ seen[c] \in Seq(Events) /\ Len(seen[c]) \in Nat
    BY LenProperties DEF TypeInv, SharedTypesOK, SocketTypesOK
  <1> DEFINE Early == {"accepted", "greet", "subscribe"}
  <1>1. ASSUME NEW c \in Clients, CommandStep(c) PROVE GapInv'
    <2>1. /\ UNCHANGED <<seen, pos, joined, sent>>
          /\ \A d \in Clients : cpc'[d] = cpc[d] \/ cpc'[d] \notin Early
      BY <1>1 DEF CommandStep, Spawn, RejectPorts, Insert, Abort, Acknowledge, MoveClient,
        TypeInv, ClientTypesOK, shared
    <2> QED
      BY <2>1, SameGaps
  <1>2. ASSUME NEW c \in Clients,
               Answer(c) \/ StartScan(c) \/ CancelScan(c) \/ SetPaused(c)
        PROVE  GapInv'
    <2>1. /\ UNCHANGED <<seen, pos, joined, sent>>
          /\ \A d \in Clients : cpc'[d] = cpc[d] \/ cpc'[d] \notin Early
      BY <1>2 DEF Answer, StartScan, CancelScan, SetPaused, TypeInv, ClientTypesOK
    <2> QED
      BY <2>1, SameGaps
  <1>3. ASSUME NEW c \in Clients, Greet(c) PROVE GapInv'
    <2>1. /\ UNCHANGED <<seen, pos, joined, sent>>
          /\ cpc[c] = "greet"
          /\ \A d \in Clients \ {c} : cpc'[d] = cpc[d]
      BY <1>3 DEF Greet, MoveClient, TypeInv, ClientTypesOK
    <2> QED
      BY <2>1, SameGaps
  <1>4. ASSUME NEW c \in Clients, Replay(c) \/ Subscribe(c) PROVE GapInv'
    <2>1. /\ sent' = sent
          /\ cpc[c] \in Early
          /\ \A d \in Clients \ {c} : cpc'[d] = cpc[d]
          /\ \A d \in Watchers \ {c} :
               seen'[d] = seen[d] /\ pos'[d] = pos[d] /\ joined'[d] = joined[d]
      BY <1>4 DEF Replay, Subscribe, MoveClient, TypeInv, ClientTypesOK, SocketTypesOK, shared
    <2>2. c \in Watchers => pos'[c] = joined'[c] /\ joined'[c] \in Nat
      BY <1>0, <1>4, <2>1 DEF Replay, Subscribe, TypeInv, SocketTypesOK, GapInv
    <2>3. c \in Watchers => seen'[c] \in Seq(Events)
      BY <1>0, <1>4 DEF Replay, Subscribe, TypeInv, EmitTypesOK, SocketTypesOK
    <2>4. ASSUME NEW d \in Watchers
          PROVE  /\ Matches(seen'[d], sent', joined'[d], pos'[d])
                 /\ cpc'[d] \in Early => pos'[d] = joined'[d]
      <3>1. CASE d = c
        BY <2>2, <2>3, <3>1, MatchesNothing
      <3>2. CASE d # c
        BY <2>1, <3>2 DEF GapInv
      <3> QED
        BY <3>1, <3>2
    <2> QED
      BY <2>4 DEF GapInv
  <1>5. ASSUME NEW c \in Clients, Receive(c) PROVE GapInv'
    <2>1. /\ c \in Watchers
          /\ cpc[c] = "live"
          /\ pos[c] + 1 \in 1 .. Len(sent)
          /\ pos' = [pos EXCEPT ![c] = @ + 1]
          /\ seen' = [seen EXCEPT ![c] = Append(@, sent[pos[c] + 1])]
          /\ UNCHANGED <<sent, cpc, joined>>
      BY <1>0, <1>5 DEF Receive, Live, shared
    <2>2. /\ seen'[c] = Append(seen[c], sent[pos[c] + 1])
          /\ pos'[c] = pos[c] + 1
          /\ \A d \in Watchers \ {c} : seen'[d] = seen[d] /\ pos'[d] = pos[d]
      BY <2>1 DEF TypeInv, SocketTypesOK
    <2>3. /\ seen[c] \in Seq(Events) /\ sent \in Seq(Events)
          /\ joined[c] \in Nat /\ pos[c] \in Nat /\ pos[c] + 1 <= Len(sent)
          /\ Matches(seen[c], sent, joined[c], pos[c])
      BY <1>0, <2>1 DEF GapInv, TypeInv, SharedTypesOK
    <2>4. Matches(Append(seen[c], sent[pos[c] + 1]), sent, joined[c], pos[c] + 1)
      BY <2>3, MatchesNext
    <2> QED
      BY <2>1, <2>2, <2>4 DEF GapInv
  <1>6. ASSUME NEW c \in Clients, Lagged(c) \/ Close(c) PROVE GapInv'
    <2>1. EndConnection(c) /\ c \in Watchers
      BY <1>6 DEF Lagged, Close
    <2>2. /\ sent' = sent
          /\ seen'[c] = <<>> /\ pos'[c] = 0 /\ joined'[c] = 0 /\ cpc'[c] = "closed"
          /\ \A d \in Watchers \ {c} : /\ seen'[d] = seen[d] /\ pos'[d] = pos[d]
                                       /\ joined'[d] = joined[d] /\ cpc'[d] = cpc[d]
      BY <2>1 DEF EndConnection, TypeInv, ClientTypesOK, SocketTypesOK, shared
    <2>3. Matches(<<>>, sent, 0, 0)
      BY MatchesNothing, EmptySeq
    <2> QED
      BY <2>2, <2>3 DEF GapInv
  <1>7. ASSUME NEW s \in ScanIds, ScanStep(s) PROVE GapInv'
    <2>1. UNCHANGED <<seen, pos, joined, sent, cpc>>
      BY <1>7 DEF ScanStep, BeginScan, ScanOk, ReportFinding, ReportArtifacts, Complete,
        ScanErr, RemoveScan, clientVars, shared
    <2> QED
      BY <2>1, SameGaps
  <1>8. ASSUME NEW e \in Emitters, Send(e) PROVE GapInv'
    <2>1. /\ UNCHANGED <<seen, pos, joined, cpc>>
          /\ \A i \in 1 .. Len(sent) : sent'[i] = sent[i]
      BY <1>8, SendAppends DEF Send, clientVars
    <2>2. ASSUME NEW c \in Watchers PROVE Matches(seen[c], sent', joined[c], pos[c])
      BY <1>0, <2>1, MatchesMore DEF GapInv, TypeInv, SharedTypesOK
    <2> QED
      BY <2>1, <2>2 DEF GapInv
  <1>9. CASE UNCHANGED vars
    BY <1>9, SameGaps DEF vars, clientVars, shared
  <1> QED
    BY <1>1, <1>2, <1>3, <1>4, <1>5, <1>6, <1>7, <1>8, <1>9 DEF Next, ClientStep

\* What a watcher received is a part of the channel, as it stands.
LEMMA GapIsNoSilentGap == TypeInv /\ GapInv => NoSilentGap
PROOF
  <1> SUFFICES ASSUME TypeInv, GapInv, NEW c \in Watchers
               PROVE  /\ pos[c] - joined[c] <= Len(seen[c])
                      /\ SubSeq(seen[c], Len(seen[c]) - (pos[c] - joined[c]) + 1, Len(seen[c]))
                           = SubSeq(sent, joined[c] + 1, pos[c])
    BY DEF NoSilentGap
  <1>1. /\ seen[c] \in Seq(Events) /\ sent \in Seq(Events)
        /\ pos[c] \in Nat /\ joined[c] \in Nat /\ pos[c] <= Len(sent)
        /\ Matches(seen[c], sent, joined[c], pos[c])
    BY DEF TypeInv, SharedTypesOK, SocketTypesOK, GapInv
  <1> QED
    BY <1>1, MatchesSubSeq DEF Matches

-----------------------------------------------------------------------------
(* What was told of a scan: sent on the channel t, or about to be sent by an *)
(* emitter (v).                                                             *)

SentIn(t, s, ks) == \E i \in 1 .. Len(t) : t[i].scan = s /\ t[i].kind \in ks

Pending(v, s, ks) == \E e \in Emitters : v[e].scan = s /\ v[e].kind \in ks

Told(t, v, s, ks) == SentIn(t, s, ks) \/ Pending(v, s, ks)

\* It was told at most once.
Single(t, v, s, ks) ==
  /\ \A i, j \in 1 .. Len(t) :
       t[i].scan = s /\ t[j].scan = s /\ t[i].kind \in ks /\ t[j].kind \in ks => i = j
  /\ \A e, f \in Emitters :
       v[e].scan = s /\ v[f].scan = s /\ v[e].kind \in ks /\ v[f].kind \in ks => e = f
  /\ ~(SentIn(t, s, ks) /\ Pending(v, s, ks))

\* The call of emit tells its event, and nothing else.
LEMMA EmitTold ==
  ASSUME TypeInv, NEW e \in Emitters, NEW r \in 0 .. MaxScans, NEW k \in Kinds, Emit(e, r, k),
         sent' = sent,
         NEW s \in ScanIds, NEW ks
  PROVE  /\ Told(sent', event', s, ks) <=> Told(sent, event, s, ks) \/ (s = r /\ k \in ks)
         /\ ~(s = r /\ k \in ks /\ Told(sent, event, s, ks)) /\ Single(sent, event, s, ks)
              => Single(sent', event', s, ks)
PROOF
  <1>1. /\ event'[e].scan = r /\ event'[e].kind = k
        /\ event[e].scan # s
        /\ \A f \in Emitters \ {e} : event'[f] = event[f]
    BY ConstantFacts DEF Emit, Idle, NoEvent, TypeInv, EmitTypesOK
  <1>2. Pending(event', s, ks) <=> Pending(event, s, ks) \/ (s = r /\ k \in ks)
    BY <1>1 DEF Pending
  <1>3. SUFFICES ASSUME ~(s = r /\ k \in ks /\ Told(sent, event, s, ks)),
                        Single(sent, event, s, ks)
                 PROVE  Single(sent', event', s, ks)
    BY <1>2 DEF Told
  <1>4. ASSUME NEW f \in Emitters, NEW g \in Emitters,
               event'[f].scan = s, event'[g].scan = s, event'[f].kind \in ks, event'[g].kind \in ks
        PROVE  f = g
    <2>1. CASE f = e \/ g = e
      <3>1. s = r /\ k \in ks
        BY <1>1, <1>4, <2>1
      <3>2. ~Pending(event, s, ks)
        BY <1>3, <3>1 DEF Told
      <3> QED
        BY <1>1, <1>4, <3>2 DEF Pending
    <2>2. CASE f # e /\ g # e
      BY <1>1, <1>3, <1>4, <2>2 DEF Single
    <2> QED
      BY <2>1, <2>2
  <1>5. ~(SentIn(sent, s, ks) /\ Pending(event', s, ks))
    BY <1>2, <1>3 DEF Single, Told
  <1> QED
    BY <1>3, <1>4, <1>5 DEF Single

\* Sending an event tells nothing new.
LEMMA SendTold ==
  ASSUME TypeInv, NEW e \in Emitters, Send(e), NEW s \in ScanIds, NEW ks
  PROVE  /\ Told(sent', event', s, ks) <=> Told(sent, event, s, ks)
         /\ Single(sent, event, s, ks) => Single(sent', event', s, ks)
         /\ SentIn(sent, s, ks) => SentIn(sent', s, ks)
PROOF
  <1>1. /\ Len(sent) \in Nat /\ Len(sent') = Len(sent) + 1
        /\ \A i \in 1 .. Len(sent) : sent'[i] = sent[i]
        /\ sent'[Len(sent) + 1] = event[e]
        /\ event'[e].scan # s
        /\ \A f \in Emitters \ {e} : event'[f] = event[f]
    BY SendAppends, ConstantFacts DEF NoEvent
  <1>2. \A i \in 1 .. Len(sent') : i \in 1 .. Len(sent) \/ i = Len(sent) + 1
    BY <1>1
  <1>3. Len(sent) + 1 \in 1 .. Len(sent') /\ \A i \in 1 .. Len(sent) : i \in 1 .. Len(sent')
    BY <1>1
  <1> DEFINE now == event[e].scan = s /\ event[e].kind \in ks
  <1>4. SentIn(sent', s, ks) <=> SentIn(sent, s, ks) \/ now
    BY <1>1, <1>2, <1>3 DEF SentIn
  <1>5. Pending(event, s, ks) <=> Pending(event', s, ks) \/ now
    BY <1>1 DEF Pending
  <1>6. ASSUME Single(sent, event, s, ks) PROVE Single(sent', event', s, ks)
    <2>1. now => ~SentIn(sent, s, ks) /\ ~Pending(event', s, ks)
      <3> SUFFICES ASSUME now PROVE ~SentIn(sent, s, ks) /\ ~Pending(event', s, ks)
        OBVIOUS
      <3>1. ~SentIn(sent, s, ks)
        BY <1>5, <1>6 DEF Single
      <3>2. ~Pending(event', s, ks)
        BY <1>1, <1>6 DEF Single, Pending
      <3> QED
        BY <3>1, <3>2
    <2>2. ASSUME NEW i \in 1 .. Len(sent'), NEW j \in 1 .. Len(sent'),
                 sent'[i].scan = s, sent'[j].scan = s, sent'[i].kind \in ks, sent'[j].kind \in ks
          PROVE  i = j
      <3>1. CASE i \in 1 .. Len(sent) /\ j \in 1 .. Len(sent)
        BY <1>1, <1>6, <2>2, <3>1 DEF Single
      <3>2. CASE i = Len(sent) + 1 /\ j \in 1 .. Len(sent)
        BY <1>1, <2>1, <2>2, <3>2 DEF SentIn
      <3>3. CASE i \in 1 .. Len(sent) /\ j = Len(sent) + 1
        BY <1>1, <2>1, <2>2, <3>3 DEF SentIn
      <3>4. CASE i = Len(sent) + 1 /\ j = Len(sent) + 1
        BY <3>4
      <3> QED
        BY <1>2, <3>1, <3>2, <3>3, <3>4
    <2>3. \A f, g \in Emitters :
            event'[f].scan = s /\ event'[g].scan = s /\ event'[f].kind \in ks /\ event'[g].kind \in ks
              => f = g
      BY <1>1, <1>6 DEF Single
    <2>4. ~(SentIn(sent', s, ks) /\ Pending(event', s, ks))
      BY <1>4, <1>5, <1>6, <2>1 DEF Single
    <2> QED
      BY <2>2, <2>3, <2>4 DEF Single
  <1> QED
    BY <1>4, <1>5, <1>6 DEF Told

-----------------------------------------------------------------------------
(* One outcome of each kind, and an answer to every scan.                   *)

Ends == {"completed", "error"}
Cancels == {"cancelled"}

\* Of a scan whose id was not handed out nothing was told.
FreshInv == \A s \in ScanIds : s >= scanSeq => ~Told(sent, event, s, Kinds)

\* A connection that starts a scan is the only one that knows it.
StartInv ==
  \A c \in Clients, s \in ScanIds :
    /\ cpc[c] = "start" /\ scan[c] = s => spc[s] = "none" /\ ~Told(sent, event, s, Ends)
    /\ cpc[c] \in {"start", "insert"} /\ scan[c] = s =>
         /\ ~Told(sent, event, s, Cancels)
         /\ s \notin DOMAIN scans
         /\ \A d \in Clients \ {c} : scan[d] # s

\* Whoever removed the entry of a scan cancels it, and nobody else.
CancelInv ==
  /\ \A s \in ScanIds :
       s \in DOMAIN scans =>
         /\ ~Told(sent, event, s, Cancels)
         /\ \A c \in Clients : cpc[c] = "cancel" => scan[c] # s
  /\ \A c \in Clients, s \in ScanIds :
       cpc[c] = "cancel" /\ scan[c] = s =>
         /\ ~Told(sent, event, s, Cancels)
         /\ \A d \in Clients \ {c} : cpc[d] = "cancel" => scan[d] # s

\* A task that has not ended has told no end.
TaskInv ==
  \A s \in ScanIds :
    spc[s] \in {"spawned", "scanning", "report", "complete"} => ~Told(sent, event, s, Ends)

\* Each kind of outcome is told once.
SingleInv ==
  \A s \in ScanIds : Single(sent, event, s, Ends) /\ Single(sent, event, s, Cancels)

\* Whatever ended, was aborted or was never spawned has been told of.
AnswerInv ==
  \A s \in ScanIds :
    /\ s < scanSeq /\ spc[s] = "none" =>
         Told(sent, event, s, Ends) \/ \E c \in Clients : cpc[c] = "start" /\ scan[c] = s
    /\ spc[s] \in {"remove", "done"} => Told(sent, event, s, Ends)
    /\ s \in aborted => Told(sent, event, s, Cancels)

OutcomeInv == FreshInv /\ StartInv /\ CancelInv /\ TaskInv /\ SingleInv /\ AnswerInv

\* What was told stays told as it is.
SameTold ==
  \A s \in ScanIds : \A ks :
    /\ Told(sent', event', s, ks) <=> Told(sent, event, s, ks)
    /\ Single(sent, event, s, ks) => Single(sent', event', s, ks)

\* An event of kind k and of scan r is told.
NowTold(r, k) ==
  \A s \in ScanIds : \A ks :
    /\ Told(sent', event', s, ks) <=> Told(sent, event, s, ks) \/ (s = r /\ k \in ks)
    /\ ~(s = r /\ k \in ks /\ Told(sent, event, s, ks)) /\ Single(sent, event, s, ks)
         => Single(sent', event', s, ks)

\* A step without emit tells nothing.
LEMMA QuietTold == UNCHANGED <<event, sent>> => SameTold
BY DEF SameTold

\* A call of emit tells its event.
LEMMA EmitNowTold ==
  ASSUME TypeInv, NEW e \in Emitters, NEW r \in 0 .. MaxScans, NEW k \in Kinds, Emit(e, r, k),
         sent' = sent
  PROVE  NowTold(r, k)
BY EmitTold DEF NowTold

\* An event that is no outcome changes no outcome.
LEMMA NoOutcome ==
  ASSUME NEW r, NEW k \in Kinds, NowTold(r, k), k \notin Ends, k \notin Cancels
  PROVE  \A s \in ScanIds :
           /\ Told(sent', event', s, Ends) <=> Told(sent, event, s, Ends)
           /\ Told(sent', event', s, Cancels) <=> Told(sent, event, s, Cancels)
           /\ Single(sent, event, s, Ends) => Single(sent', event', s, Ends)
           /\ Single(sent, event, s, Cancels) => Single(sent', event', s, Cancels)
BY DEF NowTold

\* The ids of the scans and of the connections, by their types.
LEMMA OutcomeTypes ==
  ASSUME TypeInv
  PROVE  /\ scanSeq \in Nat
         /\ \A s \in ScanIds : s \in Nat
         /\ DOMAIN scans \subseteq ScanIds
         /\ \A s \in DOMAIN scans : s < scanSeq
         /\ \A c \in Clients : scan[c] \in ScanIds \/ scan[c] = 0
         /\ \A c \in Clients : scan[c] \in ScanIds => scan[c] < scanSeq
PROOF
  <1>1. scanSeq \in Nat /\ scanSeq - 1 <= MaxScans
    BY ConstantFacts DEF TypeInv, SharedTypesOK
  <1>2. \A s \in 1 .. scanSeq - 1 : s \in ScanIds /\ s < scanSeq
    BY <1>1, ConstantFacts DEF ScanIds
  <1> QED
    BY <1>1, <1>2, ConstantFacts DEF TypeInv, SharedTypesOK, ClientInv

\* The commands that a connection handles keep the outcomes.
LEMMA CommandOutcome ==
  ASSUME TypeInv, OutcomeInv, NEW c \in Clients, CommandStep(c)
  PROVE  OutcomeInv'
PROOF
  <1> USE OutcomeTypes, ConstantFacts DEF MoveClient, shared, scanVars
  <1>0. /\ cpc \in [Clients -> {"accepted", "greet", "subscribe", "live", "start", "insert",
                               "cancel", "pause", "resume", "closed"}]
        /\ scan \in [Clients -> 0 .. MaxScans]
        /\ DOMAIN spc = ScanIds
    BY DEF TypeInv, ClientTypesOK, TaskTypesOK
  <1>a. cpc[c] \in {"start", "insert", "cancel", "pause", "resume"} =>
          scan[c] \in ScanIds /\ scan[c] \in 0 .. MaxScans
    BY ScanOfClient
  <1>1. CASE Spawn(c)
    <2>1. /\ UNCHANGED <<scanSeq, scans, aborted, scan, sent, event>>
          /\ cpc' = [cpc EXCEPT ![c] = "insert"] /\ cpc[c] = "start"
          /\ spc' = [spc EXCEPT ![scan[c]] = "spawned"]
      BY <1>1 DEF Spawn
    <2>2. FreshInv'
      BY <2>1 DEF OutcomeInv, FreshInv
    <2>3. StartInv'
      BY <1>0, <1>a, <2>1 DEF OutcomeInv, StartInv
    <2>4. CancelInv'
      BY <1>0, <2>1 DEF OutcomeInv, CancelInv
    <2>5. TaskInv'
      BY <1>0, <1>a, <2>1 DEF OutcomeInv, TaskInv, StartInv
    <2>6. SingleInv'
      BY <2>1 DEF OutcomeInv, SingleInv
    <2>7. AnswerInv'
      BY <1>0, <1>a, <2>1 DEF OutcomeInv, AnswerInv
    <2> QED
      BY <2>2, <2>3, <2>4, <2>5, <2>6, <2>7 DEF OutcomeInv
  <1>2. CASE RejectPorts(c)
    <2>1. /\ UNCHANGED <<scanSeq, scans, aborted, sent, spc>>
          /\ cpc' = [cpc EXCEPT ![c] = "live"] /\ cpc[c] = "start"
          /\ scan' = [scan EXCEPT ![c] = 0]
      BY <1>2 DEF RejectPorts
    <2>2. NowTold(scan[c], "error")
      BY <1>2, <1>a, EmitNowTold DEF RejectPorts, Kinds
    <2>3. \A s \in ScanIds :
            /\ Told(sent', event', s, Ends) <=> Told(sent, event, s, Ends) \/ s = scan[c]
            /\ Told(sent', event', s, Cancels) <=> Told(sent, event, s, Cancels)
            /\ Told(sent', event', s, Kinds) <=> Told(sent, event, s, Kinds) \/ s = scan[c]
      BY <2>2 DEF NowTold, Ends, Cancels, Kinds
    <2>4. FreshInv'
      BY <1>a, <2>1, <2>3 DEF OutcomeInv, FreshInv
    <2>5. StartInv'
      BY <1>0, <1>a, <2>1, <2>3 DEF OutcomeInv, StartInv
    <2>6. CancelInv'
      BY <1>0, <2>1, <2>3 DEF OutcomeInv, CancelInv
    <2>7. TaskInv'
      BY <1>a, <2>1, <2>3 DEF OutcomeInv, TaskInv, StartInv
    <2>8. SingleInv'
      BY <1>a, <2>1, <2>2 DEF OutcomeInv, SingleInv, StartInv, NowTold, Cancels
    <2>9. AnswerInv'
      BY <1>0, <1>a, <2>1, <2>3 DEF OutcomeInv, AnswerInv
    <2> QED
      BY <2>4, <2>5, <2>6, <2>7, <2>8, <2>9 DEF OutcomeInv
  <1>3. CASE Insert(c)
    <2>1. /\ UNCHANGED <<scanSeq, aborted, sent, event, spc>>
          /\ cpc' = [cpc EXCEPT ![c] = "live"] /\ cpc[c] = "insert"
          /\ scan' = [scan EXCEPT ![c] = 0]
          /\ DOMAIN scans' = DOMAIN scans \cup {scan[c]}
      BY <1>3 DEF Insert
    <2>2. FreshInv'
      BY <2>1 DEF OutcomeInv, FreshInv
    <2>3. StartInv'
      BY <1>0, <1>a, <2>1 DEF OutcomeInv, StartInv
    <2>4. CancelInv'
      BY <1>0, <1>a, <2>1 DEF OutcomeInv, CancelInv, StartInv
    <2>5. TaskInv'
      BY <2>1 DEF OutcomeInv, TaskInv
    <2>6. SingleInv'
      BY <2>1 DEF OutcomeInv, SingleInv
    <2>7. AnswerInv'
      BY <1>0, <1>a, <2>1 DEF OutcomeInv, AnswerInv
    <2> QED
      BY <2>2, <2>3, <2>4, <2>5, <2>6, <2>7 DEF OutcomeInv
  <1>4. CASE Abort(c)
    <2>1. /\ UNCHANGED <<scanSeq, scans, sent, spc>>
          /\ cpc' = [cpc EXCEPT ![c] = "live"] /\ cpc[c] = "cancel"
          /\ scan' = [scan EXCEPT ![c] = 0]
          /\ aborted' = aborted \cup {scan[c]}
      BY <1>4 DEF Abort
    <2>2. NowTold(scan[c], "cancelled")
      BY <1>4, <1>a, EmitNowTold DEF Abort, Kinds
    <2>3. \A s \in ScanIds :
            /\ Told(sent', event', s, Ends) <=> Told(sent, event, s, Ends)
            /\ Told(sent', event', s, Cancels) <=> Told(sent, event, s, Cancels) \/ s = scan[c]
            /\ Told(sent', event', s, Kinds) <=> Told(sent, event, s, Kinds) \/ s = scan[c]
      BY <2>2 DEF NowTold, Ends, Cancels, Kinds
    <2>4. FreshInv'
      BY <1>a, <2>1, <2>3 DEF OutcomeInv, FreshInv
    <2>5. StartInv'
      BY <1>0, <1>a, <2>1, <2>3 DEF OutcomeInv, StartInv
    <2>6. CancelInv'
      BY <1>0, <1>a, <2>1, <2>3 DEF OutcomeInv, CancelInv
    <2>7. TaskInv'
      BY <2>1, <2>3 DEF OutcomeInv, TaskInv
    <2>8. SingleInv'
      BY <1>a, <2>1, <2>2 DEF OutcomeInv, SingleInv, CancelInv, NowTold, Ends
    <2>9. AnswerInv'
      BY <1>0, <1>a, <2>1, <2>3 DEF OutcomeInv, AnswerInv
    <2> QED
      BY <2>4, <2>5, <2>6, <2>7, <2>8, <2>9 DEF OutcomeInv
  <1>5. CASE Acknowledge(c)
    <2>1. /\ UNCHANGED <<scanSeq, scans, aborted, sent, spc>>
          /\ cpc' = [cpc EXCEPT ![c] = "live"] /\ cpc[c] \in {"pause", "resume"}
          /\ scan' = [scan EXCEPT ![c] = 0]
      BY <1>5 DEF Acknowledge
    <2>2. PICK k \in {"paused", "resumed"} : NowTold(scan[c], k)
      <3>1. PICK k \in {"paused", "resumed"} : Emit(c, scan[c], k) /\ sent' = sent
        BY <1>5 DEF Acknowledge
      <3>2. k \in Kinds
        BY DEF Kinds
      <3> QED
        BY <1>a, <2>1, <3>1, <3>2, EmitNowTold
    <2>3. \A s \in ScanIds :
            /\ Told(sent', event', s, Ends) <=> Told(sent, event, s, Ends)
            /\ Told(sent', event', s, Cancels) <=> Told(sent, event, s, Cancels)
            /\ Told(sent', event', s, Kinds) <=> Told(sent, event, s, Kinds) \/ s = scan[c]
      BY <2>2 DEF NowTold, Ends, Cancels, Kinds
    <2>4. FreshInv'
      BY <1>a, <2>1, <2>3 DEF OutcomeInv, FreshInv
    <2>5. StartInv'
      BY <1>0, <2>1, <2>3 DEF OutcomeInv, StartInv
    <2>6. CancelInv'
      BY <1>0, <2>1, <2>3 DEF OutcomeInv, CancelInv
    <2>7. TaskInv'
      BY <2>1, <2>3 DEF OutcomeInv, TaskInv
    <2>8. SingleInv'
      BY <2>2 DEF OutcomeInv, SingleInv, NowTold, Ends, Cancels
    <2>9. AnswerInv'
      BY <1>0, <2>1, <2>3 DEF OutcomeInv, AnswerInv
    <2> QED
      BY <2>4, <2>5, <2>6, <2>7, <2>8, <2>9 DEF OutcomeInv
  <1> QED
    BY <1>1, <1>2, <1>3, <1>4, <1>5 DEF CommandStep

\* A step changes nothing about the outcomes if it tells none, leaves the scans, their
\* tasks and their ids alone, and no connection begins or ends a command.
LEMMA SameOutcome ==
  ASSUME TypeInv, OutcomeInv,
         UNCHANGED <<scanSeq, scans, aborted, scan, spc>>,
         \A c \in Clients : \A p \in {"start", "insert", "cancel"} : cpc'[c] = p <=> cpc[c] = p,
         \A s \in ScanIds :
           /\ Told(sent', event', s, Ends) <=> Told(sent, event, s, Ends)
           /\ Told(sent', event', s, Cancels) <=> Told(sent, event, s, Cancels)
           /\ Told(sent', event', s, Kinds) <=> Told(sent, event, s, Kinds)
           /\ Single(sent, event, s, Ends) => Single(sent', event', s, Ends)
           /\ Single(sent, event, s, Cancels) => Single(sent', event', s, Cancels)
  PROVE  OutcomeInv'
PROOF
  <1>1. FreshInv' /\ TaskInv' /\ SingleInv'
    BY DEF OutcomeInv, FreshInv, TaskInv, SingleInv
  <1>2. StartInv'
    BY DEF OutcomeInv, StartInv
  <1>3. CancelInv'
    BY DEF OutcomeInv, CancelInv
  <1>4. AnswerInv'
    BY DEF OutcomeInv, AnswerInv
  <1> QED
    BY <1>1, <1>2, <1>3, <1>4 DEF OutcomeInv

\* The other steps of a connection keep the outcomes.
LEMMA ConnectionOutcome ==
  ASSUME TypeInv, OutcomeInv, NEW c \in Clients, ClientStep(c)
  PROVE  OutcomeInv'
PROOF
  <1> USE OutcomeTypes, ConstantFacts DEF MoveClient, shared, scanVars, Live, Command
  <1>0. /\ cpc \in [Clients -> {"accepted", "greet", "subscribe", "live", "start", "insert",
                               "cancel", "pause", "resume", "closed"}]
        /\ scan \in [Clients -> 0 .. MaxScans]
    BY DEF TypeInv, ClientTypesOK
  <1>1. CASE Replay(c) \/ Subscribe(c) \/ Receive(c) \/ Lagged(c) \/ Close(c)
    <2>1. /\ UNCHANGED <<scanSeq, scans, aborted, scan, spc, event, sent>>
          /\ \A d \in Clients \ {c} : cpc'[d] = cpc[d]
          /\ {cpc[c], cpc'[c]} \cap {"start", "insert", "cancel"} = {}
      BY <1>0, <1>1 DEF Replay, Subscribe, Receive, Lagged, Close, EndConnection
    <2> QED
      BY <2>1, SameOutcome
  <1>2. CASE Greet(c) \/ Answer(c)
    <2>1. /\ UNCHANGED <<scanSeq, scans, aborted, scan, spc, sent>>
          /\ \A d \in Clients \ {c} : cpc'[d] = cpc[d]
          /\ {cpc[c], cpc'[c]} \cap {"start", "insert", "cancel"} = {}
      BY <1>0, <1>2 DEF Greet, Answer
    <2>2. NowTold(0, "log")
      BY <1>2, EmitNowTold DEF Greet, Answer, Kinds
    <2>3. \A s \in ScanIds : s # 0
      OBVIOUS
    <2> QED
      BY <2>1, <2>2, <2>3, SameOutcome DEF NowTold
  <1>3. CASE StartScan(c)
    <2>1. /\ UNCHANGED <<scans, aborted, sent, spc>>
          /\ scanSeq \in ScanIds /\ scanSeq' = scanSeq + 1
          /\ cpc' = [cpc EXCEPT ![c] = "start"] /\ cpc[c] = "live"
          /\ scan' = [scan EXCEPT ![c] = scanSeq]
      BY <1>3 DEF StartScan
    <2>2. NowTold(scanSeq, "queued")
      <3>1. scanSeq \in 0 .. MaxScans /\ "queued" \in Kinds
        BY <2>1 DEF ScanIds, Kinds
      <3> QED
        BY <1>3, <2>1, <3>1, EmitNowTold DEF StartScan
    <2>3. \A s \in ScanIds :
            /\ Told(sent', event', s, Ends) <=> Told(sent, event, s, Ends)
            /\ Told(sent', event', s, Cancels) <=> Told(sent, event, s, Cancels)
            /\ Told(sent', event', s, Kinds) <=> Told(sent, event, s, Kinds) \/ s = scanSeq
      BY <2>2 DEF NowTold, Ends, Cancels, Kinds
    <2>4. ~Told(sent, event, scanSeq, Ends) /\ ~Told(sent, event, scanSeq, Cancels)
      <3>1. ~Told(sent, event, scanSeq, Kinds)
        BY <2>1 DEF OutcomeInv, FreshInv
      <3> QED
        BY <3>1 DEF Told, SentIn, Pending, Ends, Cancels, Kinds
    <2>5. spc[scanSeq] = "none"
      BY <2>1 DEF TypeInv, StartedInv
    <2>6. FreshInv'
      BY <2>1, <2>3 DEF OutcomeInv, FreshInv
    <2>7. StartInv'
      BY <1>0, <2>1, <2>3, <2>4, <2>5 DEF OutcomeInv, StartInv
    <2>8. CancelInv'
      BY <1>0, <2>1, <2>3 DEF OutcomeInv, CancelInv
    <2>9. TaskInv'
      BY <2>1, <2>3 DEF OutcomeInv, TaskInv
    <2>10. SingleInv'
      BY <2>2 DEF OutcomeInv, SingleInv, NowTold, Ends, Cancels
    <2>11. AnswerInv'
      BY <1>0, <2>1, <2>3 DEF OutcomeInv, AnswerInv
    <2> QED
      BY <2>6, <2>7, <2>8, <2>9, <2>10, <2>11 DEF OutcomeInv
  <1>4. CASE CancelScan(c)
    <2>1. PICK s \in DOMAIN scans :
            /\ scan' = [scan EXCEPT ![c] = s]
            /\ scans' = Without(s)
      BY <1>4 DEF CancelScan
    <2>2. /\ UNCHANGED <<scanSeq, aborted, sent, event, spc>>
          /\ cpc' = [cpc EXCEPT ![c] = "cancel"] /\ cpc[c] = "live"
          /\ DOMAIN scans' = DOMAIN scans \ {s}
          /\ s \in ScanIds
      BY <1>4, <2>1 DEF CancelScan, Without
    <2>3. FreshInv' /\ TaskInv' /\ SingleInv'
      BY <2>2 DEF OutcomeInv, FreshInv, TaskInv, SingleInv
    <2>4. StartInv'
      BY <1>0, <2>1, <2>2 DEF OutcomeInv, StartInv
    <2>5. CancelInv'
      BY <1>0, <2>1, <2>2 DEF OutcomeInv, CancelInv
    <2>6. AnswerInv'
      BY <1>0, <2>1, <2>2 DEF OutcomeInv, AnswerInv
    <2> QED
      BY <2>3, <2>4, <2>5, <2>6 DEF OutcomeInv
  <1>5. CASE SetPaused(c)
    <2>1. PICK s \in DOMAIN scans, paused \in BOOLEAN :
            /\ scan' = [scan EXCEPT ![c] = s]
            /\ scans' = [scans EXCEPT ![s] = paused]
            /\ cpc' = [cpc EXCEPT ![c] = IF paused THEN "pause" ELSE "resume"]
      BY <1>5 DEF SetPaused
    <2>2. /\ UNCHANGED <<scanSeq, aborted, sent, event, spc>>
          /\ cpc[c] = "live" /\ cpc'[c] \in {"pause", "resume"}
          /\ \A d \in Clients \ {c} : cpc'[d] = cpc[d]
          /\ DOMAIN scans' = DOMAIN scans
          /\ s \in ScanIds
      BY <1>0, <1>5, <2>1 DEF SetPaused
    <2>3. FreshInv' /\ TaskInv' /\ SingleInv'
      BY <2>2 DEF OutcomeInv, FreshInv, TaskInv, SingleInv
    <2>4. StartInv'
      BY <1>0, <2>1, <2>2 DEF OutcomeInv, StartInv
    <2>5. CancelInv'
      BY <1>0, <2>1, <2>2 DEF OutcomeInv, CancelInv
    <2>6. AnswerInv'
      BY <1>0, <2>1, <2>2 DEF OutcomeInv, AnswerInv
    <2> QED
      BY <2>3, <2>4, <2>5, <2>6 DEF OutcomeInv
  <1> QED
    BY <1>1, <1>2, <1>3, <1>4, <1>5 DEF ClientStep

\* The steps of a scan task keep the outcomes.
LEMMA TaskOutcome ==
  ASSUME TypeInv, OutcomeInv, NEW s \in ScanIds, ScanStep(s)
  PROVE  OutcomeInv'
PROOF
  <1> USE OutcomeTypes, ConstantFacts DEF MoveScan, shared, clientVars
  <1>0. /\ spc \in [ScanIds -> {"none", "spawned", "scanning", "report", "complete",
                               "remove", "done"}]
        /\ s \in Emitters /\ s \in 0 .. MaxScans
        /\ s >= scanSeq => spc[s] = "none"
    BY DEF TypeInv, TaskTypesOK, ScanIds, StartedInv
  <1>1. CASE BeginScan(s) \/ ReportFinding(s) \/ ReportArtifacts(s)
    <2>1. /\ UNCHANGED <<scanSeq, scans, aborted, sent, scan, cpc>>
          /\ spc[s] \in {"spawned", "scanning", "report", "complete"}
          /\ \E to \in {"scanning", "report", "complete"} : spc' = [spc EXCEPT ![s] = to]
      BY <1>0, <1>1 DEF BeginScan, ReportFinding, ReportArtifacts
    <2>2. PICK k \in {"progress", "finding", "artifact"} : NowTold(s, k)
      <3>1. PICK k \in {"progress", "finding", "artifact"} : Emit(s, s, k) /\ sent' = sent
        BY <1>1 DEF BeginScan, ReportFinding, ReportArtifacts
      <3>2. k \in Kinds
        BY DEF Kinds
      <3> QED
        BY <1>0, <3>1, <3>2, EmitNowTold
    <2>3. \A r \in ScanIds :
            /\ Told(sent', event', r, Ends) <=> Told(sent, event, r, Ends)
            /\ Told(sent', event', r, Cancels) <=> Told(sent, event, r, Cancels)
            /\ Told(sent', event', r, Kinds) <=> Told(sent, event, r, Kinds) \/ r = s
      BY <2>2 DEF NowTold, Ends, Cancels, Kinds
    <2>4. FreshInv'
      BY <1>0, <2>1, <2>3 DEF OutcomeInv, FreshInv
    <2>5. StartInv' /\ TaskInv'
      BY <1>0, <2>1, <2>3 DEF OutcomeInv, StartInv, TaskInv
    <2>6. CancelInv'
      BY <2>1, <2>3 DEF OutcomeInv, CancelInv
    <2>7. SingleInv'
      BY <2>2 DEF OutcomeInv, SingleInv, NowTold, Ends, Cancels
    <2>8. AnswerInv'
      BY <1>0, <2>1, <2>3 DEF OutcomeInv, AnswerInv
    <2> QED
      BY <2>4, <2>5, <2>6, <2>7, <2>8 DEF OutcomeInv
  <1>2. CASE Complete(s) \/ ScanErr(s)
    <2>1. /\ UNCHANGED <<scanSeq, scans, aborted, sent, scan, cpc>>
          /\ spc[s] \in {"scanning", "complete"}
          /\ spc' = [spc EXCEPT ![s] = "remove"]
      BY <1>2 DEF Complete, ScanErr
    <2>2. PICK k \in Ends : NowTold(s, k)
      <3>1. PICK k \in Ends : Emit(s, s, k) /\ sent' = sent
        BY <1>2 DEF Complete, ScanErr, Ends
      <3>2. k \in Kinds
        BY DEF Kinds, Ends
      <3> QED
        BY <1>0, <3>1, <3>2, EmitNowTold
    <2>3. \A r \in ScanIds :
            /\ Told(sent', event', r, Ends) <=> Told(sent, event, r, Ends) \/ r = s
            /\ Told(sent', event', r, Cancels) <=> Told(sent, event, r, Cancels)
            /\ Told(sent', event', r, Kinds) <=> Told(sent, event, r, Kinds) \/ r = s
      BY <2>2 DEF NowTold, Ends, Cancels, Kinds
    <2>4. ~Told(sent, event, s, Ends)
      BY <2>1 DEF OutcomeInv, TaskInv
    <2>5. FreshInv'
      BY <1>0, <2>1, <2>3 DEF OutcomeInv, FreshInv
    <2>6. StartInv' /\ TaskInv'
      BY <1>0, <2>1, <2>3 DEF OutcomeInv, StartInv, TaskInv
    <2>7. CancelInv'
      BY <2>1, <2>3 DEF OutcomeInv, CancelInv
    <2>8. SingleInv'
      BY <2>2, <2>4 DEF OutcomeInv, SingleInv, NowTold, Ends, Cancels
    <2>9. AnswerInv'
      BY <1>0, <2>1, <2>3 DEF OutcomeInv, AnswerInv
    <2> QED
      BY <2>5, <2>6, <2>7, <2>8, <2>9 DEF OutcomeInv
  <1>3. CASE ScanOk(s) \/ RemoveScan(s)
    <2>1. /\ UNCHANGED <<scanSeq, aborted, sent, event, scan, cpc>>
          /\ DOMAIN scans' \subseteq DOMAIN scans
          /\ \/ spc[s] = "scanning" /\ spc' = [spc EXCEPT ![s] = "report"]
             \/ spc[s] = "remove" /\ spc' = [spc EXCEPT ![s] = "done"]
      BY <1>3 DEF ScanOk, RemoveScan, Without
    <2>2. FreshInv' /\ SingleInv'
      BY <2>1 DEF OutcomeInv, FreshInv, SingleInv
    <2>3. StartInv' /\ TaskInv'
      BY <1>0, <2>1 DEF OutcomeInv, StartInv, TaskInv
    <2>4. CancelInv'
      BY <2>1 DEF OutcomeInv, CancelInv
    <2>5. AnswerInv'
      BY <1>0, <2>1 DEF OutcomeInv, AnswerInv
    <2> QED
      BY <2>2, <2>3, <2>4, <2>5 DEF OutcomeInv
  <1> QED
    BY <1>1, <1>2, <1>3 DEF ScanStep

\* Every step keeps the outcomes.
LEMMA OutcomeNext == TypeInv /\ OutcomeInv /\ [Next]_vars => OutcomeInv'
PROOF
  <1> SUFFICES ASSUME TypeInv, OutcomeInv, [Next]_vars PROVE OutcomeInv'
    OBVIOUS
  <1>1. ASSUME NEW e \in Emitters, Send(e) PROVE OutcomeInv'
    <2>1. UNCHANGED <<scanSeq, scans, aborted, scan, spc, cpc>>
      BY <1>1 DEF Send, clientVars, scanVars
    <2> QED
      BY <1>1, <2>1, SendTold, SameOutcome
  <1>2. CASE UNCHANGED vars
    BY <1>2, SameOutcome DEF vars, shared, clientVars, scanVars
  <1> QED
    BY <1>1, <1>2, CommandOutcome, ConnectionOutcome, TaskOutcome DEF Next

-----------------------------------------------------------------------------
(* Queued comes first.                                                      *)

Queueds == {"queued"}

\* Whoever will emit another event of a scan found Queued sent: the connection sends
\* it before it spawns the task or inserts the entry.
QueuedInv ==
  /\ \A s \in ScanIds :
       spc[s] # "none" \/ s \in DOMAIN scans => SentIn(sent, s, Queueds)
  /\ \A c \in Clients, s \in ScanIds :
       /\ cpc[c] \in {"insert", "cancel", "pause", "resume"} /\ scan[c] = s =>
            SentIn(sent, s, Queueds)
       /\ cpc[c] = "start" /\ scan[c] = s =>
            IF event[c] = NoEvent THEN SentIn(sent, s, Queueds)
            ELSE event[c] = [scan |-> s, kind |-> "queued"]
  /\ \A e \in Emitters, s \in ScanIds :
       event[e].scan = s => event[e].kind = "queued" \/ SentIn(sent, s, Queueds)
  /\ QueuedFirst

\* Before any event but Queued of scan s is emitted, Queued was sent.
LEMMA EmitQueued ==
  ASSUME TypeInv, QueuedInv, NEW e \in Emitters, NEW r \in 0 .. MaxScans, NEW k \in Kinds,
         Emit(e, r, k), sent' = sent,
         r \in ScanIds => k = "queued" \/ SentIn(sent, r, Queueds)
  PROVE  /\ event'[e] = [scan |-> r, kind |-> k]
         /\ event'[e] # NoEvent
         /\ event[e] = NoEvent
         /\ \A f \in Emitters \ {e} : event'[f] = event[f]
         /\ \A f \in Emitters, s \in ScanIds :
              event'[f].scan = s => event'[f].kind = "queued" \/ SentIn(sent', s, Queueds)
         /\ QueuedFirst'
PROOF
  <1>1. /\ event'[e] = [scan |-> r, kind |-> k]
        /\ event[e] = NoEvent
        /\ \A f \in Emitters \ {e} : event'[f] = event[f]
    BY DEF Emit, Idle, TypeInv, EmitTypesOK
  <1>2. event'[e] # NoEvent
    BY <1>1 DEF NoEvent, Kinds
  <1>3. QueuedFirst'
    BY DEF QueuedInv, QueuedFirst
  <1> QED
    BY <1>1, <1>2, <1>3 DEF QueuedInv

\* A sent event comes after Queued.
LEMMA SendQueued ==
  ASSUME TypeInv, QueuedInv, NEW e \in Emitters, Send(e)
  PROVE  QueuedInv'
PROOF
  <1>1. /\ event[e] \in Events /\ event'[e] = NoEvent
        /\ Len(sent) \in Nat /\ Len(sent') = Len(sent) + 1
        /\ \A i \in 1 .. Len(sent) : sent'[i] = sent[i]
        /\ sent'[Len(sent) + 1] = event[e]
        /\ \A f \in Emitters \ {e} : event'[f] = event[f]
    BY SendAppends
  <1>2. \A s \in ScanIds : SentIn(sent, s, Queueds) => SentIn(sent', s, Queueds)
    BY SendTold
  <1>3. UNCHANGED <<scanSeq, scans, cpc, scan, spc>>
    BY DEF Send, clientVars, scanVars
  <1>4. Len(sent) + 1 \in 1 .. Len(sent') /\ \A i \in 1 .. Len(sent) : i \in 1 .. Len(sent')
    BY <1>1
  <1>5. ASSUME NEW c \in Clients, NEW s \in ScanIds, cpc[c] = "start", scan[c] = s
        PROVE  IF event'[c] = NoEvent THEN SentIn(sent', s, Queueds)
               ELSE event'[c] = [scan |-> s, kind |-> "queued"]
    <2>1. IF event[c] = NoEvent THEN SentIn(sent, s, Queueds)
          ELSE event[c] = [scan |-> s, kind |-> "queued"]
      BY <1>5 DEF QueuedInv
    <2>2. CASE c = e
      <3>1. event[e] = [scan |-> s, kind |-> "queued"]
        BY <2>1, <2>2 DEF Send, Idle
      <3>2. SentIn(sent', s, Queueds)
        BY <1>1, <1>4, <3>1 DEF SentIn, Queueds
      <3> QED
        BY <1>1, <2>2, <3>2
    <2>3. CASE c # e
      BY <1>1, <1>2, <2>1, <2>3, ConstantFacts
    <2> QED
      BY <2>2, <2>3
  <1>6. ASSUME NEW f \in Emitters, NEW s \in ScanIds, event'[f].scan = s
        PROVE  event'[f].kind = "queued" \/ SentIn(sent', s, Queueds)
    <2>1. f # e
      BY <1>1, <1>6, ConstantFacts DEF NoEvent
    <2> QED
      BY <1>1, <1>2, <1>6, <2>1 DEF QueuedInv
  <1>7. QueuedFirst'
    <2> SUFFICES ASSUME NEW i \in 1 .. Len(sent'), sent'[i].scan # 0, sent'[i].kind # "queued"
                 PROVE  \E j \in 1 .. i - 1 :
                          sent'[j].scan = sent'[i].scan /\ sent'[j].kind = "queued"
      BY DEF QueuedFirst
    <2>1. CASE i \in 1 .. Len(sent)
      <3>1. PICK j \in 1 .. i - 1 : sent[j].scan = sent[i].scan /\ sent[j].kind = "queued"
        BY <1>1, <2>1 DEF QueuedInv, QueuedFirst
      <3>2. j \in 1 .. Len(sent)
        BY <1>1, <2>1
      <3> QED
        BY <1>1, <2>1, <3>1, <3>2
    <2>2. CASE i = Len(sent) + 1
      <3>1. sent'[i] = event[e] /\ event[e].scan \in ScanIds
        BY <1>1, <2>2 DEF Events, ScanIds
      <3>2. SentIn(sent, event[e].scan, Queueds)
        BY <3>1 DEF QueuedInv
      <3>3. PICK j \in 1 .. Len(sent) : sent[j].scan = event[e].scan /\ sent[j].kind = "queued"
        BY <3>2 DEF SentIn, Queueds
      <3>4. j \in 1 .. i - 1
        BY <1>1, <2>2
      <3> QED
        BY <1>1, <3>1, <3>3, <3>4
    <2> QED
      BY <1>1, <2>1, <2>2
  <1>8. \A s \in ScanIds : spc'[s] # "none" \/ s \in DOMAIN scans' => SentIn(sent', s, Queueds)
    BY <1>2, <1>3 DEF QueuedInv
  <1>9. \A c \in Clients, s \in ScanIds :
          cpc'[c] \in {"insert", "cancel", "pause", "resume"} /\ scan'[c] = s =>
            SentIn(sent', s, Queueds)
    BY <1>2, <1>3 DEF QueuedInv
  <1> QED
    BY <1>3, <1>5, <1>6, <1>7, <1>8, <1>9 DEF QueuedInv

\* What a step that sends nothing has to keep of QueuedInv besides what EmitQueued says.
LEMMA KeepQueued ==
  ASSUME QueuedInv, sent' = sent,
         \A s \in ScanIds : spc'[s] # "none" \/ s \in DOMAIN scans' => SentIn(sent, s, Queueds),
         \A c \in Clients, s \in ScanIds :
           /\ cpc'[c] \in {"insert", "cancel", "pause", "resume"} /\ scan'[c] = s =>
                SentIn(sent, s, Queueds)
           /\ cpc'[c] = "start" /\ scan'[c] = s =>
                IF event'[c] = NoEvent THEN SentIn(sent, s, Queueds)
                ELSE event'[c] = [scan |-> s, kind |-> "queued"],
         \/ event' = event
         \/ \A e \in Emitters, s \in ScanIds :
              event'[e].scan = s => event'[e].kind = "queued" \/ SentIn(sent, s, Queueds)
  PROVE  QueuedInv'
PROOF
  <1>1. QueuedFirst'
    BY DEF QueuedInv, QueuedFirst
  <1> QED
    BY <1>1 DEF QueuedInv

\* The steps of a connection keep Queued first.
LEMMA ClientQueued ==
  ASSUME TypeInv, QueuedInv, NEW c \in Clients, CommandStep(c) \/ ClientStep(c)
  PROVE  QueuedInv'
PROOF
  <1> USE OutcomeTypes, ConstantFacts DEF MoveClient, shared, scanVars, Live, Command
  <1>0. /\ cpc \in [Clients -> {"accepted", "greet", "subscribe", "live", "start", "insert",
                               "cancel", "pause", "resume", "closed"}]
        /\ scan \in [Clients -> 0 .. MaxScans]
        /\ DOMAIN spc = ScanIds
    BY DEF TypeInv, ClientTypesOK, TaskTypesOK
  <1>a. cpc[c] \in {"start", "insert", "cancel", "pause", "resume"} =>
          scan[c] \in ScanIds /\ scan[c] \in 0 .. MaxScans
    BY ScanOfClient
  <1>1. CASE Spawn(c)
    <2>1. /\ UNCHANGED <<scans, scan, sent, event>>
          /\ cpc' = [cpc EXCEPT ![c] = "insert"] /\ cpc[c] = "start"
          /\ spc' = [spc EXCEPT ![scan[c]] = "spawned"]
          /\ event[c] = NoEvent
      BY <1>1 DEF Spawn, Idle
    <2>2. SentIn(sent, scan[c], Queueds)
      BY <1>a, <2>1 DEF QueuedInv
    <2>3. \A s \in ScanIds : spc'[s] # "none" \/ s \in DOMAIN scans' => SentIn(sent, s, Queueds)
      BY <1>0, <2>1, <2>2 DEF QueuedInv
    <2> QED
      BY <1>0, <2>1, <2>2, <2>3, KeepQueued DEF QueuedInv
  <1>2. CASE RejectPorts(c) \/ Abort(c) \/ Acknowledge(c)
    <2>1. /\ UNCHANGED <<scans, sent, spc>>
          /\ cpc' = [cpc EXCEPT ![c] = "live"]
          /\ cpc[c] \in {"start", "cancel", "pause", "resume"}
          /\ scan' = [scan EXCEPT ![c] = 0]
      BY <1>2 DEF RejectPorts, Abort, Acknowledge
    <2>2. PICK k \in Kinds : Emit(c, scan[c], k)
      BY <1>2 DEF RejectPorts, Abort, Acknowledge, Kinds
    <2>3. SentIn(sent, scan[c], Queueds)
      BY <1>a, <2>1, <2>2 DEF QueuedInv, Emit, Idle
    <2>4. /\ \A f \in Emitters \ {c} : event'[f] = event[f]
          /\ \A f \in Emitters, s \in ScanIds :
               event'[f].scan = s => event'[f].kind = "queued" \/ SentIn(sent', s, Queueds)
      BY <1>a, <2>1, <2>2, <2>3, EmitQueued
    <2> QED
      BY <1>0, <2>1, <2>4, KeepQueued DEF QueuedInv
  <1>3. CASE Insert(c)
    <2>1. /\ UNCHANGED <<sent, event, spc>>
          /\ cpc' = [cpc EXCEPT ![c] = "live"] /\ cpc[c] = "insert"
          /\ scan' = [scan EXCEPT ![c] = 0]
          /\ DOMAIN scans' = DOMAIN scans \cup {scan[c]}
      BY <1>3 DEF Insert
    <2>2. SentIn(sent, scan[c], Queueds)
      BY <1>a, <2>1 DEF QueuedInv
    <2> QED
      BY <1>0, <2>1, <2>2, KeepQueued DEF QueuedInv
  <1>4. CASE Replay(c) \/ Subscribe(c) \/ Receive(c) \/ Lagged(c) \/ Close(c)
    <2>1. /\ UNCHANGED <<scans, scan, spc, event, sent>>
          /\ \A d \in Clients \ {c} : cpc'[d] = cpc[d]
          /\ cpc'[c] \notin {"start", "insert", "cancel", "pause", "resume"}
      BY <1>0, <1>4 DEF Replay, Subscribe, Receive, Lagged, Close, EndConnection
    <2> QED
      BY <2>1, KeepQueued DEF QueuedInv
  <1>5. CASE Greet(c) \/ Answer(c)
    <2>1. /\ UNCHANGED <<scans, scan, spc, sent>>
          /\ \A d \in Clients \ {c} : cpc'[d] = cpc[d]
          /\ cpc'[c] \notin {"start", "insert", "cancel", "pause", "resume"}
      BY <1>0, <1>5 DEF Greet, Answer
    <2>2. Emit(c, 0, "log") /\ "log" \in Kinds
      BY <1>5 DEF Greet, Answer, Kinds
    <2>a. /\ 0 \in 0 .. MaxScans /\ 0 \notin ScanIds
          /\ c \in Emitters
      BY DEF ScanIds, Emitters
    <2>b. sent' = sent
      BY <2>1
    <2>3. /\ \A f \in Emitters \ {c} : event'[f] = event[f]
          /\ \A f \in Emitters, s \in ScanIds :
               event'[f].scan = s => event'[f].kind = "queued" \/ SentIn(sent', s, Queueds)
      BY <2>2, <2>a, <2>b, EmitQueued
    <2> QED
      BY <2>1, <2>3, KeepQueued DEF QueuedInv
  <1>6. CASE StartScan(c)
    <2>1. /\ UNCHANGED <<scans, sent, spc>>
          /\ scanSeq \in ScanIds /\ scanSeq \in 0 .. MaxScans
          /\ cpc' = [cpc EXCEPT ![c] = "start"]
          /\ scan' = [scan EXCEPT ![c] = scanSeq]
          /\ Emit(c, scanSeq, "queued") /\ "queued" \in Kinds
      BY <1>6 DEF StartScan, ScanIds, Kinds
    <2>2. /\ event'[c] = [scan |-> scanSeq, kind |-> "queued"]
          /\ event'[c] # NoEvent
          /\ \A f \in Emitters \ {c} : event'[f] = event[f]
          /\ \A f \in Emitters, s \in ScanIds :
               event'[f].scan = s => event'[f].kind = "queued" \/ SentIn(sent', s, Queueds)
      BY <2>1, EmitQueued
    <2> QED
      BY <1>0, <2>1, <2>2, KeepQueued DEF QueuedInv
  <1>7. CASE CancelScan(c) \/ SetPaused(c)
    <2>1. PICK s \in DOMAIN scans : scan' = [scan EXCEPT ![c] = s]
      BY <1>7 DEF CancelScan, SetPaused
    <2>2. /\ UNCHANGED <<sent, event, spc>>
          /\ DOMAIN scans' \subseteq DOMAIN scans
          /\ cpc'[c] # "start"
          /\ \A d \in Clients \ {c} : cpc'[d] = cpc[d]
      BY <1>0, <1>7 DEF CancelScan, SetPaused, Without
    <2>3. SentIn(sent, s, Queueds)
      BY <2>1 DEF QueuedInv
    <2> QED
      BY <1>0, <2>1, <2>2, <2>3, KeepQueued DEF QueuedInv
  <1> QED
    BY <1>1, <1>2, <1>3, <1>4, <1>5, <1>6, <1>7 DEF CommandStep, ClientStep

\* The steps of a scan task keep Queued first.
LEMMA TaskQueued ==
  ASSUME TypeInv, QueuedInv, NEW s \in ScanIds, ScanStep(s)
  PROVE  QueuedInv'
PROOF
  <1> USE ConstantFacts DEF MoveScan, shared, clientVars
  <1>0. /\ DOMAIN spc = ScanIds /\ s \in Emitters /\ s \in 0 .. MaxScans
        /\ \A c \in Clients : c # s
    BY DEF TypeInv, TaskTypesOK, ScanIds
  <1>1. CASE BeginScan(s) \/ ReportFinding(s) \/ ReportArtifacts(s) \/ Complete(s) \/ ScanErr(s)
    <2>1. /\ UNCHANGED <<scans, sent, scan, cpc>>
          /\ spc[s] # "none"
          /\ \A r \in ScanIds \ {s} : spc'[r] = spc[r]
      BY <1>0, <1>1 DEF BeginScan, ReportFinding, ReportArtifacts, Complete, ScanErr
    <2>2. PICK k \in Kinds : Emit(s, s, k)
      BY <1>1 DEF BeginScan, ReportFinding, ReportArtifacts, Complete, ScanErr, Kinds
    <2>3. SentIn(sent, s, Queueds)
      BY <2>1 DEF QueuedInv
    <2>4. /\ \A f \in Emitters \ {s} : event'[f] = event[f]
          /\ \A f \in Emitters, r \in ScanIds :
               event'[f].scan = r => event'[f].kind = "queued" \/ SentIn(sent', r, Queueds)
      BY <1>0, <2>1, <2>2, <2>3, EmitQueued
    <2>5. \A c \in Clients : event'[c] = event[c]
      BY <1>0, <2>4
    <2> QED
      BY <2>1, <2>3, <2>4, <2>5, KeepQueued DEF QueuedInv
  <1>2. CASE ScanOk(s) \/ RemoveScan(s)
    <2>1. /\ UNCHANGED <<sent, event, scan, cpc>>
          /\ DOMAIN scans' \subseteq DOMAIN scans
          /\ spc[s] # "none"
          /\ \A r \in ScanIds \ {s} : spc'[r] = spc[r]
      BY <1>0, <1>2 DEF ScanOk, RemoveScan, Without
    <2> QED
      BY <2>1, KeepQueued DEF QueuedInv
  <1> QED
    BY <1>1, <1>2 DEF ScanStep

\* Every step keeps Queued first.
LEMMA QueuedNext == TypeInv /\ QueuedInv /\ [Next]_vars => QueuedInv'
PROOF
  <1> SUFFICES ASSUME TypeInv, QueuedInv, UNCHANGED vars PROVE QueuedInv'
    BY SendQueued, ClientQueued, TaskQueued DEF Next
  <1>1. UNCHANGED <<sent, event, scan, cpc, spc, scans>>
    BY DEF vars, shared, clientVars, scanVars
  <1> QED
    BY <1>1, KeepQueued DEF QueuedInv

-----------------------------------------------------------------------------
(* The theorems.                                                            *)

IInv == TypeInv /\ LoggedInv /\ GapInv /\ OutcomeInv /\ QueuedInv

\* The initial states satisfy the invariant.
LEMMA InitIInv == Init => IInv
PROOF
  <1> SUFFICES ASSUME Init PROVE IInv
    OBVIOUS
  <1>0. TypeInv
    BY InitTypes
  <1>1. /\ sent = <<>> /\ Len(sent) = 0
        /\ \A e \in Emitters : event[e] = NoEvent
        /\ DOMAIN scans = {} /\ aborted = {}
        /\ \A c \in Clients : cpc[c] = "accepted" /\ scan[c] = 0
        /\ \A s \in ScanIds : spc[s] = "none" /\ s # 0
        /\ scanSeq = 1
    BY ConstantFacts, EmptySeq DEF Init
  <1>2. LoggedInv
    BY <1>1 DEF LoggedInv
  <1>3. GapInv
    <2>1. \A c \in Watchers : seen[c] \in Seq(Events) /\ pos[c] = 0 /\ joined[c] = 0
      BY <1>0 DEF Init, TypeInv, SocketTypesOK
    <2> QED
      BY <2>1, MatchesNothing DEF GapInv
  <1>4. \A s \in ScanIds : \A ks :
          ~Told(sent, event, s, ks) /\ Single(sent, event, s, ks)
    BY <1>1 DEF Told, Single, SentIn, Pending, NoEvent
  <1>5. \A s \in ScanIds : s \in Nat /\ s >= 1
    BY DEF ScanIds
  <1>6. OutcomeInv
    BY <1>1, <1>4, <1>5
      DEF OutcomeInv, FreshInv, StartInv, CancelInv, TaskInv, SingleInv, AnswerInv
  <1>7. QueuedInv
    BY <1>1 DEF QueuedInv, QueuedFirst, NoEvent
  <1> QED
    BY <1>0, <1>2, <1>3, <1>6, <1>7 DEF IInv

\* The invariant holds in every reachable state.
LEMMA InvariantHolds == Spec => []IInv
PROOF
  <1>1. IInv /\ [Next]_vars => IInv'
    BY TypeNext, LoggedNext, GapNext, OutcomeNext, QueuedNext DEF IInv
  <1> QED
    BY <1>1, InitIInv, PTL DEF Spec

\* For any connections, scans and capacity, the log stays within its capacity and the
\* map holds only scans that were started.
THEOREM TypeCorrect == Spec => []TypeOK
PROOF
  <1>1. IInv => TypeOK
    BY TypeParts DEF IInv
  <1> QED
    BY <1>1, InvariantHolds, PTL

\* What subscribers were sent is in the log until the log is full, and no subscriber
\* goes on with a gap.
THEOREM NothingIsLost == Spec => []NothingLost
PROOF
  <1>1. IInv => SentIsLogged
    BY DEF IInv, LoggedInv, Within, SentIsLogged
  <1>2. IInv => NoSilentGap
    BY GapIsNoSilentGap DEF IInv
  <1>3. IInv => NothingLost
    BY <1>1, <1>2 DEF NothingLost
  <1> QED
    BY <1>3, InvariantHolds, PTL

\* However connections and tasks interleave, Queued is the first event of a scan, and
\* each kind of outcome is sent once.
THEOREM HistoryIsOne == Spec => []OneHistory
PROOF
  <1>1. IInv => OneOutcome
    <2> SUFFICES ASSUME IInv, NEW i \in 1 .. Len(sent), NEW j \in 1 .. Len(sent),
                        sent[i].scan # 0, sent[i].scan = sent[j].scan,
                        NEW ks \in {Cancels, Ends}, sent[i].kind \in ks, sent[j].kind \in ks
                 PROVE  i = j
      BY DEF OneOutcome, Cancels, Ends
    <2>1. sent[i] \in Events
      BY ElementOfSeq DEF IInv, TypeInv, SharedTypesOK
    <2>2. sent[i].scan \in ScanIds
      BY <2>1 DEF Events, ScanIds
    <2>3. Single(sent, event, sent[i].scan, ks)
      BY <2>2 DEF IInv, OutcomeInv, SingleInv
    <2> QED
      BY <2>3 DEF Single
  <1>2. IInv => OneHistory
    BY <1>1 DEF IInv, QueuedInv, OneHistory
  <1> QED
    BY <1>2, InvariantHolds, PTL

\* A scan for which nothing more will happen was answered, in whatever order its
\* cancellation, its start and its end happened.
THEOREM EveryScanAnswered == Spec => []ScanAnswered
PROOF
  <1>1. IInv => ScanAnswered
    <2> SUFFICES ASSUME IInv, NEW s \in 1 .. scanSeq - 1, Settled(s)
                 PROVE  Sent(s, {"completed", "error", "cancelled"})
      BY DEF ScanAnswered
    <2>1. s \in ScanIds /\ s < scanSeq
      BY ConstantFacts DEF IInv, TypeInv, SharedTypesOK, ScanIds
    <2>2. Told(sent, event, s, Ends) \/ Told(sent, event, s, Cancels)
      BY <2>1 DEF IInv, OutcomeInv, AnswerInv, Settled
    <2>3. SentIn(sent, s, Ends) \/ SentIn(sent, s, Cancels)
      BY <2>2 DEF Told, Pending, Settled
    <2> QED
      BY <2>3 DEF SentIn, Sent, Ends, Cancels
  <1> QED
    BY <1>1, InvariantHolds, PTL

=============================================================================
