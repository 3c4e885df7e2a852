------------------------------ MODULE Realtime ------------------------------
(***************************************************************************)
(* The realtime server of crates/cli/src/realtime.rs: WebSocket            *)
(* connections start, cancel and pause scans; connections and scan tasks   *)
(* emit events into a bounded log (replayed to whoever connects) and a     *)
(* bounded broadcast channel (read by whoever is subscribed).              *)
(*                                                                         *)
(* Connections and scan tasks run in parallel on the threads of the        *)
(* runtime.  One action is the code up to and including one access to      *)
(* shared state (a locked section, a send).  A scan task can be aborted    *)
(* only where it awaits: before it starts, and in run_scan_with_ports.     *)
(* An event is its scan and its kind; its id and its text are left out.    *)
(***************************************************************************)
EXTENDS Naturals, Sequences

CONSTANTS
  Clients,           \* WebSocket connections; a reconnect is a new one
  Watchers,          \* those whose socket is observed; what the others read is left out
  EventLogCapacity,  \* length of the log and of the channel: 512
  MaxScans,          \* bound: number of start_scan commands
  MaxCommands,       \* bound: number of commands received
  MaxFindings        \* bound: vulnerabilities of one scan

ASSUME RealtimeAssumption ==
  /\ EventLogCapacity \in Nat \ {0}
  /\ MaxScans \in Nat /\ MaxCommands \in Nat /\ MaxFindings \in Nat
  /\ Clients \cap (1 .. MaxScans) = {} /\ Watchers \subseteq Clients

ScanIds == 1 .. MaxScans

\* Whoever calls emit: connections and scan tasks.
Emitters == Clients \cup ScanIds

\* RealtimeEventKind; "log" stands for every event without a scan id.
Kinds == {"queued", "progress", "finding", "log", "error", "artifact",
          "completed", "paused", "resumed", "cancelled"}

\* RealtimeEvent; scan_id None is 0.
Events == [scan : 0 .. MaxScans, kind : Kinds]

\* No event is being emitted.
NoEvent == [scan |-> 0, kind |-> "none"]

\* (An update of seen, pos or joined at another connection changes nothing.)
VARIABLES
  scanSeq,   \* scan_seq
  log,       \* event_log
  sent,      \* everything sent on the channel so far (it keeps the last ones)
  scans,     \* HashMap from scan id to the paused flag of its RunningScan
  aborted,   \* scans whose JoinHandle was aborted
  event,     \* the event each emitter has logged and will send
  cpc,       \* where each connection is
  scan,      \* the scan id of the command that a connection handles, or 0
  seen,      \* the events written to the socket of each watcher
  pos,       \* channel position of the receiver of each watcher
  joined,    \* channel position at which it subscribed
  commands,  \* number of commands received, for the bound only
  spc,       \* where each scan task is
  findings   \* vulnerabilities a scan task has still to emit

shared == <<scanSeq, log, sent, scans, aborted>>
clientVars == <<cpc, scan, seen, pos, joined, commands>>
scanVars == <<spc, findings>>
vars == <<shared, event, clientVars, scanVars>>

Init ==
  /\ scanSeq = 1
  /\ log = <<>> /\ sent = <<>>
  /\ scans = <<>> /\ aborted = {}
  /\ event = [e \in Emitters |-> NoEvent]
  /\ cpc = [c \in Clients |-> "accepted"]
  /\ scan = [c \in Clients |-> 0]
  /\ seen = [c \in Watchers |-> <<>>]
  /\ pos = [c \in Watchers |-> 0]
  /\ joined = [c \in Watchers |-> 0]
  /\ commands = 0
  /\ spc = [s \in ScanIds |-> "none"]
  /\ findings = [s \in ScanIds |-> 0]

-----------------------------------------------------------------------------
(* RealtimeState::emit, in two steps.                                      *)

Idle(e) == event[e] = NoEvent

\* Faulty variant: the oldest entry is dropped only when the log is too long.
EmitOverfull(e, s, k) ==
  /\ Idle(e)
  /\ LET ev == [scan |-> s, kind |-> k]
     IN  /\ log' = Append(IF Len(log) > EventLogCapacity THEN Tail(log) ELSE log, ev)
         /\ event' = [event EXCEPT ![e] = ev]

\* The call of emit up to the locked section that writes the log.
Emit(e, s, k) ==
  /\ Idle(e)
  /\ LET ev == [scan |-> s, kind |-> k]
     IN  /\ log' = Append(IF Len(log) = EventLogCapacity THEN Tail(log) ELSE log, ev)
         /\ event' = [event EXCEPT ![e] = ev]

\* sender.send, and emit returns.
Send(e) ==
  /\ ~Idle(e)
  /\ sent' = Append(sent, event[e])
  /\ event' = [event EXCEPT ![e] = NoEvent]
  /\ UNCHANGED <<scanSeq, log, scans, aborted, clientVars, scanVars>>

-----------------------------------------------------------------------------
(* A connection: handle_websocket.  It does nothing else while it handles  *)
(* a command, for no command awaits.                                       *)

MoveClient(c, from, to) == cpc[c] = from /\ cpc' = [cpc EXCEPT ![c] = to]

\* The log is copied and written to the socket.
Replay(c) ==
  /\ MoveClient(c, "accepted", "greet")
  /\ seen' = [seen EXCEPT ![c] = log]
  /\ UNCHANGED <<shared, event, scan, pos, joined, commands, scanVars>>

\* "client connected" is emitted before the connection subscribes.
Greet(c) ==
  /\ MoveClient(c, "greet", "subscribe")
  /\ Emit(c, 0, "log")
  /\ UNCHANGED <<scanSeq, sent, scans, aborted, scan, seen, pos, joined, commands, scanVars>>

Subscribe(c) ==
  /\ MoveClient(c, "subscribe", "live")
  /\ Idle(c)
  /\ pos' = [pos EXCEPT ![c] = Len(sent)]
  /\ joined' = [joined EXCEPT ![c] = Len(sent)]
  /\ UNCHANGED <<shared, event, scan, seen, commands, scanVars>>

\* Waiting in select!, with no command half done.
Live(c) == cpc[c] = "live" /\ Idle(c)

\* rx.recv() returns an event.
Receive(c) ==
  /\ Live(c) /\ c \in Watchers
  /\ pos[c] < Len(sent) /\ Len(sent) - pos[c] <= EventLogCapacity
  /\ pos' = [pos EXCEPT ![c] = @ + 1]
  /\ seen' = [seen EXCEPT ![c] = Append(@, sent[pos[c] + 1])]
  /\ UNCHANGED <<shared, event, cpc, scan, joined, commands, scanVars>>

\* Faulty variant: the receiver goes on with the oldest event still there.
LaggedContinue(c) ==
  /\ Live(c) /\ c \in Watchers
  /\ Len(sent) - pos[c] > EventLogCapacity
  /\ pos' = [pos EXCEPT ![c] = Len(sent) - EventLogCapacity]
  /\ UNCHANGED <<shared, event, cpc, scan, seen, joined, commands, scanVars>>

\* The connection ends, its receiver is dropped and its socket closed.
EndConnection(c) ==
  /\ cpc' = [cpc EXCEPT ![c] = "closed"]
  /\ seen' = [seen EXCEPT ![c] = <<>>]
  /\ pos' = [pos EXCEPT ![c] = 0]
  /\ joined' = [joined EXCEPT ![c] = 0]
  /\ UNCHANGED <<shared, event, scan, commands, scanVars>>

\* rx.recv() returns Lagged: `received?` ends the connection.
Lagged(c) ==
  /\ Live(c) /\ c \in Watchers
  /\ Len(sent) - pos[c] > EventLogCapacity
  /\ EndConnection(c)

\* The peer closes, or a write fails.  (Others than watchers just do nothing any
\* more.)
Close(c) ==
  /\ c \in Watchers /\ (cpc[c] = "greet" \/ Live(c))
  /\ EndConnection(c)

-----------------------------------------------------------------------------
(* The commands: handle_command.                                           *)

\* The next message is a command.
Command(c) == Live(c) /\ commands < MaxCommands /\ commands' = commands + 1

\* Ping, or a message that is no command.
Answer(c) ==
  /\ Command(c)
  /\ Emit(c, 0, "log")
  /\ UNCHANGED <<scanSeq, sent, scans, aborted, cpc, scan, seen, pos, joined, scanVars>>

\* start_scan, up to the Queued event.
StartScan(c) ==
  /\ Command(c) /\ scanSeq \in ScanIds
  /\ cpc' = [cpc EXCEPT ![c] = "start"]
  /\ scan' = [scan EXCEPT ![c] = scanSeq]
  /\ scanSeq' = scanSeq + 1
  /\ Emit(c, scanSeq, "queued")
  /\ UNCHANGED <<sent, scans, aborted, seen, pos, joined, scanVars>>

\* Faulty variant: the early return is missing, the scan is started all the same.
RejectPortsGoOn(c) ==
  /\ MoveClient(c, "start", "insert")
  /\ Emit(c, scan[c], "error")
  /\ spc' = [spc EXCEPT ![scan[c]] = "spawned"]
  /\ UNCHANGED <<scanSeq, sent, scans, aborted, scan, seen, pos, joined, commands, findings>>

\* parse_ports fails.
RejectPorts(c) ==
  /\ MoveClient(c, "start", "live")
  /\ Emit(c, scan[c], "error")
  /\ scan' = [scan EXCEPT ![c] = 0]
  /\ UNCHANGED <<scanSeq, sent, scans, aborted, seen, pos, joined, commands, scanVars>>

\* tokio::spawn: from here on the task may run, and even end.
Spawn(c) ==
  /\ MoveClient(c, "start", "insert")
  /\ Idle(c)
  /\ spc' = [spc EXCEPT ![scan[c]] = "spawned"]
  /\ UNCHANGED <<shared, event, scan, seen, pos, joined, commands, findings>>

Insert(c) ==
  /\ MoveClient(c, "insert", "live")
  /\ scans' = [s \in DOMAIN scans \cup {scan[c]} |->
                 IF s = scan[c] THEN FALSE ELSE scans[s]]
  /\ scan' = [scan EXCEPT ![c] = 0]
  /\ UNCHANGED <<scanSeq, log, sent, aborted, event,
                 seen, pos, joined, commands, scanVars>>

Without(s) == [r \in DOMAIN scans \ {s} |-> scans[r]]

\* cancel_scan, up to the end of the locked section.  An id that is not in the
\* map changes nothing.
CancelScan(c) ==
  /\ Command(c)
  /\ \E s \in DOMAIN scans :
       /\ scan' = [scan EXCEPT ![c] = s]
       /\ scans' = Without(s)
  /\ cpc' = [cpc EXCEPT ![c] = "cancel"]
  /\ UNCHANGED <<scanSeq, log, sent, aborted, event, seen, pos, joined, scanVars>>

\* Faulty variant: the scan is aborted and nobody is told.
AbortSilently(c) ==
  /\ MoveClient(c, "cancel", "live")
  /\ aborted' = aborted \cup {scan[c]}
  /\ scan' = [scan EXCEPT ![c] = 0]
  /\ UNCHANGED <<scanSeq, log, sent, scans, event, seen, pos, joined, commands, scanVars>>

\* handle.abort(), then the Cancelled event.
Abort(c) ==
  /\ MoveClient(c, "cancel", "live")
  /\ aborted' = aborted \cup {scan[c]}
  /\ Emit(c, scan[c], "cancelled")
  /\ scan' = [scan EXCEPT ![c] = 0]
  /\ UNCHANGED <<scanSeq, sent, scans, seen, pos, joined, commands, scanVars>>

\* set_paused, up to the end of the locked section.  No scan reads the flag.
SetPaused(c) ==
  /\ Command(c)
  /\ \E s \in DOMAIN scans, paused \in BOOLEAN :
       /\ scan' = [scan EXCEPT ![c] = s]
       /\ scans' = [scans EXCEPT ![s] = paused]
       /\ cpc' = [cpc EXCEPT ![c] = IF paused THEN "pause" ELSE "resume"]
  /\ UNCHANGED <<scanSeq, log, sent, aborted, event, seen, pos, joined, scanVars>>

Acknowledge(c) ==
  /\ cpc[c] \in {"pause", "resume"}
  /\ Emit(c, scan[c], IF cpc[c] = "pause" THEN "paused" ELSE "resumed")
  /\ cpc' = [cpc EXCEPT ![c] = "live"]
  /\ scan' = [scan EXCEPT ![c] = 0]
  /\ UNCHANGED <<scanSeq, sent, scans, aborted, seen, pos, joined, commands, scanVars>>

-----------------------------------------------------------------------------
(* The task that start_scan spawns.                                        *)

MoveScan(s, from, to) == spc[s] = from /\ spc' = [spc EXCEPT ![s] = to]

BeginScan(s) ==
  /\ s \notin aborted
  /\ MoveScan(s, "spawned", "scanning")
  /\ Emit(s, s, "progress")
  /\ UNCHANGED <<scanSeq, sent, scans, aborted, clientVars, findings>>

\* run_scan_with_ports returns Ok; the reports are written.
ScanOk(s) ==
  /\ s \notin aborted
  /\ MoveScan(s, "scanning", "report")
  /\ Idle(s)
  /\ \E n \in 0 .. MaxFindings : findings' = [findings EXCEPT ![s] = n]
  /\ UNCHANGED <<shared, event, clientVars>>

ReportFinding(s) ==
  /\ spc[s] = "report" /\ findings[s] > 0
  /\ findings' = [findings EXCEPT ![s] = @ - 1]
  /\ Emit(s, s, "finding")
  /\ UNCHANGED <<scanSeq, sent, scans, aborted, clientVars, spc>>

ReportArtifacts(s) ==
  /\ findings[s] = 0
  /\ MoveScan(s, "report", "complete")
  /\ Emit(s, s, "artifact")
  /\ UNCHANGED <<scanSeq, sent, scans, aborted, clientVars, findings>>

Complete(s) ==
  /\ MoveScan(s, "complete", "remove")
  /\ Emit(s, s, "completed")
  /\ UNCHANGED <<scanSeq, sent, scans, aborted, clientVars, findings>>

\* run_scan_with_ports returns Err.
ScanErr(s) ==
  /\ s \notin aborted
  /\ MoveScan(s, "scanning", "remove")
  /\ Emit(s, s, "error")
  /\ UNCHANGED <<scanSeq, sent, scans, aborted, clientVars, findings>>

\* scans.remove: does nothing when the entry is not (or not yet) there.
RemoveScan(s) ==
  /\ MoveScan(s, "remove", "done")
  /\ Idle(s)
  /\ scans' = Without(s)
  /\ UNCHANGED <<scanSeq, log, sent, aborted, event, clientVars, findings>>

-----------------------------------------------------------------------------
\* The steps of a connection that wait for nobody.
CommandStep(c) ==
  \/ Spawn(c) \/ RejectPorts(c) \/ Insert(c) \/ Abort(c) \/ Acknowledge(c)

ClientStep(c) ==
  \/ Replay(c) \/ Greet(c) \/ Subscribe(c) \/ Receive(c) \/ Lagged(c) \/ Close(c)
  \/ Answer(c) \/ StartScan(c) \/ CancelScan(c) \/ SetPaused(c)

ScanStep(s) ==
  \/ BeginScan(s) \/ ScanOk(s) \/ ReportFinding(s) \/ ReportArtifacts(s)
  \/ Complete(s) \/ ScanErr(s) \/ RemoveScan(s)

Next ==
  \/ \E e \in Emitters : Send(e)
  \/ \E c \in Clients : CommandStep(c) \/ ClientStep(c)
  \/ \E s \in ScanIds : ScanStep(s)

Spec == Init /\ [][Next]_vars

-----------------------------------------------------------------------------
(* Properties.                                                             *)

\* An event of scan s and of one of kinds ks was sent.
Sent(s, ks) == \E i \in 1 .. Len(sent) : sent[i].scan = s /\ sent[i].kind \in ks

\* Type invariant: the log never outgrows its capacity, and the map holds only
\* scans that were started.
TypeOK ==
  /\ scanSeq \in 1 .. MaxScans + 1
  /\ log \in Seq(Events) /\ Len(log) <= EventLogCapacity
  /\ sent \in Seq(Events)
  /\ DOMAIN scans \subseteq 1 .. scanSeq - 1
  /\ \A s \in DOMAIN scans : scans[s] \in BOOLEAN
  /\ aborted \subseteq 1 .. scanSeq - 1
  /\ event \in [Emitters -> Events \cup {NoEvent}]
  /\ cpc \in [Clients -> {"accepted", "greet", "subscribe", "live", "start", "insert",
                          "cancel", "pause", "resume", "closed"}]
  /\ scan \in [Clients -> 0 .. MaxScans]
  /\ seen \in [Watchers -> Seq(Events)]
  /\ commands \in 0 .. MaxCommands
  /\ pos \in [Watchers -> Nat] /\ joined \in [Watchers -> Nat]
  /\ \A c \in Watchers : pos[c] <= Len(sent)
  /\ spc \in [ScanIds -> {"none", "spawned", "scanning", "report", "complete",
                          "remove", "done"}]
  /\ findings \in [ScanIds -> 0 .. MaxFindings]

\* Whatever subscribers were sent can be replayed to the next connection, unless
\* the log has reached its capacity: emit writes the log before it sends.
SentIsLogged ==
  \/ Len(log) = EventLogCapacity
  \/ \A i \in 1 .. Len(sent) : \E j \in 1 .. Len(log) : log[j] = sent[i]

\* Although connections and the task emit the events of a scan independently,
\* the first one sent is Queued.
QueuedFirst ==
  \A i \in 1 .. Len(sent) :
    sent[i].scan # 0 /\ sent[i].kind # "queued" =>
      \E j \in 1 .. i - 1 : sent[j].scan = sent[i].scan /\ sent[j].kind = "queued"

\* A scan is cancelled at most once (whoever removes its map entry tells so) and
\* ends in at most one way of its own, also when its ports are rejected or its
\* task races the insertion of its handle.
OneOutcome ==
  \A i, j \in 1 .. Len(sent) :
    sent[i].scan # 0 /\ sent[i].scan = sent[j].scan =>
      \A ks \in {{"cancelled"}, {"completed", "error"}} :
        sent[i].kind \in ks /\ sent[j].kind \in ks => i = j

\* A subscriber gets every event sent since it subscribed, in the order of the
\* channel: one that falls behind by more than the capacity is disconnected and
\* never continues with a gap.
NoSilentGap ==
  \A c \in Watchers :
    LET received == pos[c] - joined[c]
    IN  /\ received <= Len(seen[c])
        /\ SubSeq(seen[c], Len(seen[c]) - received + 1, Len(seen[c]))
             = SubSeq(sent, joined[c] + 1, pos[c])

\* What subscribers were sent can be had again or was received without a gap.
NothingLost == SentIsLogged /\ NoSilentGap

\* Of each scan subscribers see one history, from Queued to one outcome of each kind,
\* whoever emits its events.
OneHistory == QueuedFirst /\ OneOutcome

\* Nothing more will happen to scan s of its own accord: no connection handles
\* it, none of its events is being sent, and its task has ended or been aborted.
Settled(s) ==
  /\ \A c \in Clients : scan[c] # s
  /\ \A e \in Emitters : event[e].scan # s
  /\ \/ spc[s] \in {"none", "done"}
     \/ s \in aborted /\ spc[s] \in {"spawned", "scanning"}

\* Every scan that was queued is answered: once it is settled, subscribers were
\* told that it was rejected, completed, failed or was cancelled, in whatever
\* order cancellation, the start of the task and its end happened.
ScanAnswered ==
  \A s \in 1 .. scanSeq - 1 :
    Settled(s) => Sent(s, {"completed", "error", "cancelled"})

\* Cancelling stops the scan task: a scan does not both complete and get cancelled.
CancelStopsScan ==
  \A s \in ScanIds : ~(Sent(s, {"cancelled"}) /\ Sent(s, {"completed"}))

\* A frontend that reconnects can rely on the persisted event stream: once it has
\* read everything the channel has for it, it has seen every event of every scan
\* (while the log has not reached its capacity).
ReconnectSeesAll ==
  \A c \in Watchers :
    Live(c) /\ pos[c] = Len(sent) /\ Len(log) < EventLogCapacity =>
      \A i \in 1 .. Len(sent) :
        sent[i].scan # 0 => \E j \in 1 .. Len(seen[c]) : seen[c][j] = sent[i]

=============================================================================
