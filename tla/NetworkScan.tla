------------------------------ MODULE NetworkScan ------------------------------
(***************************************************************************)
(* The network scan of crates/cli/src/orchestrator.rs                      *)
(* (run_network_scan_multi_with_options): the hosts of a CIDR range are    *)
(* scanned in chunks; after each chunk the next offset and all results so  *)
(* far are written to a checkpoint file through a temporary file and a     *)
(* rename; a later invocation with --resume continues from that file.      *)
(*                                                                         *)
(* The model is one user who starts the scan again and again, with options *)
(* of his choice, after it ended, failed or was killed.  A result is an    *)
(* entry that names its host, the invocation (pass) that produced it and   *)
(* that invocation's scope (CIDR and ports).  Delays (the adaptive         *)
(* backoff) are left out.                                                  *)
(***************************************************************************)
EXTENDS Naturals, Sequences

CONSTANTS
  HostCount,   \* hosts of the range: 2^(32 - prefix)
  ChunkSizes,  \* values of --chunk-size the user may give
  Scopes,      \* values of (CIDR, ports) the user may give
  MaxEntries,  \* entries one host can yield: one per web URL
  MaxPasses,   \* bound: invocations
  NoFile, Torn, NoOptions

ASSUME NetworkAssumption ==
  /\ HostCount \in Nat \ {0}
  /\ ChunkSizes \subseteq Nat
  /\ MaxEntries \in Nat \ {0}
  /\ MaxPasses \in Nat

Hosts == 0 .. HostCount - 1

\* The scope and NetworkScanOptions: checkpoint says whether there is a path for
\* it.
Options == [scope : Scopes, chunk_size : ChunkSizes, checkpoint : BOOLEAN, resume : BOOLEAN]

Entries == [host : Hosts, pass : 1 .. MaxPasses, scope : Scopes]

\* NetworkCheckpoint
Checkpoints == [scope : Scopes, next_offset : 0 .. HostCount, results : Seq(Entries)]

\* The absence of a file, of a whole file and of an invocation are values of their own.
ASSUME AbsenceAssumption ==
  /\ NoFile # Torn
  /\ {NoFile, Torn} \cap Checkpoints = {}
  /\ NoOptions \notin Options

VARIABLES
  pc,          \* where the invocation is; "idle" if none is running
  options,     \* its options
  pass,        \* number of invocations so far
  offset,      \* first host of the next chunk
  chunk_end,
  current,     \* next host of the chunk to scan (current_offset)
  results,     \* per_target_results
  checkpoint,  \* the checkpoint file
  temporary,   \* the temporary file beside it
  produced     \* history: <<host, pass, scope, number of entries>> of every host scan

memory == <<options, offset, chunk_end, current, results>>
disk == <<checkpoint, temporary>>
vars == <<pc, pass, memory, disk, produced>>

-----------------------------------------------------------------------------
Init ==
  /\ pc = "idle"
  /\ options = NoOptions
  /\ pass = 0
  /\ offset = 0
  /\ chunk_end = 0
  /\ current = 0
  /\ results = <<>>
  /\ checkpoint = NoFile
  /\ temporary = NoFile
  /\ produced = {}

Minimum(m, n) == IF m < n THEN m ELSE n

\* What is in memory is lost when the process ends without a report.
Forget ==
  /\ pc' = "idle"
  /\ offset' = 0
  /\ chunk_end' = 0
  /\ current' = 0
  /\ results' = <<>>
  /\ options' = NoOptions

\* load_network_checkpoint accepts the file: it is readable, whole and of the
\* same CIDR and ports. (The chunk size, the liveness strategy and the passive
\* mode are not compared.)
CanResume(o) ==
  /\ o.checkpoint
  /\ checkpoint \notin {NoFile, Torn}
  /\ checkpoint.scope = o.scope

\* Faulty variants of Start: the retained results are dropped; the scan begins at
\* the first host again; it begins at the last host of the chunk before.
StartWithoutResults(o) ==
  /\ pc \in {"idle", "done"}
  /\ pass < MaxPasses
  /\ o.resume => CanResume(o)
  /\ pc' = "loop"
  /\ options' = o
  /\ pass' = pass + 1
  /\ offset' = IF o.resume THEN checkpoint.next_offset ELSE 0
  /\ results' = <<>>
  /\ UNCHANGED <<chunk_end, current, disk, produced>>

StartFromZero(o) ==
  /\ pc \in {"idle", "done"}
  /\ pass < MaxPasses
  /\ o.resume => CanResume(o)
  /\ pc' = "loop"
  /\ options' = o
  /\ pass' = pass + 1
  /\ offset' = 0
  /\ results' = IF o.resume THEN checkpoint.results ELSE <<>>
  /\ UNCHANGED <<chunk_end, current, disk, produced>>

StartOneEarly(o) ==
  /\ pc \in {"idle", "done"}
  /\ pass < MaxPasses
  /\ o.resume => CanResume(o)
  /\ pc' = "loop"
  /\ options' = o
  /\ pass' = pass + 1
  /\ offset' = IF o.resume THEN checkpoint.next_offset - 1 ELSE 0
  /\ results' = IF o.resume THEN checkpoint.results ELSE <<>>
  /\ UNCHANGED <<chunk_end, current, disk, produced>>

\* An invocation that resumes, or starts at the first host.
Start(o) ==
  /\ pc \in {"idle", "done"}
  /\ pass < MaxPasses
  /\ o.resume => CanResume(o)
  /\ pc' = "loop"
  /\ options' = o
  /\ pass' = pass + 1
  /\ offset' = IF o.resume THEN checkpoint.next_offset ELSE 0
  /\ results' = IF o.resume THEN checkpoint.results ELSE <<>>
  /\ UNCHANGED <<chunk_end, current, disk, produced>>

\* An invocation that load_network_checkpoint refuses.
Refuse(o) ==
  /\ pc \in {"idle", "done"}
  /\ pass < MaxPasses
  /\ o.resume /\ ~CanResume(o)
  /\ pass' = pass + 1
  /\ Forget
  /\ UNCHANGED <<disk, produced>>

\* Faulty variant: the chunk size is used as it was given.
ChunkSizeAsGiven == options.chunk_size

\* options.chunk_size.max(1)
ChunkSize == IF options.chunk_size = 0 THEN 1 ELSE options.chunk_size

\* Faulty variant: the last chunk is not cut off at the end of the range.
BeginFullChunk ==
  /\ pc = "loop"
  /\ offset < HostCount
  /\ pc' = "scan"
  /\ chunk_end' = offset + ChunkSize
  /\ current' = offset
  /\ UNCHANGED <<options, pass, offset, results, disk, produced>>

BeginChunk ==
  /\ pc = "loop"
  /\ offset < HostCount
  /\ pc' = "scan"
  /\ chunk_end' = Minimum(offset + ChunkSize, HostCount)
  /\ current' = offset
  /\ UNCHANGED <<options, pass, offset, results, disk, produced>>

\* One host: nothing (filtered by the liveness strategy, or no open port), or an
\* entry for each of its web URLs (one entry if it has none), whether or not the
\* web scan succeeds.
ScanHost ==
  /\ pc = "scan"
  /\ current < chunk_end
  /\ \E n \in 0 .. MaxEntries :
       /\ results' = results \o [i \in 1 .. n |-> [host |-> current, pass |-> pass,
                                                  scope |-> options.scope]]
       /\ produced' = produced \cup {<<current, pass, options.scope, n>>}
  /\ current' = current + 1
  /\ UNCHANGED <<pc, options, pass, offset, chunk_end, disk>>

\* The chunk is over; without --checkpoint the loop goes on at once.
EndChunk ==
  /\ pc = "scan"
  /\ current = chunk_end
  /\ offset' = chunk_end
  /\ pc' = IF options.checkpoint THEN "write" ELSE "loop"
  /\ UNCHANGED <<options, pass, chunk_end, current, results, disk, produced>>

\* Faulty variant: the checkpoint itself is opened for writing.
CreateInPlace ==
  /\ pc = "write"
  /\ checkpoint' = Torn
  /\ pc' = "fill"
  /\ UNCHANGED <<pass, memory, temporary, produced>>

\* write_network_checkpoint: the temporary file is created, then filled ...
CreateTemporary ==
  /\ pc = "write"
  /\ temporary' = Torn
  /\ pc' = "fill"
  /\ UNCHANGED <<pass, memory, checkpoint, produced>>

FillTemporary ==
  /\ pc = "fill"
  /\ temporary' = [scope |-> options.scope, next_offset |-> offset, results |-> results]
  /\ pc' = "rename"
  /\ UNCHANGED <<pass, memory, checkpoint, produced>>

\* ... and renamed over the checkpoint.
RenameTemporary ==
  /\ pc = "rename"
  /\ checkpoint' = temporary
  /\ temporary' = NoFile
  /\ pc' = "loop"
  /\ UNCHANGED <<pass, memory, produced>>

\* Any of these steps fails: the scan ends with an error and no report.
FailWrite ==
  /\ pc \in {"write", "fill", "rename"}
  /\ Forget
  /\ UNCHANGED <<pass, disk, produced>>

\* All hosts are done: the results are aggregated, and compared with the baseline.
Finish ==
  /\ pc = "loop"
  /\ offset >= HostCount
  /\ pc' = "done"
  /\ UNCHANGED <<pass, memory, disk, produced>>

\* The report given by --baseline is read after the last host only; an error loses
\* the new report.
FailBaseline ==
  /\ pc = "loop"
  /\ offset >= HostCount
  /\ Forget
  /\ UNCHANGED <<pass, disk, produced>>

Crash ==
  /\ pc \notin {"idle", "done"}
  /\ Forget
  /\ UNCHANGED <<pass, disk, produced>>

-----------------------------------------------------------------------------
Step ==
  \/ BeginChunk
  \/ ScanHost
  \/ EndChunk
  \/ CreateTemporary
  \/ FillTemporary
  \/ RenameTemporary
  \/ FailWrite
  \/ Finish
  \/ FailBaseline

Next ==
  \/ \E o \in Options : Start(o) \/ Refuse(o)
  \/ Step
  \/ Crash

Spec == Init /\ [][Next]_vars

\* A running invocation keeps running.
FairSpec == Spec /\ WF_vars(Step)

-----------------------------------------------------------------------------
\* Type invariant; no offset leaves the range, whatever chunk size was given and
\* whichever checkpoint was resumed.
TypeOK ==
  /\ pc \in {"idle", "loop", "scan", "write", "fill", "rename", "done"}
  /\ options \in Options \cup {NoOptions}
  /\ pass \in 0 .. MaxPasses
  /\ offset \in 0 .. HostCount
  /\ chunk_end \in 0 .. HostCount
  /\ current \in 0 .. HostCount
  /\ results \in Seq(Entries)
  /\ checkpoint \in Checkpoints \cup {NoFile, Torn}
  /\ temporary \in Checkpoints \cup {NoFile, Torn}
  /\ produced \subseteq Hosts \X (1 .. MaxPasses) \X Scopes \X (0 .. MaxEntries)

\* The entries of host h in s are those from k + 1 to k + n, and pass p produced them.
Block(s, h, scope, p, n, k) ==
  /\ k + n <= Len(s)
  /\ \A i \in 1 .. Len(s) :
       IF i \in k + 1 .. k + n THEN s[i] = [host |-> h, pass |-> p, scope |-> scope]
       ELSE s[i].host # h

\* s holds, for every host below bound, exactly the entries that one scan of this
\* host within the scope produced, and nothing of any other host.
Exact(s, bound, scope) ==
  /\ \A i \in 1 .. Len(s) : s[i].host < bound
  /\ \A h \in 0 .. bound - 1 :
       \E p \in 1 .. pass, n \in 0 .. MaxEntries :
         /\ <<h, p, scope, n>> \in produced
         /\ \E k \in 0 .. Len(s) : Block(s, h, scope, p, n, k)

\* The hosts dealt with so far by the running invocation and those it resumed.
Reached == IF pc = "scan" THEN current ELSE offset

\* Through crashes, resumes with another chunk size, failed writes and restarts,
\* the results in memory (and so the report) have every host of the range so far
\* exactly once: no chunk is lost, none is counted twice, no other scope leaks in.
ResultsExact == pc # "idle" => Exact(results, Reached, options.scope)

\* The checkpoint file is never torn, and the results it retains are exactly
\* those of the hosts before its offset.
CheckpointExact ==
  checkpoint # NoFile =>
    /\ checkpoint # Torn
    /\ Exact(checkpoint.results, checkpoint.next_offset, checkpoint.scope)

\* The progress on disk goes back only when the user starts over, without
\* --resume or for another scope.
NoLostProgress ==
  [][(checkpoint # NoFile /\ options # NoOptions) =>
       (options.resume => checkpoint'.next_offset >= checkpoint.next_offset)]_checkpoint

\* An invocation that resumes does not scan again a host whose results it took
\* from the checkpoint (TASK.md: a large scan continues without starting from
\* zero).
NoRescan ==
  pc # "idle" =>
    \A i \in 1 .. Len(results), n \in 0 .. MaxEntries :
      results[i].pass # pass => <<results[i].host, pass, options.scope, n>> \notin produced

\* Every invocation ends, whatever chunk size was given.
ScanEnds == pc = "loop" ~> pc \in {"idle", "done"}

=============================================================================
