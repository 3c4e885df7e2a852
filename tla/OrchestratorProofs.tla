------------------------- MODULE OrchestratorProofs --------------------------
(***************************************************************************)
(* Theorems about NetworkScan, for any number of hosts, any chunk sizes,    *)
(* scopes and options, and any number of invocations.                       *)
(*                                                                         *)
(* Theorem about ScanPipeline: for any list of targets, whatever its stages *)
(* find, whichever fail and whenever callbacks arrive, every target that    *)
(* can be scanned has its exact report, and the aggregate is the reports.   *)
(***************************************************************************)
EXTENDS NetworkScan, ScanPipeline, SequenceTheorems, FiniteSetTheorems, TLAPS

\* The network scan and its checkpoints.

-----------------------------------------------------------------------------
(* Sequences of entries.                                                    *)

\* Exact with what it reads of the state as parameters.
Covers(s, bound, scope, last, made) ==
  /\ \A i \in 1 .. Len(s) : s[i].host < bound
  /\ \A h \in 0 .. bound - 1 :
       \E p \in 1 .. last, n \in 0 .. MaxEntries :
         /\ <<h, p, scope, n>> \in made
         /\ \E k \in 0 .. Len(s) : Block(s, h, scope, p, n, k)

LEMMA ExactCovers ==
  ASSUME NEW s, NEW bound, NEW scope
  PROVE  Exact(s, bound, scope) = Covers(s, bound, scope, pass, produced)
BY DEF Exact, Covers

\* What is covered stays covered when more scans are on record.
LEMMA CoversMore ==
  ASSUME NEW s, NEW bound, NEW scope, NEW last \in Nat, NEW more \in Nat, last <= more,
         NEW made, NEW all, made \subseteq all,
         Covers(s, bound, scope, last, made)
  PROVE  Covers(s, bound, scope, more, all)
PROOF
  <1>1. 1 .. last \subseteq 1 .. more
    OBVIOUS
  <1> QED
    BY <1>1 DEF Covers

\* The sequence of n entries of one host.
LEMMA Repeated ==
  ASSUME NEW S, NEW e \in S, NEW n \in Nat
  PROVE  /\ [i \in 1 .. n |-> e] \in Seq(S)
         /\ Len([i \in 1 .. n |-> e]) = n
PROOF
  <1>1. [i \in 1 .. n |-> e] \in [1 .. n -> S]
    OBVIOUS
  <1>2. [i \in 1 .. n |-> e] \in Seq(S)
    BY <1>1, SeqDef
  <1>3. DOMAIN [i \in 1 .. n |-> e] = 1 .. Len([i \in 1 .. n |-> e])
    BY <1>2, LenProperties
  <1>4. Len([i \in 1 .. n |-> e]) \in Nat
    BY <1>2, LenProperties
  <1> QED
    BY <1>2, <1>3, <1>4

\* No host is below the first one.
LEMMA CoversNothing ==
  ASSUME NEW scope, NEW last \in Nat, NEW made
  PROVE  Covers(<<>>, 0, scope, last, made)
BY DEF Covers

\* The entries of the next host are appended.
LEMMA CoversNext ==
  ASSUME NEW s \in Seq(Entries), NEW bound \in Hosts, NEW scope \in Scopes,
         NEW last \in 1 .. MaxPasses, NEW made, NEW n \in 0 .. MaxEntries,
         Covers(s, bound, scope, last, made)
  PROVE  Covers(s \o [i \in 1 .. n |-> [host |-> bound, pass |-> last, scope |-> scope]],
                bound + 1, scope, last, made \cup {<<bound, last, scope, n>>})
PROOF
  <1> DEFINE e == [host |-> bound, pass |-> last, scope |-> scope]
             t == [i \in 1 .. n |-> e]
             all == made \cup {<<bound, last, scope, n>>}
  <1>1. /\ bound \in Nat /\ n \in Nat /\ last \in Nat /\ MaxEntries \in Nat
        /\ e \in Entries
    BY NetworkAssumption DEF Hosts, Entries
  <1>2. /\ t \in Seq(Entries) /\ Len(t) = n
        /\ \A i \in 1 .. n : t[i] = e
    BY <1>1, Repeated
  <1>3. /\ Len(s) \in Nat
        /\ Len(s \o t) = Len(s) + n
        /\ \A i \in 1 .. Len(s) : (s \o t)[i] = s[i]
        /\ \A i \in Len(s) + 1 .. Len(s) + n : (s \o t)[i] = e
    <2> HIDE DEF t, e
    <2>1. Len(s) \in Nat
      BY LenProperties
    <2>2. /\ Len(s \o t) = Len(s) + n
          /\ \A i \in 1 .. Len(s) + n :
               (s \o t)[i] = IF i <= Len(s) THEN s[i] ELSE t[i - Len(s)]
      BY <1>2, ConcatProperties
    <2> QED
      BY <1>1, <1>2, <2>1, <2>2
  <1>4. \A i \in 1 .. Len(s) : s[i].host \in Nat /\ s[i].host < bound
    <2>1. ASSUME NEW i \in 1 .. Len(s)
          PROVE  s[i] \in Entries
      BY ElementOfSeq
    <2> QED
      BY <2>1, NetworkAssumption DEF Covers, Entries, Hosts
  <1>5. \A i \in 1 .. Len(s \o t) : (s \o t)[i].host < bound + 1
    <2> HIDE DEF t
    <2> QED
      BY <1>1, <1>3, <1>4
  <1>6. ASSUME NEW h \in 0 .. bound - 1
        PROVE  \E p \in 1 .. last, m \in 0 .. MaxEntries :
                 /\ <<h, p, scope, m>> \in all
                 /\ \E k \in 0 .. Len(s \o t) : Block(s \o t, h, scope, p, m, k)
    <2>1. PICK p \in 1 .. last, m \in 0 .. MaxEntries :
            /\ <<h, p, scope, m>> \in made
            /\ \E k \in 0 .. Len(s) : Block(s, h, scope, p, m, k)
      BY DEF Covers
    <2>2. PICK k \in 0 .. Len(s) : Block(s, h, scope, p, m, k)
      BY <2>1
    <2>3. k \in 0 .. Len(s \o t) /\ k + m <= Len(s \o t)
      <3> HIDE DEF t
      <3> QED
        BY <1>1, <1>3, <2>2 DEF Block
    <2>4. ASSUME NEW i \in 1 .. Len(s \o t)
          PROVE  IF i \in k + 1 .. k + m
                 THEN (s \o t)[i] = [host |-> h, pass |-> p, scope |-> scope]
                 ELSE (s \o t)[i].host # h
      <3>1. CASE i \in 1 .. Len(s)
        BY <1>3, <2>2, <3>1 DEF Block
      <3>2. CASE i \in Len(s) + 1 .. Len(s) + n
        <4> HIDE DEF t
        <4>1. i \notin k + 1 .. k + m
          BY <1>1, <1>3, <2>2, <3>2 DEF Block
        <4> QED
          BY <1>1, <1>3, <3>2, <4>1
      <3> QED
        <4> HIDE DEF t
        <4> QED
          BY <1>1, <1>3, <3>1, <3>2
    <2>5. Block(s \o t, h, scope, p, m, k)
      BY <2>3, <2>4 DEF Block
    <2> QED
      BY <2>1, <2>3, <2>5
  <1>7. Block(s \o t, bound, scope, last, n, Len(s))
    <2> HIDE DEF t
    <2>1. Len(s) + n <= Len(s \o t)
      BY <1>1, <1>3
    <2>2. ASSUME NEW i \in 1 .. Len(s \o t)
          PROVE  IF i \in Len(s) + 1 .. Len(s) + n THEN (s \o t)[i] = e
                 ELSE (s \o t)[i].host # bound
      BY <1>1, <1>3, <1>4
    <2> QED
      BY <2>1, <2>2 DEF Block
  <1>8. \E p \in 1 .. last, m \in 0 .. MaxEntries :
          /\ <<bound, p, scope, m>> \in all
          /\ \E k \in 0 .. Len(s \o t) : Block(s \o t, bound, scope, p, m, k)
    <2> HIDE DEF t
    <2>1. last \in 1 .. last /\ Len(s) \in 0 .. Len(s \o t)
      BY <1>1, <1>3
    <2> QED
      BY <1>7, <2>1
  <1>9. \A h \in 0 .. (bound + 1) - 1 : h \in 0 .. bound - 1 \/ h = bound
    BY <1>1
  <1>10. Covers(s \o t, bound + 1, scope, last, all)
    <2> HIDE DEF t, all
    <2> QED
      BY <1>5, <1>6, <1>8, <1>9 DEF Covers
  <1> QED
    BY <1>10

-----------------------------------------------------------------------------
(* The inductive invariant.                                                 *)

\* A running invocation has options and a number, and has not left its chunk.
PhaseInv ==
  /\ pc # "idle" => options \in Options /\ pass >= 1
  /\ pc = "scan" => offset <= current /\ current <= chunk_end

\* No scan is on record of an invocation that has not begun.
ProducedInv == \A r \in produced : r[2] <= pass

\* What the rename publishes is what the invocation knows.
TemporaryInv ==
  pc = "rename" =>
    temporary = [scope |-> options.scope, next_offset |-> offset, results |-> results]

\* An invocation that resumed is not behind the file it resumed from.
ProgressInv ==
  pc # "idle" /\ options.resume =>
    checkpoint \in Checkpoints /\ checkpoint.next_offset <= offset

IInv ==
  /\ TypeOK
  /\ PhaseInv
  /\ ProducedInv
  /\ TemporaryInv
  /\ ResultsExact
  /\ CheckpointExact
  /\ NoRescan
  /\ ProgressInv

\* The initial states satisfy the invariant.
LEMMA InitIInv == Init => IInv
PROOF
  <1> SUFFICES ASSUME Init PROVE IInv
    OBVIOUS
  <1>1. TypeOK
    BY NetworkAssumption, EmptySeq DEF Init, TypeOK
  <1> QED
    BY <1>1 DEF Init, IInv, PhaseInv, ProducedInv, TemporaryInv, ResultsExact,
      CheckpointExact, NoRescan, ProgressInv

-----------------------------------------------------------------------------
(* The steps.                                                               *)

\* A checkpoint that can be resumed is a whole one of the given scope.
LEMMA ResumableCheckpoint ==
  ASSUME TypeOK, NEW o \in Options, CanResume(o)
  PROVE  /\ checkpoint \in Checkpoints
         /\ checkpoint.next_offset \in 0 .. HostCount
         /\ checkpoint.results \in Seq(Entries)
         /\ checkpoint.scope = o.scope
PROOF
  <1>1. checkpoint \in Checkpoints /\ checkpoint.scope = o.scope
    BY DEF TypeOK, CanResume
  <1> QED
    BY <1>1 DEF Checkpoints

\* Every step preserves the types and the bounds of the running invocation.
LEMMA TypeNext == TypeOK /\ PhaseInv /\ [Next]_vars => TypeOK' /\ PhaseInv'
PROOF
  <1> SUFFICES ASSUME TypeOK, PhaseInv, [Next]_vars PROVE TypeOK' /\ PhaseInv'
    OBVIOUS
  <1> USE DEF TypeOK, PhaseInv, memory, disk
  <1>0. HostCount \in Nat /\ MaxEntries \in Nat /\ MaxPasses \in Nat
    BY NetworkAssumption
  <1>1. ASSUME NEW o \in Options, Start(o) PROVE TypeOK' /\ PhaseInv'
    <2>1. /\ offset' \in 0 .. HostCount
          /\ results' \in Seq(Entries)
      <3>1. CASE o.resume
        <4>1. CanResume(o)
          BY <1>1, <3>1 DEF Start
        <4>2. /\ checkpoint.next_offset \in 0 .. HostCount
              /\ checkpoint.results \in Seq(Entries)
          BY <4>1, ResumableCheckpoint
        <4> QED
          BY <1>1, <3>1, <4>2 DEF Start
      <3>2. CASE ~o.resume
        BY <1>0, <1>1, <3>2, EmptySeq DEF Start
      <3> QED
        BY <3>1, <3>2
    <2> QED
      BY <1>0, <1>1, <2>1 DEF Start
  <1>2. ASSUME NEW o \in Options, Refuse(o) PROVE TypeOK' /\ PhaseInv'
    BY <1>0, <1>2, EmptySeq DEF Refuse, Forget
  <1>3. CASE BeginChunk
    <2>1. options.chunk_size \in Nat
      BY <1>3, NetworkAssumption DEF BeginChunk, Options
    <2>2. ChunkSize \in Nat
      BY <2>1 DEF ChunkSize
    <2>3. Minimum(offset + ChunkSize, HostCount) \in offset .. HostCount
      BY <1>0, <1>3, <2>2 DEF BeginChunk, Minimum
    <2> QED
      BY <1>0, <1>3, <2>3 DEF BeginChunk
  <1>4. CASE ScanHost
    <2>1. PICK n \in 0 .. MaxEntries :
            /\ results' = results \o [i \in 1 .. n |-> [host |-> current, pass |-> pass,
                                                       scope |-> options.scope]]
            /\ produced' = produced \cup {<<current, pass, options.scope, n>>}
      BY <1>4 DEF ScanHost
    <2>2. /\ current \in Hosts
          /\ pass \in 1 .. MaxPasses
          /\ options.scope \in Scopes
      BY <1>0, <1>4 DEF ScanHost, Hosts, Options
    <2>3. [host |-> current, pass |-> pass, scope |-> options.scope] \in Entries
      BY <2>2 DEF Entries
    <2>4. [i \in 1 .. n |-> [host |-> current, pass |-> pass, scope |-> options.scope]]
            \in Seq(Entries)
      BY <1>0, <2>3, Repeated
    <2>5. results' \in Seq(Entries)
      BY <2>1, <2>4, ConcatProperties
    <2>6. produced' \subseteq Hosts \X (1 .. MaxPasses) \X Scopes \X (0 .. MaxEntries)
      BY <2>1, <2>2
    <2>7. /\ current' \in 0 .. HostCount
          /\ PhaseInv'
      BY <1>0, <1>4 DEF ScanHost
    <2> QED
      BY <1>4, <2>5, <2>6, <2>7 DEF ScanHost
  <1>5. CASE EndChunk
    BY <1>5 DEF EndChunk
  <1>6. CASE CreateTemporary
    BY <1>6 DEF CreateTemporary
  <1>7. CASE FillTemporary
    <2>1. temporary' \in Checkpoints
      BY <1>7 DEF FillTemporary, Checkpoints, Options
    <2> QED
      BY <1>7, <2>1 DEF FillTemporary
  <1>8. CASE RenameTemporary
    BY <1>8 DEF RenameTemporary
  <1>9. CASE FailWrite \/ FailBaseline \/ Crash
    <2>1. Forget /\ UNCHANGED <<pass, disk, produced>>
      BY <1>9 DEF FailWrite, FailBaseline, Crash
    <2>2. <<>> \in Seq(Entries)
      BY EmptySeq
    <2> QED
      BY <1>0, <2>1, <2>2 DEF Forget
  <1>10. CASE Finish
    BY <1>10 DEF Finish
  <1>11. CASE UNCHANGED vars
    BY <1>11 DEF vars
  <1> QED
    BY <1>1, <1>2, <1>3, <1>4, <1>5, <1>6, <1>7, <1>8, <1>9, <1>10, <1>11 DEF Next, Step

\* Every step preserves what the history and the temporary file say.
LEMMA HistoryNext ==
  TypeOK /\ ProducedInv /\ TemporaryInv /\ [Next]_vars => ProducedInv' /\ TemporaryInv'
PROOF
  <1> SUFFICES ASSUME TypeOK, ProducedInv, TemporaryInv, [Next]_vars
               PROVE  ProducedInv' /\ TemporaryInv'
    OBVIOUS
  <1> USE DEF ProducedInv, TemporaryInv, memory, disk
  <1>0. /\ pass \in Nat
        /\ \A r \in produced : r[2] \in Nat
    BY NetworkAssumption DEF TypeOK
  <1>1. ASSUME NEW o \in Options, Start(o) \/ Refuse(o) PROVE ProducedInv' /\ TemporaryInv'
    BY <1>0, <1>1 DEF Start, Refuse, Forget
  <1>2. CASE ScanHost
    BY <1>0, <1>2 DEF ScanHost
  <1>3. CASE FillTemporary
    BY <1>3 DEF FillTemporary
  <1>4. CASE BeginChunk \/ EndChunk \/ CreateTemporary \/ RenameTemporary
    BY <1>4 DEF BeginChunk, EndChunk, CreateTemporary, RenameTemporary
  <1>5. CASE FailWrite \/ Finish \/ FailBaseline \/ Crash
    BY <1>5 DEF FailWrite, Finish, FailBaseline, Crash, Forget
  <1>6. CASE UNCHANGED vars
    BY <1>6 DEF vars
  <1> QED
    BY <1>1, <1>2, <1>3, <1>4, <1>5, <1>6 DEF Next, Step

\* Every step leaves the results in memory exactly those of the hosts dealt with: a
\* resume takes over the checkpoint's, the scan of a host adds its own.
LEMMA ResultsNext ==
  /\ TypeOK /\ PhaseInv /\ ResultsExact /\ CheckpointExact
  /\ [Next]_vars
  => ResultsExact'
PROOF
  <1> SUFFICES ASSUME TypeOK, PhaseInv, ResultsExact, CheckpointExact, [Next]_vars,
                      pc' # "idle"
               PROVE  Covers(results', Reached', options.scope', pass', produced')
    BY DEF ResultsExact, Exact, Covers
  <1> USE DEF memory, disk
  <1>0. /\ HostCount \in Nat /\ MaxEntries \in Nat /\ MaxPasses \in Nat
        /\ pass \in Nat
    BY NetworkAssumption DEF TypeOK
  <1>a. pc # "idle" => Covers(results, Reached, options.scope, pass, produced)
    BY DEF ResultsExact, Exact, Covers
  <1>1. ASSUME NEW o \in Options, Start(o)
        PROVE  Covers(results', Reached', options.scope', pass', produced')
    <2>1. /\ Reached' = offset'
          /\ options' = o
          /\ pass' = pass + 1
          /\ produced' = produced
      BY <1>1 DEF Start, Reached
    <2>2. CASE o.resume
      <3>1. CanResume(o)
        BY <1>1, <2>2 DEF Start
      <3>2. checkpoint # NoFile /\ checkpoint.scope = o.scope
        BY <3>1 DEF CanResume
      <3>3. Covers(checkpoint.results, checkpoint.next_offset, o.scope, pass, produced)
        BY <3>2 DEF CheckpointExact, Exact, Covers
      <3>4. Covers(checkpoint.results, checkpoint.next_offset, o.scope, pass + 1, produced)
        BY <1>0, <3>3, CoversMore
      <3> QED
        BY <1>1, <2>1, <2>2, <3>4 DEF Start
    <2>3. CASE ~o.resume
      <3>1. Covers(<<>>, 0, o.scope, pass + 1, produced)
        BY <1>0, CoversNothing
      <3> QED
        BY <1>1, <2>1, <2>3, <3>1 DEF Start
    <2> QED
      BY <2>2, <2>3
  <1>2. ASSUME NEW o \in Options, Refuse(o) PROVE FALSE
    BY <1>2 DEF Refuse, Forget
  <1>3. CASE ScanHost
    <2>1. PICK n \in 0 .. MaxEntries :
            /\ results' = results \o [i \in 1 .. n |-> [host |-> current, pass |-> pass,
                                                       scope |-> options.scope]]
            /\ produced' = produced \cup {<<current, pass, options.scope, n>>}
      BY <1>3 DEF ScanHost
    <2>2. /\ current \in Hosts
          /\ pass \in 1 .. MaxPasses
          /\ options.scope \in Scopes
          /\ results \in Seq(Entries)
      BY <1>0, <1>3 DEF ScanHost, Hosts, Options, TypeOK, PhaseInv
    <2>3. Covers(results, current, options.scope, pass, produced)
      BY <1>3, <1>a DEF ScanHost, Reached
    <2>4. Covers(results', current + 1, options.scope, pass, produced')
      BY <2>1, <2>2, <2>3, CoversNext
    <2>5. /\ Reached' = current + 1
          /\ options' = options
          /\ pass' = pass
      BY <1>3 DEF ScanHost, Reached
    <2> QED
      BY <2>4, <2>5
  <1>4. CASE EndChunk
    <2>1. /\ pc # "idle"
          /\ Reached = chunk_end
          /\ Reached' = chunk_end
          /\ UNCHANGED <<results, options, pass, produced>>
      BY <1>4 DEF EndChunk, Reached
    <2> QED
      BY <1>a, <2>1
  <1>5. CASE \/ BeginChunk \/ CreateTemporary \/ FillTemporary \/ RenameTemporary
             \/ Finish \/ UNCHANGED vars
    <2>1. /\ pc # "idle"
          /\ Reached' = Reached
          /\ UNCHANGED <<results, options, pass, produced>>
      BY <1>5 DEF BeginChunk, CreateTemporary, FillTemporary, RenameTemporary, Finish,
        vars, Reached
    <2> QED
      BY <1>a, <2>1
  <1>6. CASE FailWrite \/ FailBaseline \/ Crash
    BY <1>6 DEF FailWrite, FailBaseline, Crash, Forget
  <1> QED
    BY <1>1, <1>2, <1>3, <1>4, <1>5, <1>6 DEF Next, Step

\* The checkpoint is replaced by the rename only, with what the invocation knows.
LEMMA CheckpointNext ==
  /\ TypeOK /\ PhaseInv /\ TemporaryInv /\ ResultsExact /\ CheckpointExact
  /\ [Next]_vars
  => CheckpointExact'
PROOF
  <1> SUFFICES ASSUME TypeOK, PhaseInv, TemporaryInv, ResultsExact, CheckpointExact,
                      [Next]_vars, checkpoint' # NoFile
               PROVE  /\ checkpoint' # Torn
                      /\ Covers(checkpoint.results', checkpoint.next_offset',
                                checkpoint.scope', pass', produced')
    BY DEF CheckpointExact, Exact, Covers
  <1> USE DEF memory, disk
  <1>a. checkpoint # NoFile =>
          /\ checkpoint # Torn
          /\ Covers(checkpoint.results, checkpoint.next_offset, checkpoint.scope,
                    pass, produced)
    BY DEF CheckpointExact, Exact, Covers
  <1>b. pass \in Nat
    BY NetworkAssumption DEF TypeOK
  <1>1. CASE RenameTemporary
    <2>1. /\ checkpoint' = [scope |-> options.scope, next_offset |-> offset,
                            results |-> results]
          /\ UNCHANGED <<pass, produced>>
      BY <1>1 DEF RenameTemporary, TemporaryInv
    <2>2. Covers(results, offset, options.scope, pass, produced)
      BY <1>1 DEF RenameTemporary, ResultsExact, Exact, Covers, Reached
    <2>3. checkpoint' \in Checkpoints
      BY <1>1, <2>1 DEF RenameTemporary, TypeOK, PhaseInv, Options, Checkpoints
    <2> QED
      BY <2>1, <2>2, <2>3, AbsenceAssumption
  <1>2. CASE UNCHANGED checkpoint
    <2>1. /\ pass' \in Nat /\ pass <= pass'
          /\ produced \subseteq produced'
      <3>1. ASSUME NEW o \in Options, Start(o) \/ Refuse(o)
            PROVE  pass' = pass + 1 /\ produced' = produced
        BY <3>1 DEF Start, Refuse
      <3>2. CASE ScanHost
        BY <1>b, <3>2 DEF ScanHost
      <3>3. CASE \/ BeginChunk \/ EndChunk \/ CreateTemporary \/ FillTemporary
                 \/ RenameTemporary \/ Finish \/ UNCHANGED vars
        BY <1>b, <3>3 DEF BeginChunk, EndChunk, CreateTemporary, FillTemporary,
          RenameTemporary, Finish, vars
      <3>4. CASE FailWrite \/ FailBaseline \/ Crash
        BY <1>b, <3>4 DEF FailWrite, FailBaseline, Crash
      <3> QED
        BY <1>b, <3>1, <3>2, <3>3, <3>4 DEF Next, Step
    <2> QED
      BY <1>2, <1>a, <1>b, <2>1, CoversMore
  <1>3. RenameTemporary \/ UNCHANGED checkpoint
    BY DEF Next, Step, Start, Refuse, BeginChunk, ScanHost, EndChunk, CreateTemporary,
      FillTemporary, FailWrite, Finish, FailBaseline, Crash, vars
  <1> QED
    BY <1>1, <1>2, <1>3

\* The scan of the next host records a host that no retained entry is about.
LEMMA NoRescanNext ==
  /\ TypeOK /\ PhaseInv /\ ProducedInv /\ ResultsExact /\ NoRescan
  /\ [Next]_vars
  => NoRescan'
PROOF
  <1> SUFFICES ASSUME TypeOK, PhaseInv, ProducedInv, ResultsExact, NoRescan, [Next]_vars
               PROVE  NoRescan'
    OBVIOUS
  <1> USE DEF memory, disk
  <1>0. /\ pass \in Nat
        /\ \A r \in produced : r[2] \in Nat /\ r[2] <= pass
    BY NetworkAssumption DEF TypeOK, ProducedInv
  <1>1. ASSUME NEW o \in Options, Start(o) PROVE NoRescan'
    BY <1>0, <1>1 DEF Start, NoRescan
  <1>2. ASSUME NEW o \in Options, Refuse(o) PROVE NoRescan'
    BY <1>2 DEF Refuse, Forget, NoRescan
  <1>3. CASE ScanHost
    <2>1. PICK m \in 0 .. MaxEntries :
            /\ results' = results \o [j \in 1 .. m |-> [host |-> current, pass |-> pass,
                                                       scope |-> options.scope]]
            /\ produced' = produced \cup {<<current, pass, options.scope, m>>}
      BY <1>3 DEF ScanHost
    <2> DEFINE e == [host |-> current, pass |-> pass, scope |-> options.scope]
               t == [j \in 1 .. m |-> e]
    <2>2. /\ pass' = pass
          /\ options' = options
          /\ pc # "idle"
      BY <1>3 DEF ScanHost
    <2>3. /\ e \in Entries
          /\ e.pass = pass
      BY <1>0, <1>3, NetworkAssumption
        DEF ScanHost, Hosts, Options, Entries, TypeOK, PhaseInv
    <2>4. /\ results \in Seq(Entries)
          /\ t \in Seq(Entries)
          /\ Len(t) = m
          /\ \A j \in 1 .. m : t[j] = e
      <3>1. m \in Nat
        BY NetworkAssumption
      <3> QED
        BY <2>3, <3>1, Repeated DEF TypeOK
    <2>5. /\ Len(results) \in Nat
          /\ Len(results') = Len(results) + m
          /\ \A j \in 1 .. Len(results) : results'[j] = results[j]
          /\ \A j \in Len(results) + 1 .. Len(results) + m : results'[j] = e
      <3> HIDE DEF t, e
      <3>1. results' = results \o t
        BY <2>1 DEF t, e
      <3>2. Len(results) \in Nat
        BY <2>4, LenProperties
      <3>3. /\ Len(results \o t) = Len(results) + m
            /\ \A j \in 1 .. Len(results) + m :
                 (results \o t)[j] = IF j <= Len(results) THEN results[j]
                                     ELSE t[j - Len(results)]
        BY <2>4, ConcatProperties
      <3>4. m \in Nat
        BY NetworkAssumption
      <3> QED
        BY <2>4, <3>1, <3>2, <3>3, <3>4
    <2>6. \A j \in 1 .. Len(results) : results[j].host \in Nat /\ results[j].host < current
      <3>1. ASSUME NEW j \in 1 .. Len(results) PROVE results[j] \in Entries
        BY <2>4, ElementOfSeq
      <3>2. \A j \in 1 .. Len(results) : results[j].host < current
        BY <1>3 DEF ScanHost, ResultsExact, Exact, Reached
      <3> QED
        BY <3>1, <3>2, NetworkAssumption DEF Entries, Hosts
    <2>7. ASSUME NEW j \in 1 .. Len(results'), NEW n \in 0 .. MaxEntries,
                 results'[j].pass # pass
          PROVE  <<results'[j].host, pass, options.scope, n>> \notin produced'
      <3> HIDE DEF t, e
      <3>1. m \in Nat
        BY NetworkAssumption
      <3>2. j \in 1 .. Len(results)
        BY <2>3, <2>5, <2>7, <3>1
      <3>3. results'[j] = results[j]
        BY <2>5, <3>2
      <3>4. <<results[j].host, pass, options.scope, n>> \notin produced
        BY <2>2, <2>7, <3>2, <3>3 DEF NoRescan
      <3>5. results[j].host # current
        BY <2>6, <3>2
      <3> QED
        BY <2>1, <3>3, <3>4, <3>5
    <2> QED
      BY <2>2, <2>7 DEF NoRescan
  <1>4. CASE \/ BeginChunk \/ EndChunk \/ CreateTemporary \/ FillTemporary
             \/ RenameTemporary \/ Finish \/ UNCHANGED vars
    <2>1. UNCHANGED <<results, options, pass, produced>> /\ (pc' # "idle" => pc # "idle")
      BY <1>4 DEF BeginChunk, EndChunk, CreateTemporary, FillTemporary, RenameTemporary,
        Finish, vars
    <2> QED
      BY <2>1 DEF NoRescan
  <1>5. CASE FailWrite \/ FailBaseline \/ Crash
    BY <1>5 DEF FailWrite, FailBaseline, Crash, Forget, NoRescan
  <1> QED
    BY <1>1, <1>2, <1>3, <1>4, <1>5 DEF Next, Step

\* A resumed invocation only moves forward from the file.
LEMMA ProgressNext ==
  /\ TypeOK /\ PhaseInv /\ TemporaryInv /\ ProgressInv
  /\ [Next]_vars
  => ProgressInv'
PROOF
  <1> SUFFICES ASSUME TypeOK, PhaseInv, TemporaryInv, ProgressInv, [Next]_vars
               PROVE  ProgressInv'
    OBVIOUS
  <1> USE DEF memory, disk, ProgressInv
  <1>0. /\ offset \in Nat /\ current \in Nat /\ chunk_end \in Nat
        /\ checkpoint \in Checkpoints => checkpoint.next_offset \in Nat
    BY NetworkAssumption DEF TypeOK, Checkpoints
  <1>1. ASSUME NEW o \in Options, Start(o) PROVE ProgressInv'
    <2>1. o.resume => checkpoint \in Checkpoints
      BY <1>1, ResumableCheckpoint DEF Start
    <2> QED
      BY <1>0, <1>1, <2>1 DEF Start
  <1>2. ASSUME NEW o \in Options, Refuse(o) PROVE ProgressInv'
    BY <1>2 DEF Refuse, Forget
  <1>3. CASE EndChunk
    BY <1>0, <1>3 DEF EndChunk, PhaseInv
  <1>4. CASE RenameTemporary
    <2>1. checkpoint' = [scope |-> options.scope, next_offset |-> offset, results |-> results]
      BY <1>4 DEF RenameTemporary, TemporaryInv
    <2>2. checkpoint' \in Checkpoints
      BY <1>4, <2>1 DEF RenameTemporary, TypeOK, PhaseInv, Options, Checkpoints
    <2>3. offset' = offset
      BY <1>4 DEF RenameTemporary
    <2> QED
      BY <1>0, <2>1, <2>2, <2>3
  <1>5. CASE \/ BeginChunk \/ ScanHost \/ CreateTemporary \/ FillTemporary
             \/ Finish \/ UNCHANGED vars
    BY <1>5 DEF BeginChunk, ScanHost, CreateTemporary, FillTemporary, Finish, vars
  <1>6. CASE FailWrite \/ FailBaseline \/ Crash
    BY <1>6 DEF FailWrite, FailBaseline, Crash, Forget
  <1> QED
    BY <1>1, <1>2, <1>3, <1>4, <1>5, <1>6 DEF Next, Step

\* The invariant is inductive.
LEMMA StepIInv == IInv /\ [Next]_vars => IInv'
BY TypeNext, HistoryNext, ResultsNext, CheckpointNext, NoRescanNext, ProgressNext DEF IInv

-----------------------------------------------------------------------------
(* The theorems.                                                            *)

\* The inductive invariant holds in every reachable state.
LEMMA InvariantHolds == Spec => []IInv
PROOF
  <1>1. Init => IInv
    BY InitIInv
  <1>2. IInv /\ [Next]_vars => IInv'
    BY StepIInv
  <1> QED
    BY <1>1, <1>2, PTL DEF Spec

\* Whatever chunk sizes, resumes, failures and kills there are, no offset leaves
\* the range of hosts.
THEOREM TypeCorrect == Spec => []TypeOK
BY InvariantHolds, PTL DEF IInv

\* The results of a running or finished invocation have every host so far exactly
\* once, whichever invocations it continues.
THEOREM ResultsAreExact == Spec => []ResultsExact
BY InvariantHolds, PTL DEF IInv

\* The checkpoint file is whole and exact after every step, a kill in the middle of
\* a write included.
THEOREM CheckpointIsExact == Spec => []CheckpointExact
BY InvariantHolds, PTL DEF IInv

\* A resumed invocation scans no host whose results it retained.
THEOREM NothingRescanned == Spec => []NoRescan
BY InvariantHolds, PTL DEF IInv

\* A resumed invocation never moves the checkpoint back.
THEOREM ProgressKept == Spec => NoLostProgress
PROOF
  <1>1. IInv /\ [Next]_vars =>
          [(checkpoint # NoFile /\ options # NoOptions) =>
             (options.resume => checkpoint'.next_offset >= checkpoint.next_offset)]_checkpoint
    <2> SUFFICES ASSUME IInv, [Next]_vars, checkpoint' # checkpoint,
                        checkpoint # NoFile, options # NoOptions, options.resume
                 PROVE  checkpoint'.next_offset >= checkpoint.next_offset
      OBVIOUS
    <2>1. RenameTemporary
      BY DEF Next, Step, Start, Refuse, BeginChunk, ScanHost, EndChunk, CreateTemporary,
        FillTemporary, FailWrite, Finish, FailBaseline, Crash, vars, disk
    <2>2. checkpoint'.next_offset = offset
      BY <2>1 DEF RenameTemporary, IInv, TemporaryInv
    <2>3. checkpoint.next_offset <= offset /\ checkpoint \in Checkpoints
      BY <2>1 DEF RenameTemporary, IInv, ProgressInv
    <2>4. checkpoint.next_offset \in Nat /\ offset \in Nat
      BY <2>3, NetworkAssumption DEF IInv, TypeOK, Checkpoints
    <2> QED
      BY <2>2, <2>3, <2>4
  <1> QED
    BY <1>1, InvariantHolds, PTL DEF Spec, NoLostProgress

-----------------------------------------------------------------------------

\* The pipeline of a scan.

\* The stages of one target in their order, and the stage that settles each result.
StageRank ==
  [ports |-> 1, fingerprint |-> 2, browser |-> 3, api |-> 4, fuzzing |-> 5, stateful |-> 6,
   vulnerability |-> 7, network_rules |-> 8, cve |-> 9, callbacks |-> 10, verification |-> 11]

SettledBy ==
  [discovery |-> 0, session |-> 0, ports |-> 1, browser |-> 3, api |-> 4, fuzzing |-> 5,
   stateful |-> 6, stateful_assets |-> 6, vulnerability |-> 7, network_rules |-> 8, cve |-> 9]

Reported == Findings \cup {CallbackFinding}

IsSeq(s) == s \in Seq(ToSet(s))

PipelineTypes ==
  /\ list \in TargetLists /\ index \in 1 .. Len(list) + 1
  /\ stage \in DOMAIN StageRank \cup {"next", "done", "failed"}
  /\ DOMAIN found = AssetStages \cup FindingStages \cup OtherResults
  /\ IsSeq(reports) /\ IsSeq(database)
  /\ \A i \in DOMAIN reports :
       reports[i].assets \in Seq(AssetKinds) /\ reports[i].findings \in Seq(Reported)
  /\ DOMAIN aggregate = {"assets", "findings", "events", "paths", "vulns", "summaries"}
  /\ aggregate.assets \in Seq(AssetKinds) /\ aggregate.findings \in Seq(Reported)
  /\ aggregate.summaries \in Seq([target : Nat, assets : Nat, vulns : Nat])

\* What a target has by now: its settled outcomes, and nothing else.
Collected ==
  stage \in DOMAIN StageRank =>
    /\ index \in DOMAIN list /\ Target.host # "none"
    /\ \A s \in AssetStages \cup FindingStages :
         found[s] = IF SettledBy[s] < StageRank[stage] THEN Outcome(Target, s) ELSE <<>>
    /\ errors \ {"fingerprint"} =
         {s \in {"discovery"} \cup DOMAIN Following :
            SettledBy[s] < StageRank[stage] /\ Fails(Target, s)}

\* The URLs whose technologies it has.
Looked ==
  stage \in DOMAIN StageRank =>
    LET urls == Fingerprints(Target)
    IN  /\ looked \in Nat
        /\ StageRank[stage] = 1 => looked = 0
        /\ StageRank[stage] = 2 => 1 .. looked + 1 \subseteq DOMAIN urls
        /\ StageRank[stage] > 2 => 1 .. looked = DOMAIN urls
        /\ ("fingerprint" \in errors) <=> \E u \in 1 .. looked : urls[u] = NoResult
        /\ \A u \in 1 .. looked : urls[u] # NoResult =>
             \A x \in urls[u] : <<u, x>> \in found["fingerprint"]
        /\ \A p \in found["fingerprint"] :
             p[1] \in 1 .. looked /\ urls[p[1]] # NoResult /\ p[2] \in urls[p[1]]

\* Its callbacks: all those of the identifier in the part of the database that was
\* loaded, which stays as it is while the database grows.
Heard ==
  stage = "verification" =>
    /\ found["loaded"] \subseteq DOMAIN database
    /\ found["callbacks"] = {e \in found["loaded"] : database[e].id = oast.id}

ReportsOk ==
  /\ \A r \in ToSet(reports) :
       ReportExact(r) /\ r.of \in 1 .. index - 1 /\ list[r.of].host # "none"
  /\ \A i \in DOMAIN reports : \A j \in 1 .. i - 1 : reports[j].of < reports[i].of
  /\ \A n \in 1 .. index - 1 : list[n].host # "none" => \E i \in DOMAIN reports : reports[i].of = n

Merged == Len(aggregate.summaries)

\* The aggregate so far.
Aggregated ==
  /\ Concatenates(aggregate.assets, [i \in 1 .. Merged |-> reports[i].assets])
  /\ Concatenates(aggregate.findings, [i \in 1 .. Merged |-> reports[i].findings])
  /\ aggregate.vulns = Len(aggregate.findings)
  /\ aggregate.events = UNION {{i} \X reports[i].events : i \in 1 .. Merged}
  /\ stage # "done" => \A i \in 1 .. Merged :
       aggregate.summaries[i] = [target |-> reports[i].of, assets |-> Len(reports[i].assets),
                                 vulns |-> Len(reports[i].findings)]

Ending ==
  /\ Merged <= Len(reports)
  /\ Merged # 0 => stage \in {"next", "done"} /\ index = Len(list) + 1
  /\ stage = "failed" => index = Len(list) + 1 /\ reports = <<>>
  /\ stage = "done" => index = Len(list) + 1 /\ reports # <<>> /\ AggregateExact

PipelineInv ==
  PipelineTypes /\ Collected /\ Looked /\ Heard /\ ReportsOk /\ Aggregated /\ Ending

-----------------------------------------------------------------------------
(* Sequences.                                                               *)

LEMMA SeqFacts ==
  ASSUME NEW s, IsSeq(s)
  PROVE  Len(s) \in Nat /\ DOMAIN s = 1 .. Len(s)
  BY LenProperties DEF IsSeq

LEMMA AppendSeq ==
  ASSUME NEW s, IsSeq(s), NEW e
  PROVE  /\ IsSeq(Append(s, e)) /\ Len(Append(s, e)) = Len(s) + 1
         /\ DOMAIN Append(s, e) = 1 .. Len(s) + 1 /\ Len(s) \in Nat
         /\ \A i \in 1 .. Len(s) : Append(s, e)[i] = s[i]
         /\ Append(s, e)[Len(s) + 1] = e
  <1> DEFINE S == ToSet(s) \cup {e}
             t == Append(s, e)
  <1>1. ToSet(s) \subseteq S /\ e \in S
    OBVIOUS
  <1>2. s \in Seq(S)
    BY <1>1, SeqMonotonic DEF IsSeq
  <1> HIDE DEF S
  <1>3. /\ t \in Seq(S) /\ Len(t) = Len(s) + 1 /\ Len(s) \in Nat
        /\ \A i \in 1 .. Len(s) : t[i] = s[i]
        /\ t[Len(s) + 1] = e
    BY <1>1, <1>2, AppendProperties, LenProperties
  <1> HIDE DEF t
  <1>4. DOMAIN t = 1 .. Len(s) + 1 /\ DOMAIN s = 1 .. Len(s)
    BY <1>2, <1>3, LenProperties
  <1>5. t \in [1 .. Len(s) + 1 -> ToSet(t)]
    <2>1. t \in [1 .. Len(s) + 1 -> S]
      BY <1>3, LenProperties
    <2> QED
      BY <2>1 DEF ToSet
  <1>6. IsSeq(t)
    BY <1>3, <1>5, SeqDef DEF IsSeq
  <1> QED
    BY <1>3, <1>4, <1>6 DEF t

LEMMA ConcatElements ==
  ASSUME NEW S, NEW s \in Seq(S), NEW t \in Seq(S)
  PROVE  s \o t \in Seq(S) /\ ToSet(s \o t) = ToSet(s) \cup ToSet(t)
  <1>1. /\ s \o t \in Seq(S) /\ Len(s \o t) = Len(s) + Len(t)
        /\ \A i \in 1 .. Len(s) + Len(t) :
             (s \o t)[i] = IF i <= Len(s) THEN s[i] ELSE t[i - Len(s)]
    BY ConcatProperties
  <1>2. /\ Len(s) \in Nat /\ Len(t) \in Nat
        /\ DOMAIN s = 1 .. Len(s) /\ DOMAIN t = 1 .. Len(t)
        /\ DOMAIN (s \o t) = 1 .. Len(s) + Len(t)
    BY <1>1, LenProperties
  <1> DEFINE u == s \o t
  <1>3. \A i \in DOMAIN s : i \in DOMAIN u /\ u[i] = s[i]
    BY <1>1, <1>2
  <1>4. \A i \in DOMAIN t : Len(s) + i \in DOMAIN u /\ u[Len(s) + i] = t[i]
    <2> TAKE i \in DOMAIN t
    <2>1. i \in 1 .. Len(t) /\ Len(s) + i \in 1 .. Len(s) + Len(t) /\ ~(Len(s) + i <= Len(s))
          /\ Len(s) + i - Len(s) = i
      BY <1>2
    <2> QED
      BY <1>1, <1>2, <2>1
  <1>5. \A i \in DOMAIN u : u[i] \in ToSet(s) \cup ToSet(t)
    <2> TAKE i \in DOMAIN u
    <2>1. CASE i <= Len(s)
      BY <1>1, <1>2, <2>1 DEF ToSet
    <2>2. CASE ~(i <= Len(s))
      <3>1. i - Len(s) \in DOMAIN t /\ u[i] = t[i - Len(s)]
        BY <1>1, <1>2, <2>2
      <3> QED
        BY <3>1 DEF ToSet
    <2> QED
      BY <2>1, <2>2
  <1> HIDE DEF u
  <1>6. ToSet(u) = ToSet(s) \cup ToSet(t)
    BY <1>3, <1>4, <1>5 DEF ToSet
  <1> QED
    BY <1>1, <1>6 DEF u

LEMMA CountFacts ==
  ASSUME NEW S, NEW s \in Seq(S), NEW kind
  PROVE  CountOf(s, kind) \in Nat
  <1>1. IsFiniteSet(1 .. Len(s)) /\ DOMAIN s = 1 .. Len(s)
    BY LenProperties, FS_Interval
  <1> QED
    BY <1>1, FS_Subset, FS_CardinalityType DEF CountOf

\* One more part is one more block of the whole.
LEMMA ConcatenatesMore ==
  ASSUME NEW S, NEW whole \in Seq(S), NEW last \in Seq(S), NEW n \in Nat,
         NEW parts, Len(parts) = n, NEW more, Len(more) = n + 1,
         \A i \in 1 .. n : more[i] = parts[i] /\ parts[i] \in Seq(S),
         more[n + 1] = last,
         Concatenates(whole, parts)
  PROVE  Concatenates(whole \o last, more)
  <1> DEFINE all == whole \o last
  <1>1. /\ Len(all) = Len(whole) + Len(last) /\ Len(whole) \in Nat /\ Len(last) \in Nat
        /\ \A i \in 1 .. Len(all) : all[i] = IF i <= Len(whole) THEN whole[i] ELSE last[i - Len(whole)]
    BY ConcatProperties, LenProperties
  <1>2. PICK ends \in [0 .. n -> 0 .. Len(whole)] :
          /\ ends[0] = 0 /\ ends[n] = Len(whole)
          /\ \A i \in 1 .. n :
               /\ ends[i] = ends[i - 1] + Len(parts[i])
               /\ \A k \in 1 .. Len(parts[i]) : whole[ends[i - 1] + k] = parts[i][k]
    BY DEF Concatenates
  <1> DEFINE ends2 == [i \in 0 .. n + 1 |-> IF i = n + 1 THEN Len(all) ELSE ends[i]]
  <1> HIDE DEF all
  <1>3. ends2 \in [0 .. n + 1 -> 0 .. Len(all)]
    <2> SUFFICES ASSUME NEW i \in 0 .. n + 1 PROVE ends2[i] \in 0 .. Len(all)
      OBVIOUS
    <2>1. CASE i = n + 1
      BY <1>1, <2>1
    <2>2. CASE i # n + 1
      <3>1. i \in 0 .. n
        BY <2>2
      <3> QED
        BY <1>1, <2>2, <3>1
    <2> QED
      BY <2>1, <2>2
  <1>4. ends2[n + 1] = Len(all) /\ \A i \in 0 .. n : ends2[i] = ends[i]
    OBVIOUS
  <1> HIDE DEF ends2
  <1>5. ends2[0] = 0 /\ ends2[n] = Len(whole)
    BY <1>2, <1>4
  <1>6. ASSUME NEW i \in 1 .. n + 1, i = n + 1
        PROVE  /\ ends2[i] = ends2[i - 1] + Len(more[i])
               /\ \A k \in 1 .. Len(more[i]) : all[ends2[i - 1] + k] = more[i][k]
    <2>1. i - 1 = n /\ more[i] = last /\ ends2[i] = Len(all) /\ ends2[i - 1] = Len(whole)
      BY <1>4, <1>5, <1>6
    <2>2. ASSUME NEW k \in 1 .. Len(last) PROVE all[Len(whole) + k] = last[k]
      <3>1. Len(whole) + k \in 1 .. Len(all) /\ ~(Len(whole) + k <= Len(whole))
            /\ Len(whole) + k - Len(whole) = k
        BY <1>1
      <3> QED
        BY <1>1, <3>1
    <2> QED
      BY <1>1, <2>1, <2>2
  <1>7. ASSUME NEW i \in 1 .. n + 1, i # n + 1
        PROVE  /\ ends2[i] = ends2[i - 1] + Len(more[i])
               /\ \A k \in 1 .. Len(more[i]) : all[ends2[i - 1] + k] = more[i][k]
    <2>1. i \in 1 .. n /\ i - 1 \in 0 .. n /\ i \in 0 .. n
      BY <1>7
    <2>2. ends2[i] = ends[i] /\ ends2[i - 1] = ends[i - 1] /\ more[i] = parts[i]
          /\ Len(parts[i]) \in Nat
      BY <1>4, <2>1, LenProperties
    <2>3. ends[i] = ends[i - 1] + Len(parts[i])
          /\ ends[i] \in 0 .. Len(whole) /\ ends[i - 1] \in 0 .. Len(whole)
      BY <1>2, <2>1
    <2>4. ASSUME NEW k \in 1 .. Len(parts[i]) PROVE all[ends[i - 1] + k] = parts[i][k]
      <3>1. ends[i - 1] + k \in 1 .. Len(all) /\ ends[i - 1] + k <= Len(whole)
        <4>1. /\ Len(parts[i]) \in Nat /\ ends[i - 1] \in Nat
              /\ ends[i - 1] + Len(parts[i]) <= Len(whole)
              /\ Len(whole) \in Nat /\ Len(last) \in Nat /\ Len(all) = Len(whole) + Len(last)
          BY <1>1, <2>2, <2>3
        <4>2. k \in Nat /\ 1 <= k /\ k <= Len(parts[i])
          BY <4>1
        <4> DEFINE a == ends[i - 1]
                   b == Len(parts[i])
                   c == Len(whole)
                   e == Len(last)
        <4>3. a \in Nat /\ b \in Nat /\ c \in Nat /\ e \in Nat /\ a + b <= c
              /\ 1 <= k /\ k <= b /\ k \in Nat /\ Len(all) = c + e
          BY <4>1, <4>2
        <4> HIDE DEF a, b, c, e
        <4>4. a + k \in 1 .. c + e /\ a + k <= c
          BY <4>3
        <4> QED
          BY <4>3, <4>4 DEF a, c
      <3>2. all[ends[i - 1] + k] = whole[ends[i - 1] + k]
        BY <1>1, <3>1
      <3>3. \A j \in 1 .. Len(parts[i]) : whole[ends[i - 1] + j] = parts[i][j]
        BY <1>2, <2>1
      <3> QED
        BY <3>2, <3>3
    <2> QED
      BY <2>2, <2>3, <2>4
  <1>8. \E e \in [0 .. Len(more) -> 0 .. Len(all)] :
          /\ e[0] = 0 /\ e[Len(more)] = Len(all)
          /\ \A i \in 1 .. Len(more) :
               /\ e[i] = e[i - 1] + Len(more[i])
               /\ \A k \in 1 .. Len(more[i]) : all[e[i - 1] + k] = more[i][k]
    <2>1. ends2 \in [0 .. Len(more) -> 0 .. Len(all)] /\ ends2[Len(more)] = Len(all)
      BY <1>3, <1>4
    <2>2. \A i \in 1 .. Len(more) :
            /\ ends2[i] = ends2[i - 1] + Len(more[i])
            /\ \A k \in 1 .. Len(more[i]) : all[ends2[i - 1] + k] = more[i][k]
      BY <1>6, <1>7
    <2> QED
      BY <1>5, <2>1, <2>2
  <1>9. Concatenates(all, more)
    BY <1>8 DEF Concatenates
  <1> QED
    BY <1>9 DEF all

LEMMA ConcatenatesNone == \A parts : Len(parts) = 0 => Concatenates(<<>>, parts)
  <1> SUFFICES ASSUME NEW parts, Len(parts) = 0 PROVE Concatenates(<<>>, parts)
    OBVIOUS
  <1> DEFINE ends == [i \in 0 .. 0 |-> 0]
  <1>1. ends \in [0 .. 0 -> 0 .. 0] /\ ends[0] = 0 /\ Len(<<>>) = 0 /\ 1 .. 0 = {}
    OBVIOUS
  <1> HIDE DEF ends
  <1>2. \E e \in [0 .. 0 -> 0 .. 0] : e[0] = 0 /\ e[0] = Len(<<>>) /\ \A i \in 1 .. 0 : FALSE
    BY <1>1
  <1> QED
    BY <1>1, <1>2 DEF Concatenates

-----------------------------------------------------------------------------
(* Targets and their outcomes.                                              *)

LEMMA ListFacts ==
  ASSUME PipelineTypes
  PROVE  /\ Len(list) \in Nat /\ DOMAIN list = 1 .. Len(list) /\ index \in Nat \ {0}
         /\ Len(reports) \in Nat /\ DOMAIN reports = 1 .. Len(reports)
         /\ Len(database) \in Nat /\ DOMAIN database = 1 .. Len(database)
         /\ Merged \in Nat
  BY PipelineAssumption, SeqFacts, LenProperties DEF PipelineTypes, Merged

LEMMA OutcomeTypes ==
  ASSUME PipelineTypes, NEW n \in DOMAIN list
  PROVE  /\ \A s \in AssetStages : Outcome(list[n], s) \in Seq(AssetKinds)
         /\ \A s \in FindingStages : Outcome(list[n], s) \in Seq(Findings)
         /\ list[n].plan["session"] # NoResult
         /\ DOMAIN Fingerprints(list[n]) =
              1 .. 1 + CountOf(Outcome(list[n], "discovery"), "subdomain")
         /\ CountOf(Outcome(list[n], "discovery"), "subdomain") \in Nat
         /\ \A u \in DOMAIN Fingerprints(list[n]) :
              Fingerprints(list[n])[u] = list[n].plan["fingerprint"][u]
  <1>1. /\ \A s \in AssetStages \ {"stateful_assets"} :
             list[n].plan[s] = NoResult \/ list[n].plan[s] \in Seq(AssetKinds)
        /\ list[n].plan["session"] # NoResult
        /\ \A s \in FindingStages : list[n].plan[s] = NoResult \/ list[n].plan[s] \in Seq(Findings)
    BY PipelineAssumption DEF PipelineTypes
  <1>2. <<"flow">> \in Seq(AssetKinds) /\ <<>> \in Seq(AssetKinds) /\ <<>> \in Seq(Findings)
    BY DEF AssetKinds
  <1>3. ASSUME NEW s \in AssetStages PROVE Outcome(list[n], s) \in Seq(AssetKinds)
    <2>1. CASE s = "stateful_assets"
      BY <1>2, <2>1 DEF Outcome
    <2>2. CASE s # "stateful_assets"
      BY <1>1, <1>2, <2>2 DEF Outcome
    <2> QED
      BY <2>1, <2>2
  <1>4. ASSUME NEW s \in FindingStages PROVE Outcome(list[n], s) \in Seq(Findings)
    BY <1>1, <1>2 DEF Outcome, FindingStages
  <1>5. CountOf(Outcome(list[n], "discovery"), "subdomain") \in Nat
    BY <1>3, CountFacts DEF AssetStages
  <1> QED
    BY <1>1, <1>3, <1>4, <1>5 DEF Fingerprints

\* A report stays exact: the database only grows.
LEMMA ReportStays ==
  ASSUME UNCHANGED <<list, oast>>,
         \A e \in DOMAIN database : e \in DOMAIN database' /\ database'[e] = database[e],
         NEW r, ReportExact(r)
  PROVE  ReportExact(r)'
  BY DEF ReportExact

\* A step within a target leaves the reports and the aggregate alone.
LEMMA TargetStep ==
  ASSUME PipelineInv, UNCHANGED <<list, index, oast, reports, aggregate, database>>,
         stage \in DOMAIN StageRank \/ (stage = "next" /\ index <= Len(list)),
         stage' \in DOMAIN StageRank, DOMAIN found' = DOMAIN found,
         Collected', Looked', Heard'
  PROVE  PipelineInv'
  <1>1. PipelineTypes /\ ReportsOk /\ Aggregated /\ Ending
    BY DEF PipelineInv
  <1>2. PipelineTypes'
    BY <1>1 DEF PipelineTypes
  <1>3. ReportsOk'
    <2>1. \A r : ReportExact(r) => ReportExact(r)'
      BY ReportStays
    <2> QED
      BY <1>1, <2>1 DEF ReportsOk
  <1>4. Merged' = Merged /\ Merged = 0 /\ Len(reports) \in Nat
    <2>1. Merged # 0 => stage \in {"next", "done"} /\ index = Len(list) + 1
      BY <1>1 DEF Ending
    <2>2. Merged = 0
      BY <1>1, <2>1, ListFacts DEF StageRank
    <2> QED
      BY <1>1, <2>2, ListFacts DEF Merged
  <1>5. stage \notin {"done", "failed"} /\ stage' \notin {"done", "failed"}
    BY DEF StageRank
  <1>6. Aggregated'
    BY <1>1, <1>4, <1>5 DEF Aggregated
  <1>7. Ending'
    BY <1>4, <1>5 DEF Ending
  <1> QED
    BY <1>2, <1>3, <1>6, <1>7 DEF PipelineInv

LEMMA DiscoverKeeps ==
  ASSUME PipelineInv, Discover
  PROVE  PipelineInv'
  <1>1. PipelineTypes
    BY DEF PipelineInv
  <1>2. index \in DOMAIN list /\ stage' = "ports" /\ looked' = 0 /\ Target.host # "none"
        /\ stage = "next" /\ index <= Len(list)
        /\ UNCHANGED <<list, index, oast, reports, aggregate, database>>
    BY <1>1, ListFacts DEF Discover, unheard
  <1>3. /\ found' = [NothingFound EXCEPT !["discovery"] = Outcome(Target, "discovery"),
                                         !["session"] = Outcome(Target, "session")]
        /\ errors' = IF Fails(Target, "discovery") THEN {"discovery"} ELSE {}
    <2>1. Target.plan["session"] # NoResult
      BY <1>1, <1>2, OutcomeTypes DEF Target
    <2>2. NoResult # <<>>
      BY PipelineAssumption
    <2>3. Target.host = "ip" => Outcome(Target, "discovery") = <<>>
      BY DEF Outcome
    <2>4. Target.host # "ip" =>
            Outcome(Target, "discovery") =
              IF Target.plan["discovery"] = NoResult THEN <<>> ELSE Target.plan["discovery"]
      BY DEF Outcome
    <2>5. Outcome(Target, "session") = Target.plan["session"]
      BY <2>1 DEF Outcome
    <2>6. Fails(Target, "discovery") <=> Target.host # "ip" /\ Target.plan["discovery"] = NoResult
      BY DEF Fails
    <2>7. CASE Target.host = "ip"
      BY <2>2, <2>3, <2>5, <2>6, <2>7 DEF Discover
    <2>8. CASE Target.host # "ip"
      BY <2>4, <2>5, <2>6, <2>8 DEF Discover
    <2> QED
      BY <2>7, <2>8
  <1>4. /\ DOMAIN found' = AssetStages \cup FindingStages \cup OtherResults
        /\ found'["discovery"] = Outcome(Target, "discovery")
        /\ found'["session"] = Outcome(Target, "session")
        /\ found'["fingerprint"] = {}
        /\ \A s \in AssetStages \cup FindingStages :
             s \notin {"discovery", "session"} => found'[s] = <<>>
    BY <1>3 DEF NothingFound, AssetStages, FindingStages, OtherResults
  <1>5. Collected'
    <2>1. index' \in DOMAIN list' /\ Target' = Target /\ Target'.host # "none"
      BY <1>2 DEF Target
    <2>2. StageRank[stage'] = 1
      BY <1>2 DEF StageRank
    <2>3. \A s \in AssetStages \cup FindingStages :
            SettledBy[s] < 1 <=> s \in {"discovery", "session"}
      BY DEF AssetStages, FindingStages, SettledBy
    <2>4. \A s \in AssetStages \cup FindingStages :
            found'[s] = IF SettledBy[s] < StageRank[stage'] THEN Outcome(Target, s) ELSE <<>>
      BY <1>4, <2>2, <2>3
    <2>5. \A s \in {"discovery"} \cup DOMAIN Following : SettledBy[s] < 1 <=> s = "discovery"
      BY DEF Following, SettledBy
    <2>6. errors' \ {"fingerprint"} =
            {s \in {"discovery"} \cup DOMAIN Following :
               SettledBy[s] < StageRank[stage'] /\ Fails(Target, s)}
      BY <1>3, <2>2, <2>5
    <2> QED
      BY <2>1, <2>4, <2>6 DEF Collected
  <1>6. Looked'
    <2>1. 1 .. looked' = {} /\ StageRank[stage'] = 1 /\ looked' = 0
      BY <1>2 DEF StageRank
    <2>2. "fingerprint" \notin errors'
      BY <1>3
    <2> QED
      BY <1>4, <2>1, <2>2 DEF Looked
  <1>7. Heard' /\ stage' \in DOMAIN StageRank
    BY <1>2 DEF Heard, StageRank
  <1> QED
    BY <1>1, <1>2, <1>4, <1>5, <1>6, <1>7, TargetStep DEF PipelineTypes

LEMMA ScanPortsKeeps ==
  ASSUME PipelineInv, ScanPorts
  PROVE  PipelineInv'
  <1>1. PipelineTypes /\ Collected /\ Looked
    BY DEF PipelineInv
  <1>2. /\ stage = "ports" /\ stage' = "fingerprint" /\ looked' = looked /\ errors' = errors
        /\ UNCHANGED <<list, index, oast, reports, aggregate, database>>
        /\ found' = [found EXCEPT !["ports"] = Outcome(Target, "ports")]
    BY DEF ScanPorts, unheard, Outcome
  <1>3. /\ stage \in DOMAIN StageRank /\ stage' \in DOMAIN StageRank
        /\ StageRank[stage] = 1 /\ StageRank[stage'] = 2
    BY <1>2 DEF StageRank
  <1>4. DOMAIN found = AssetStages \cup FindingStages \cup OtherResults
    BY <1>1 DEF PipelineTypes
  <1>5. /\ index \in DOMAIN list /\ Target.host # "none" /\ Target' = Target
        /\ \A s \in AssetStages \cup FindingStages :
             found[s] = IF SettledBy[s] < 1 THEN Outcome(Target, s) ELSE <<>>
        /\ errors \ {"fingerprint"} =
             {s \in {"discovery"} \cup DOMAIN Following : SettledBy[s] < 1 /\ Fails(Target, s)}
    BY <1>1, <1>2, <1>3 DEF Collected, Target
  <1>6. Collected'
    <2>1. \A s \in AssetStages \cup FindingStages : SettledBy[s] < 2 <=> SettledBy[s] < 1 \/ s = "ports"
      BY DEF AssetStages, FindingStages, SettledBy
    <2>2. \A s \in AssetStages \cup FindingStages :
            found'[s] = IF SettledBy[s] < 2 THEN Outcome(Target, s) ELSE <<>>
      BY <1>2, <1>4, <1>5, <2>1
    <2>3. \A s \in {"discovery"} \cup DOMAIN Following : SettledBy[s] < 2 <=> SettledBy[s] < 1
      BY DEF Following, SettledBy
    <2>4. errors' \ {"fingerprint"} =
            {s \in {"discovery"} \cup DOMAIN Following : SettledBy[s] < 2 /\ Fails(Target, s)}
      BY <1>2, <1>5, <2>3
    <2> QED
      BY <1>2, <1>3, <1>5, <2>2, <2>4 DEF Collected
  <1>7. Looked'
    <2>1. looked = 0 /\ 1 .. looked + 1 \subseteq DOMAIN Fingerprints(Target)
      BY <1>1, <1>3, <1>5, OutcomeTypes DEF Looked, Target
    <2>2. found'["fingerprint"] = found["fingerprint"]
      BY <1>2, <1>4
    <2> QED
      BY <1>1, <1>2, <1>3, <1>5, <2>1, <2>2 DEF Looked
  <1>8. Heard'
    BY <1>2 DEF Heard
  <1> QED
    BY <1>2, <1>3, <1>4, <1>6, <1>7, <1>8, TargetStep

LEMMA FingerprintUrlKeeps ==
  ASSUME PipelineInv, FingerprintUrl
  PROVE  PipelineInv'
  <1>1. PipelineTypes /\ Collected /\ Looked
    BY DEF PipelineInv
  <1>2. /\ stage = "fingerprint" /\ looked' = looked + 1
        /\ stage' = (IF looked + 1 = LiveUrls THEN "browser" ELSE stage)
        /\ UNCHANGED <<list, index, oast, reports, aggregate, database>>
    BY DEF FingerprintUrl, unheard
  <1>3. /\ stage \in DOMAIN StageRank /\ stage' \in DOMAIN StageRank
        /\ StageRank[stage] = 2
        /\ StageRank[stage'] = IF looked + 1 = LiveUrls THEN 3 ELSE 2
    BY <1>2 DEF StageRank
  <1>4. DOMAIN found = AssetStages \cup FindingStages \cup OtherResults
    BY <1>1 DEF PipelineTypes
  <1>5. /\ index \in DOMAIN list /\ Target.host # "none" /\ Target' = Target
        /\ \A s \in AssetStages \cup FindingStages :
             found[s] = IF SettledBy[s] < 2 THEN Outcome(Target, s) ELSE <<>>
        /\ errors \ {"fingerprint"} =
             {s \in {"discovery"} \cup DOMAIN Following : SettledBy[s] < 2 /\ Fails(Target, s)}
    BY <1>1, <1>2, <1>3 DEF Collected, Target
  <1> DEFINE urls == Fingerprints(Target)
             outcome == Target.plan["fingerprint"][looked + 1]
  <1>6. /\ looked \in Nat /\ 1 .. looked + 1 \subseteq DOMAIN urls /\ LiveUrls \in Nat
        /\ DOMAIN urls = 1 .. LiveUrls /\ outcome = urls[looked + 1]
        /\ 1 .. looked' = (1 .. looked) \cup {looked + 1}
        /\ looked + 1 # LiveUrls => looked + 1 < LiveUrls
    <2>1. looked \in Nat /\ 1 .. looked + 1 \subseteq DOMAIN urls
      BY <1>1, <1>3 DEF Looked
    <2>2. found["discovery"] = Outcome(Target, "discovery")
      BY <1>5 DEF SettledBy, AssetStages
    <2>3. DOMAIN urls = 1 .. LiveUrls /\ LiveUrls \in Nat
          /\ \A u \in DOMAIN urls : urls[u] = Target.plan["fingerprint"][u]
      BY <1>1, <1>5, <2>2, OutcomeTypes DEF Target, LiveUrls
    <2>4. looked + 1 \in 1 .. looked + 1
      BY <2>1
    <2> QED
      BY <1>2, <2>1, <2>3, <2>4
  <1>7. /\ outcome = NoResult => errors' = errors \cup {"fingerprint"} /\ found' = found
        /\ outcome # NoResult =>
             /\ errors' = errors
             /\ found' = [found EXCEPT !["fingerprint"] = @ \cup {<<looked + 1, t>> : t \in outcome}]
    BY DEF FingerprintUrl
  <1> HIDE DEF urls, outcome
  <1>8. DOMAIN found' = DOMAIN found
        /\ \A s \in AssetStages \cup FindingStages : found'[s] = found[s]
    <2>1. CASE outcome = NoResult
      BY <1>7, <2>1
    <2>2. CASE outcome # NoResult
      <3>1. "fingerprint" \notin AssetStages \cup FindingStages
        BY DEF AssetStages, FindingStages
      <3> QED
        BY <1>4, <1>7, <2>2, <3>1
    <2> QED
      BY <2>1, <2>2
  <1>9. Collected'
    <2>1. \A s \in AssetStages \cup FindingStages : SettledBy[s] < StageRank[stage'] <=> SettledBy[s] < 2
      BY <1>3 DEF AssetStages, FindingStages, SettledBy
    <2>2. \A s \in {"discovery"} \cup DOMAIN Following :
            SettledBy[s] < StageRank[stage'] <=> SettledBy[s] < 2
      BY <1>3 DEF Following, SettledBy
    <2>3. errors' \ {"fingerprint"} = errors \ {"fingerprint"}
      BY <1>7
    <2>4. \A s \in AssetStages \cup FindingStages :
            found'[s] = IF SettledBy[s] < StageRank[stage'] THEN Outcome(Target, s) ELSE <<>>
      BY <1>5, <1>8, <2>1
    <2>5. errors' \ {"fingerprint"} =
            {s \in {"discovery"} \cup DOMAIN Following :
               SettledBy[s] < StageRank[stage'] /\ Fails(Target, s)}
      BY <1>5, <2>2, <2>3
    <2> QED
      BY <1>2, <1>5, <2>4, <2>5 DEF Collected
  <1>10. Looked'
    <2>1. /\ looked' \in Nat
          /\ StageRank[stage'] # 1
          /\ StageRank[stage'] = 2 => 1 .. looked' + 1 \subseteq DOMAIN urls
          /\ StageRank[stage'] > 2 => 1 .. looked' = DOMAIN urls
      BY <1>2, <1>3, <1>6
    <2>2. /\ ("fingerprint" \in errors) <=> \E u \in 1 .. looked : urls[u] = NoResult
          /\ \A u \in 1 .. looked : urls[u] # NoResult =>
               \A x \in urls[u] : <<u, x>> \in found["fingerprint"]
          /\ \A p \in found["fingerprint"] :
               p[1] \in 1 .. looked /\ urls[p[1]] # NoResult /\ p[2] \in urls[p[1]]
      BY <1>1, <1>3 DEF Looked, urls
    <2>3. /\ ("fingerprint" \in errors') <=> \E u \in 1 .. looked' : urls[u] = NoResult
          /\ \A u \in 1 .. looked' : urls[u] # NoResult =>
               \A x \in urls[u] : <<u, x>> \in found'["fingerprint"]
          /\ \A p \in found'["fingerprint"] :
               p[1] \in 1 .. looked' /\ urls[p[1]] # NoResult /\ p[2] \in urls[p[1]]
      <3>1. CASE outcome = NoResult
        BY <1>6, <1>7, <2>2, <3>1
      <3>2. CASE outcome # NoResult
        <4>1. found'["fingerprint"] = found["fingerprint"] \cup {<<looked + 1, t>> : t \in outcome}
              /\ errors' = errors
          BY <1>4, <1>7, <3>2 DEF OtherResults
        <4>2. ("fingerprint" \in errors') <=> \E u \in 1 .. looked' : urls[u] = NoResult
          BY <1>6, <2>2, <3>2, <4>1
        <4>3. \A u \in 1 .. looked' : urls[u] # NoResult =>
                \A x \in urls[u] : <<u, x>> \in found'["fingerprint"]
          BY <1>6, <2>2, <4>1
        <4>4. \A p \in found'["fingerprint"] :
                p[1] \in 1 .. looked' /\ urls[p[1]] # NoResult /\ p[2] \in urls[p[1]]
          <5> TAKE p \in found'["fingerprint"]
          <5>1. CASE p \in found["fingerprint"]
            BY <1>6, <2>2, <5>1
          <5>2. CASE p \in {<<looked + 1, t>> : t \in outcome}
            BY <1>6, <3>2, <5>2
          <5> QED
            BY <4>1, <5>1, <5>2
        <4> QED
          BY <4>2, <4>3, <4>4
      <3> QED
        BY <3>1, <3>2
    <2>4. Fingerprints(Target)' = urls
      BY <1>5 DEF urls
    <2> QED
      BY <2>1, <2>3, <2>4 DEF Looked
  <1>11. Heard'
    BY <1>2, <1>3 DEF Heard
  <1> QED
    BY <1>2, <1>3, <1>8, <1>9, <1>10, <1>11, TargetStep

LEMMA StageOrder ==
  ASSUME NEW st \in DOMAIN Following
  PROVE  /\ st \in DOMAIN StageRank /\ Following[st] \in DOMAIN StageRank
         /\ StageRank[st] > 2 /\ StageRank[st] < 10
         /\ StageRank[Following[st]] = StageRank[st] + 1 /\ StageRank[st] \in Nat
         /\ st # "fingerprint" /\ st \in AssetStages \cup FindingStages
         /\ \A s \in AssetStages \cup FindingStages :
              SettledBy[s] < StageRank[st] + 1 <=>
                SettledBy[s] < StageRank[st] \/ s = st \/ (st = "stateful" /\ s = "stateful_assets")
         /\ ~(SettledBy[st] < StageRank[st])
         /\ \A s \in {"discovery"} \cup DOMAIN Following :
              SettledBy[s] < StageRank[st] + 1 <=> SettledBy[s] < StageRank[st] \/ s = st
         /\ st = "stateful" => ~(SettledBy["stateful_assets"] < StageRank[st])
  BY DEF Following, StageRank, SettledBy, AssetStages, FindingStages

LEMMA CollectKeeps ==
  ASSUME PipelineInv, Collect
  PROVE  PipelineInv'
  <1>1. PipelineTypes /\ Collected /\ Looked
    BY DEF PipelineInv
  <1>2. /\ stage \in DOMAIN Following /\ stage' = Following[stage] /\ looked' = looked
        /\ UNCHANGED <<list, index, oast, reports, aggregate, database>>
        /\ Target.plan[stage] = NoResult => errors' = errors \cup {stage} /\ found' = found
        /\ Target.plan[stage] # NoResult =>
             /\ errors' = errors
             /\ found' = [found EXCEPT
                            ![stage] = Target.plan[stage],
                            !["stateful_assets"] = IF stage = "stateful" THEN <<"flow">> ELSE @]
    BY DEF Collect
  <1> DEFINE rank == StageRank[stage]
  <1>3. /\ stage \in DOMAIN StageRank /\ stage' \in DOMAIN StageRank
        /\ rank > 2 /\ rank < 10 /\ StageRank[stage'] = rank + 1 /\ rank \in Nat
        /\ stage # "fingerprint" /\ stage \in AssetStages \cup FindingStages
        /\ \A s \in AssetStages \cup FindingStages :
             SettledBy[s] < rank + 1 <=>
               SettledBy[s] < rank \/ s = stage \/ (stage = "stateful" /\ s = "stateful_assets")
        /\ ~(SettledBy[stage] < rank)
        /\ \A s \in {"discovery"} \cup DOMAIN Following :
             SettledBy[s] < rank + 1 <=> SettledBy[s] < rank \/ s = stage
        /\ stage = "stateful" => ~(SettledBy["stateful_assets"] < rank)
    BY <1>2, StageOrder
  <1>4. DOMAIN found = AssetStages \cup FindingStages \cup OtherResults
    BY <1>1 DEF PipelineTypes
  <1> HIDE DEF rank
  <1>5. /\ index \in DOMAIN list /\ Target.host # "none" /\ Target' = Target
        /\ \A s \in AssetStages \cup FindingStages :
             found[s] = IF SettledBy[s] < rank THEN Outcome(Target, s) ELSE <<>>
        /\ errors \ {"fingerprint"} =
             {s \in {"discovery"} \cup DOMAIN Following : SettledBy[s] < rank /\ Fails(Target, s)}
    BY <1>1, <1>2, <1>3 DEF Collected, Target, rank
  <1>6. /\ stage \notin {"discovery", "stateful_assets", "session"}
        /\ Outcome(Target, stage) = IF Target.plan[stage] = NoResult THEN <<>> ELSE Target.plan[stage]
        /\ Fails(Target, stage) <=> Target.plan[stage] = NoResult
        /\ "stateful_assets" \in AssetStages
        /\ stage = "stateful" =>
             Outcome(Target, "stateful_assets") =
               IF Target.plan[stage] = NoResult THEN <<>> ELSE <<"flow">>
    BY <1>2 DEF Following, Outcome, Fails, AssetStages
  <1>7. DOMAIN found' = DOMAIN found /\ found'["fingerprint"] = found["fingerprint"]
        /\ \A s \in AssetStages \cup FindingStages :
             found'[s] = IF SettledBy[s] < rank + 1 THEN Outcome(Target, s) ELSE <<>>
    <2>1. CASE Target.plan[stage] = NoResult
      <3>1. \A s \in AssetStages \cup FindingStages :
              found[s] = IF SettledBy[s] < rank + 1 THEN Outcome(Target, s) ELSE <<>>
        <4> TAKE s \in AssetStages \cup FindingStages
        <4>1. CASE s = stage
          BY <1>3, <1>5, <1>6, <2>1, <4>1
        <4>2. CASE stage = "stateful" /\ s = "stateful_assets"
          BY <1>3, <1>5, <1>6, <2>1, <4>2
        <4>3. CASE s # stage /\ ~(stage = "stateful" /\ s = "stateful_assets")
          BY <1>3, <1>5, <4>3
        <4> QED
          BY <4>1, <4>2, <4>3
      <3> QED
        BY <1>2, <2>1, <3>1
    <2>2. CASE Target.plan[stage] # NoResult
      <3>1. /\ DOMAIN found' = DOMAIN found
            /\ found'[stage] = Target.plan[stage]
            /\ found'["stateful_assets"] = IF stage = "stateful" THEN <<"flow">>
                                           ELSE found["stateful_assets"]
            /\ \A s \in DOMAIN found : s \notin {stage, "stateful_assets"} => found'[s] = found[s]
        BY <1>2, <1>3, <1>4, <1>6, <2>2
      <3>2. ASSUME NEW s \in AssetStages \cup FindingStages
            PROVE  found'[s] = IF SettledBy[s] < rank + 1 THEN Outcome(Target, s) ELSE <<>>
        <4>1. CASE s = stage
          BY <1>3, <1>6, <2>2, <3>1, <4>1
        <4>2. CASE s = "stateful_assets" /\ stage = "stateful"
          BY <1>3, <1>6, <2>2, <3>1, <4>2
        <4>3. CASE s = "stateful_assets" /\ stage # "stateful"
          BY <1>3, <1>5, <1>6, <3>1, <4>3
        <4>4. CASE s \notin {stage, "stateful_assets"}
          BY <1>3, <1>4, <1>5, <3>1, <4>4
        <4> QED
          BY <4>1, <4>2, <4>3, <4>4
      <3>3. found'["fingerprint"] = found["fingerprint"]
        BY <1>3, <1>4, <3>1 DEF OtherResults
      <3> QED
        BY <3>1, <3>2, <3>3
    <2> QED
      BY <2>1, <2>2
  <1>8. /\ errors' \ {"fingerprint"} =
             {s \in {"discovery"} \cup DOMAIN Following : SettledBy[s] < rank + 1 /\ Fails(Target, s)}
        /\ ("fingerprint" \in errors') <=> ("fingerprint" \in errors)
    <2>1. CASE Target.plan[stage] = NoResult
      <3>1. errors' = errors \cup {stage} /\ Fails(Target, stage)
        BY <1>2, <1>6, <2>1
      <3>2. \A s \in {"discovery"} \cup DOMAIN Following :
              SettledBy[s] < rank + 1 /\ Fails(Target, s) <=>
                (SettledBy[s] < rank /\ Fails(Target, s)) \/ s = stage
        BY <1>3, <3>1
      <3>3. errors' \ {"fingerprint"} = (errors \ {"fingerprint"}) \cup {stage}
        BY <1>3, <3>1
      <3>4. stage \in {"discovery"} \cup DOMAIN Following
        BY <1>2
      <3>5. ("fingerprint" \in errors') <=> ("fingerprint" \in errors)
        BY <1>3, <3>1
      <3> QED
        BY <1>5, <3>2, <3>3, <3>4, <3>5
    <2>2. CASE Target.plan[stage] # NoResult
      <3>1. errors' = errors /\ ~Fails(Target, stage)
        BY <1>2, <1>6, <2>2
      <3> QED
        BY <1>3, <1>5, <3>1
    <2> QED
      BY <2>1, <2>2
  <1>9. Collected'
    BY <1>2, <1>3, <1>5, <1>7, <1>8 DEF Collected
  <1>10. Looked'
    BY <1>1, <1>2, <1>3, <1>5, <1>7, <1>8 DEF Looked, rank
  <1>11. Heard'
    <2>1. stage' # "verification"
      BY <1>2 DEF Following
    <2> QED
      BY <2>1 DEF Heard
  <1> QED
    BY <1>2, <1>3, <1>7, <1>9, <1>10, <1>11, TargetStep

LEMMA LoadCallbacksKeeps ==
  ASSUME PipelineInv, NEW readable, LoadCallbacks(readable)
  PROVE  PipelineInv'
  <1>1. PipelineTypes /\ Collected /\ Looked
    BY DEF PipelineInv
  <1> DEFINE loads == oast.id # NoId /\ readable
  <1>2. /\ stage = "callbacks" /\ stage' = "verification" /\ looked' = looked /\ errors' = errors
        /\ UNCHANGED <<list, index, oast, reports, aggregate, database>>
    BY DEF LoadCallbacks, unheard
  <1> HIDE DEF loads
  <1>3. /\ stage \in DOMAIN StageRank /\ stage' \in DOMAIN StageRank
        /\ StageRank[stage] = 10 /\ StageRank[stage'] = 11
    BY <1>2 DEF StageRank
  <1>4. DOMAIN found = AssetStages \cup FindingStages \cup OtherResults
    BY <1>1 DEF PipelineTypes
  <1>5. /\ DOMAIN found' = DOMAIN found /\ found'["fingerprint"] = found["fingerprint"]
        /\ \A s \in AssetStages \cup FindingStages : found'[s] = found[s]
        /\ found'["callbacks"] = IF loads THEN Matching ELSE {}
        /\ found'["loaded"] = IF loads THEN DOMAIN database ELSE {}
    <2>1. {"callbacks", "loaded"} \cap (AssetStages \cup FindingStages) = {}
      BY DEF AssetStages, FindingStages
    <2>2. found' = [found EXCEPT !["callbacks"] = IF loads THEN Matching ELSE {},
                                 !["loaded"] = IF loads THEN DOMAIN database ELSE {}]
      BY DEF LoadCallbacks, loads
    <2> QED
      BY <1>4, <2>1, <2>2 DEF OtherResults
  <1>6. Collected'
    <2>1. \A s \in AssetStages \cup FindingStages : SettledBy[s] < 10 /\ SettledBy[s] < 11
      BY DEF AssetStages, FindingStages, SettledBy
    <2>2. \A s \in {"discovery"} \cup DOMAIN Following : SettledBy[s] < 10 /\ SettledBy[s] < 11
      BY DEF Following, SettledBy
    <2> QED
      BY <1>1, <1>2, <1>3, <1>5, <2>1, <2>2 DEF Collected, Target
  <1>7. Looked'
    BY <1>1, <1>2, <1>3, <1>5 DEF Looked, Target
  <1>8. Heard'
    <2>1. CASE loads
      BY <1>2, <1>5, <2>1 DEF Heard, Matching
    <2>2. CASE ~loads
      BY <1>2, <1>5, <2>2 DEF Heard
    <2> QED
      BY <2>1, <2>2
  <1> QED
    BY <1>2, <1>3, <1>5, <1>6, <1>7, <1>8, TargetStep

\* The collaborator: the database grows, the scan does not move.
LEMMA DatabaseGrows ==
  ASSUME PipelineInv, UNCHANGED scan, IsSeq(database'),
         \A e \in DOMAIN database : e \in DOMAIN database' /\ database'[e] = database[e]
  PROVE  PipelineInv'
  <1>1. PipelineTypes /\ Collected /\ Looked /\ Heard /\ ReportsOk /\ Aggregated /\ Ending
    BY DEF PipelineInv
  <1>2. UNCHANGED <<list, index, oast, stage, looked, found, errors, reports, aggregate>>
    BY DEF scan
  <1>3. PipelineTypes'
    BY <1>1, <1>2 DEF PipelineTypes
  <1>4. Collected' /\ Looked'
    BY <1>1, <1>2 DEF Collected, Looked, Target
  <1>5. Heard'
    BY <1>1, <1>2 DEF Heard
  <1>6. ReportsOk'
    <2>1. \A r : ReportExact(r) => ReportExact(r)'
      BY <1>2, ReportStays
    <2> QED
      BY <1>1, <1>2, <2>1 DEF ReportsOk
  <1>7. Aggregated'
    <2>1. Merged' = Merged
      BY <1>2 DEF Merged
    <2> QED
      BY <1>1, <1>2, <2>1 DEF Aggregated
  <1>8. Ending'
    BY <1>1, <1>2 DEF Ending, Merged, AggregateExact
  <1> QED
    BY <1>3, <1>4, <1>5, <1>6, <1>7, <1>8 DEF PipelineInv

LEMMA CollaboratorKeeps ==
  ASSUME PipelineInv, NEW callback, Arrive(callback) \/ LoseCallback(callback) \/ UNCHANGED pipelineVars
  PROVE  PipelineInv'
  <1>1. IsSeq(database)
    BY DEF PipelineInv, PipelineTypes
  <1>2. CASE Arrive(callback)
    <2> DEFINE event == [id |-> Correlation(callback[2]), from |-> callback[1]]
    <2>1. database' = Append(database, event) /\ UNCHANGED scan
      BY <1>2 DEF Arrive
    <2> HIDE DEF event
    <2>2. /\ IsSeq(database')
          /\ \A e \in DOMAIN database : e \in DOMAIN database' /\ database'[e] = database[e]
      <3>1. DOMAIN database = 1 .. Len(database) /\ Len(database) \in Nat
        BY <1>1, SeqFacts
      <3>2. /\ IsSeq(Append(database, event)) /\ DOMAIN Append(database, event) = 1 .. Len(database) + 1
            /\ \A i \in 1 .. Len(database) : Append(database, event)[i] = database[i]
        BY <1>1, AppendSeq
      <3> QED
        BY <2>1, <3>1, <3>2
    <2> QED
      BY <2>1, <2>2, DatabaseGrows
  <1>3. CASE LoseCallback(callback)
    <2>1. UNCHANGED <<scan, database>>
      BY <1>3 DEF LoseCallback
    <2> QED
      BY <1>1, <2>1, DatabaseGrows DEF IsSeq
  <1>4. CASE UNCHANGED pipelineVars
    <2>1. UNCHANGED <<scan, database>>
      BY <1>4 DEF pipelineVars, unheard
    <2> QED
      BY <1>1, <2>1, DatabaseGrows DEF IsSeq
  <1> QED
    BY <1>2, <1>3, <1>4

LEMMA SkipTargetKeeps ==
  ASSUME PipelineInv, SkipTarget
  PROVE  PipelineInv'
  <1>1. PipelineTypes /\ ReportsOk /\ Aggregated /\ Ending
    BY DEF PipelineInv
  <1>2. /\ stage = "next" /\ index <= Len(list) /\ list[index].host = "none" /\ index' = index + 1
        /\ UNCHANGED <<list, oast, stage, looked, found, errors, reports, aggregate, database>>
    BY DEF SkipTarget, Target, unheard
  <1>3. /\ Len(list) \in Nat /\ index \in Nat \ {0} /\ Merged \in Nat /\ Len(reports) \in Nat
        /\ 1 .. index' - 1 = (1 .. index - 1) \cup {index} /\ index' \in 1 .. Len(list) + 1
        /\ index # Len(list) + 1
    BY <1>1, <1>2, ListFacts
  <1>4. PipelineTypes'
    BY <1>1, <1>2, <1>3 DEF PipelineTypes
  <1>5. Collected' /\ Looked' /\ Heard'
    BY <1>2 DEF Collected, Looked, Heard, StageRank
  <1>6. ReportsOk'
    <2>1. \A r : ReportExact(r) => ReportExact(r)'
      BY <1>2, ReportStays
    <2>2. \A r \in ToSet(reports') :
            ReportExact(r)' /\ r.of \in 1 .. index' - 1 /\ list'[r.of].host # "none"
      BY <1>1, <1>2, <1>3, <2>1 DEF ReportsOk
    <2>3. \A i \in DOMAIN reports' : \A j \in 1 .. i - 1 : reports'[j].of < reports'[i].of
      BY <1>1, <1>2 DEF ReportsOk
    <2>4. \A n \in 1 .. index' - 1 : list'[n].host # "none" =>
            \E i \in DOMAIN reports' : reports'[i].of = n
      BY <1>1, <1>2, <1>3 DEF ReportsOk
    <2> QED
      BY <2>2, <2>3, <2>4 DEF ReportsOk
  <1>7. Merged' = Merged /\ Merged = 0
    BY <1>1, <1>2, <1>3 DEF Ending, Merged
  <1>8. Aggregated'
    BY <1>1, <1>2, <1>7 DEF Aggregated
  <1>9. Ending'
    BY <1>2, <1>3, <1>7 DEF Ending
  <1> QED
    BY <1>4, <1>5, <1>6, <1>8, <1>9 DEF PipelineInv

LEMMA FailAllKeeps ==
  ASSUME PipelineInv, FailAll
  PROVE  PipelineInv'
  <1>1. PipelineTypes /\ ReportsOk /\ Aggregated /\ Ending
    BY DEF PipelineInv
  <1>2. /\ stage = "next" /\ index = Len(list) + 1 /\ reports = <<>> /\ stage' = "failed"
        /\ UNCHANGED <<list, index, oast, looked, found, errors, reports, aggregate, database>>
    BY DEF FailAll, unheard
  <1>3. PipelineTypes' /\ Collected' /\ Looked' /\ Heard'
    BY <1>1, <1>2 DEF PipelineTypes, Collected, Looked, Heard, StageRank
  <1>4. ReportsOk'
    <2>1. \A r : ReportExact(r) => ReportExact(r)'
      BY <1>2, ReportStays
    <2> QED
      BY <1>1, <1>2, <2>1 DEF ReportsOk
  <1>5. Merged' = Merged /\ Merged = 0
    <2>1. Merged <= 0 /\ Merged \in Nat
      BY <1>1, <1>2, ListFacts, EmptySeq DEF Ending
    <2> QED
      BY <1>2, <2>1 DEF Merged
  <1>6. Aggregated' /\ Ending'
    <2>1. Len(reports) \in Nat
      BY <1>1, ListFacts
    <2> QED
      BY <1>1, <1>2, <1>5, <2>1 DEF Aggregated, Ending
  <1> QED
    BY <1>3, <1>4, <1>6 DEF PipelineInv

-----------------------------------------------------------------------------
(* The aggregate.                                                           *)

LEMMA FunctionSeq ==
  ASSUME NEW S, NEW n \in Nat, NEW f \in [1 .. n -> S]
  PROVE  f \in Seq(S) /\ Len(f) = n
  <1>1. f \in Seq(S)
    BY SeqDef
  <1>2. Len(f) \in Nat /\ 1 .. Len(f) = 1 .. n
    BY <1>1, LenProperties
  <1> QED
    BY <1>1, <1>2

LEMMA ReportTypes ==
  ASSUME PipelineTypes, ReportsOk, NEW i \in DOMAIN reports
  PROVE  /\ reports[i].assets \in Seq(AssetKinds) /\ reports[i].findings \in Seq(Reported)
         /\ reports[i].of \in Nat /\ reports[i].vulns = Len(reports[i].findings)
         /\ Len(reports[i].assets) \in Nat /\ Len(reports[i].findings) \in Nat
  <1>1. reports[i].assets \in Seq(AssetKinds) /\ reports[i].findings \in Seq(Reported)
    BY DEF PipelineTypes
  <1>2. ReportExact(reports[i]) /\ reports[i].of \in 1 .. index - 1
    BY DEF ReportsOk, ToSet
  <1>3. reports[i].vulns = Len(reports[i].findings)
    BY <1>2 DEF ReportExact
  <1> QED
    BY <1>1, <1>2, <1>3, LenProperties

LEMMA MergeKeeps ==
  ASSUME PipelineInv, Merge
  PROVE  PipelineInv'
  <1>1. PipelineTypes /\ ReportsOk /\ Aggregated /\ Ending
    BY DEF PipelineInv
  <1> DEFINE n == Merged + 1
             r == reports[n]
             summary == [target |-> r.of, assets |-> Len(r.assets), vulns |-> Len(r.findings)]
  <1>2. /\ stage = "next" /\ index = Len(list) + 1 /\ Merged < Len(reports)
        /\ UNCHANGED <<list, index, oast, stage, looked, found, errors, reports, database>>
        /\ aggregate' = [assets    |-> aggregate.assets \o r.assets,
                         findings  |-> aggregate.findings \o r.findings,
                         events    |-> aggregate.events \cup ({n} \X r.events),
                         paths     |-> aggregate.paths + r.paths,
                         vulns     |-> aggregate.vulns + r.vulns,
                         summaries |-> Append(aggregate.summaries, summary)]
    BY DEF Merge, Merged, unheard
  <1>3. /\ Merged \in Nat /\ Len(reports) \in Nat /\ DOMAIN reports = 1 .. Len(reports)
        /\ n \in DOMAIN reports /\ n <= Len(reports)
        /\ 1 .. n = (1 .. Merged) \cup {n} /\ 1 .. Merged \subseteq DOMAIN reports
    BY <1>1, <1>2, ListFacts
  <1>4. /\ r.assets \in Seq(AssetKinds) /\ r.findings \in Seq(Reported) /\ r.of \in Nat
        /\ r.vulns = Len(r.findings) /\ Len(r.assets) \in Nat /\ Len(r.findings) \in Nat
    BY <1>1, <1>3, ReportTypes
  <1>5. /\ aggregate.assets \in Seq(AssetKinds) /\ aggregate.findings \in Seq(Reported)
        /\ aggregate.summaries \in Seq([target : Nat, assets : Nat, vulns : Nat])
    BY <1>1 DEF PipelineTypes
  <1>6. summary \in [target : Nat, assets : Nat, vulns : Nat]
    BY <1>4
  <1> HIDE DEF summary
  <1>7. /\ aggregate'.summaries \in Seq([target : Nat, assets : Nat, vulns : Nat])
        /\ Merged' = n /\ aggregate'.summaries[n] = summary
        /\ \A i \in 1 .. Merged : aggregate'.summaries[i] = aggregate.summaries[i]
    BY <1>2, <1>5, <1>6, AppendProperties DEF Merged
  <1>8. /\ aggregate'.assets = aggregate.assets \o r.assets
        /\ aggregate'.findings = aggregate.findings \o r.findings
        /\ aggregate'.events = aggregate.events \cup ({n} \X r.events)
        /\ aggregate'.vulns = aggregate.vulns + r.vulns
        /\ DOMAIN aggregate' = {"assets", "findings", "events", "paths", "vulns", "summaries"}
    BY <1>2
  <1>9. /\ aggregate'.assets \in Seq(AssetKinds) /\ aggregate'.findings \in Seq(Reported)
        /\ Len(aggregate'.findings) = Len(aggregate.findings) + Len(r.findings)
    BY <1>4, <1>5, <1>8, ConcatProperties
  <1> HIDE DEF n
  <1>10. PipelineTypes'
    BY <1>1, <1>2, <1>7, <1>8, <1>9 DEF PipelineTypes
  <1>11. Collected' /\ Looked' /\ Heard'
    BY <1>2 DEF Collected, Looked, Heard, StageRank
  <1>12. ReportsOk'
    <2>1. \A q : ReportExact(q) => ReportExact(q)'
      BY <1>2, ReportStays
    <2> QED
      BY <1>1, <1>2, <2>1 DEF ReportsOk
  <1>13. Concatenates(aggregate'.assets, [i \in 1 .. n |-> reports[i].assets])
    <2> DEFINE parts == [i \in 1 .. Merged |-> reports[i].assets]
               more  == [i \in 1 .. n |-> reports[i].assets]
    <2>1. \A i \in 1 .. n : reports[i].assets \in Seq(AssetKinds)
      BY <1>1, <1>3, ReportTypes
    <2>2. parts \in [1 .. Merged -> Seq(AssetKinds)] /\ more \in [1 .. n -> Seq(AssetKinds)]
      BY <1>3, <2>1
    <2>3. \A i \in 1 .. Merged : more[i] = parts[i] /\ parts[i] \in Seq(AssetKinds)
      BY <1>3, <2>1
    <2>4. more[n] = r.assets /\ Concatenates(aggregate.assets, parts)
      BY <1>1, <1>3 DEF Aggregated
    <2> HIDE DEF parts, more
    <2>5. Len(parts) = Merged /\ Len(more) = Merged + 1
      BY <1>3, <2>2, FunctionSeq DEF n
    <2> DEFINE whole == aggregate.assets
               last == r.assets
    <2>6. whole \in Seq(AssetKinds) /\ last \in Seq(AssetKinds) /\ Concatenates(whole, parts)
          /\ more[Merged + 1] = last /\ Merged \in Nat
      BY <1>3, <1>4, <1>5, <2>4 DEF n
    <2> HIDE DEF whole, last
    <2>7. Concatenates(whole \o last, more)
      BY <2>3, <2>5, <2>6, ConcatenatesMore
    <2> QED
      BY <1>8, <2>7 DEF more, whole, last
  <1>14. Concatenates(aggregate'.findings, [i \in 1 .. n |-> reports[i].findings])
    <2> DEFINE parts == [i \in 1 .. Merged |-> reports[i].findings]
               more  == [i \in 1 .. n |-> reports[i].findings]
    <2>1. \A i \in 1 .. n : reports[i].findings \in Seq(Reported)
      BY <1>1, <1>3, ReportTypes
    <2>2. parts \in [1 .. Merged -> Seq(Reported)] /\ more \in [1 .. n -> Seq(Reported)]
      BY <1>3, <2>1
    <2>3. \A i \in 1 .. Merged : more[i] = parts[i] /\ parts[i] \in Seq(Reported)
      BY <1>3, <2>1
    <2>4. more[n] = r.findings /\ Concatenates(aggregate.findings, parts)
      BY <1>1, <1>3 DEF Aggregated
    <2> HIDE DEF parts, more
    <2>5. Len(parts) = Merged /\ Len(more) = Merged + 1
      BY <1>3, <2>2, FunctionSeq DEF n
    <2> DEFINE whole == aggregate.findings
               last == r.findings
    <2>6. whole \in Seq(Reported) /\ last \in Seq(Reported) /\ Concatenates(whole, parts)
          /\ more[Merged + 1] = last /\ Merged \in Nat
      BY <1>3, <1>4, <1>5, <2>4 DEF n
    <2> HIDE DEF whole, last
    <2>7. Concatenates(whole \o last, more)
      BY <2>3, <2>5, <2>6, ConcatenatesMore
    <2> QED
      BY <1>8, <2>7 DEF more, whole, last
  <1>15. Aggregated'
    <2>1. aggregate'.vulns = Len(aggregate'.findings)
      BY <1>1, <1>4, <1>8, <1>9 DEF Aggregated
    <2>2. aggregate'.events = UNION {{i} \X reports[i].events : i \in 1 .. n}
      BY <1>1, <1>3, <1>8 DEF Aggregated
    <2>3. \A i \in 1 .. n :
            aggregate'.summaries[i] = [target |-> reports[i].of, assets |-> Len(reports[i].assets),
                                       vulns |-> Len(reports[i].findings)]
      BY <1>1, <1>2, <1>3, <1>7 DEF Aggregated, summary
    <2>4. Concatenates(aggregate'.assets, [i \in 1 .. Merged' |-> reports'[i].assets])
          /\ Concatenates(aggregate'.findings, [i \in 1 .. Merged' |-> reports'[i].findings])
      BY <1>2, <1>7, <1>13, <1>14
    <2>5. aggregate'.events = UNION {{i} \X reports'[i].events : i \in 1 .. Merged'}
      BY <1>2, <1>7, <2>2
    <2>6. \A i \in 1 .. Merged' :
            aggregate'.summaries[i] = [target |-> reports'[i].of, assets |-> Len(reports'[i].assets),
                                       vulns |-> Len(reports'[i].findings)]
      BY <1>2, <1>7, <2>3
    <2> QED
      BY <2>1, <2>4, <2>5, <2>6 DEF Aggregated
  <1>16. Ending'
    BY <1>2, <1>3, <1>7 DEF Ending
  <1> QED
    BY <1>10, <1>11, <1>12, <1>15, <1>16 DEF PipelineInv

LEMMA SortSummariesKeeps ==
  ASSUME PipelineInv, SortSummaries
  PROVE  PipelineInv'
  <1>1. PipelineTypes /\ ReportsOk /\ Aggregated /\ Ending
    BY DEF PipelineInv
  <1> DEFINE sums == aggregate.summaries
  <1>2. PICK p \in Orders(sums) :
          aggregate' = [aggregate EXCEPT !.summaries = [i \in DOMAIN @ |-> @[p[i]]]]
    BY DEF SortSummaries
  <1>3. /\ stage = "next" /\ index = Len(list) + 1 /\ stage' = "done"
        /\ reports # <<>> /\ Len(sums) = Len(reports)
        /\ UNCHANGED <<list, index, oast, looked, found, errors, reports, database>>
    BY DEF SortSummaries, unheard
  <1> DEFINE n == Len(reports)
  <1>4. /\ n \in Nat /\ DOMAIN reports = 1 .. n /\ DOMAIN sums = 1 .. n /\ Merged = n
        /\ sums \in Seq([target : Nat, assets : Nat, vulns : Nat])
        /\ sums \in [1 .. n -> [target : Nat, assets : Nat, vulns : Nat]]
    BY <1>1, <1>3, ListFacts, LenProperties DEF PipelineTypes, Merged
  <1>5. /\ p \in [1 .. n -> 1 .. n]
        /\ \A i, j \in 1 .. n : p[i] = p[j] => i = j
        /\ \A i, j \in 1 .. n : i < j => sums[p[i]].vulns >= sums[p[j]].vulns
    BY <1>2, <1>4 DEF Orders
  <1>6. /\ DOMAIN aggregate' = {"assets", "findings", "events", "paths", "vulns", "summaries"}
        /\ aggregate'.assets = aggregate.assets /\ aggregate'.findings = aggregate.findings
        /\ aggregate'.events = aggregate.events /\ aggregate'.vulns = aggregate.vulns
        /\ aggregate'.summaries = [i \in 1 .. n |-> sums[p[i]]]
    BY <1>1, <1>2, <1>4 DEF PipelineTypes
  <1> HIDE DEF sums, n
  <1>7. aggregate'.summaries \in [1 .. n -> [target : Nat, assets : Nat, vulns : Nat]]
    BY <1>4, <1>5, <1>6
  <1>8. aggregate'.summaries \in Seq([target : Nat, assets : Nat, vulns : Nat])
        /\ Len(aggregate'.summaries) = n /\ DOMAIN aggregate'.summaries = 1 .. n
    BY <1>4, <1>7, FunctionSeq
  <1>9. PipelineTypes'
    BY <1>1, <1>3, <1>6, <1>8 DEF PipelineTypes
  <1>10. Collected' /\ Looked' /\ Heard'
    BY <1>3 DEF Collected, Looked, Heard, StageRank
  <1>11. ReportsOk'
    <2>1. \A q : ReportExact(q) => ReportExact(q)'
      BY <1>3, ReportStays
    <2> QED
      BY <1>1, <1>3, <2>1 DEF ReportsOk
  <1>12. Aggregated'
    BY <1>1, <1>3, <1>4, <1>6, <1>8 DEF Aggregated, Merged
  <1>13. \A i \in 1 .. n : \E k \in 1 .. n : p[k] = i
    <2>1. IsFiniteSet(1 .. n)
      BY <1>4, FS_Interval
    <2>2. DOMAIN p = 1 .. n
      BY <1>5
    <2>3. p \in Injection(1 .. n, 1 .. n)
      BY <1>5, <2>2 DEF Injection, IsInjective
    <2>4. p \in Surjection(1 .. n, 1 .. n)
      BY <2>1, <2>3, FS_Injection
    <2> QED
      BY <2>4 DEF Surjection
  <1>14. AggregateExact'
    <2>1. \A i \in 1 .. n : \E k \in 1 .. n :
            aggregate'.summaries[k] = [target |-> reports[i].of, assets |-> Len(reports[i].assets),
                                       vulns |-> Len(reports[i].findings)]
      <3> TAKE i \in 1 .. n
      <3>1. PICK k \in 1 .. n : p[k] = i
        BY <1>13
      <3>2. aggregate'.summaries[k] = sums[i]
        BY <1>6, <3>1
      <3>3. sums[i] = [target |-> reports[i].of, assets |-> Len(reports[i].assets),
                       vulns |-> Len(reports[i].findings)]
        BY <1>1, <1>3, <1>4 DEF Aggregated, sums
      <3> QED
        BY <3>2, <3>3
    <2>2. \A k \in 2 .. n : aggregate'.summaries[k].vulns <= aggregate'.summaries[k - 1].vulns
      <3> TAKE k \in 2 .. n
      <3>1. k - 1 \in 1 .. n /\ k \in 1 .. n /\ k - 1 < k
        BY <1>4
      <3>2. sums[p[k - 1]].vulns >= sums[p[k]].vulns
        BY <1>5, <3>1
      <3>3. sums[p[k - 1]].vulns \in Nat /\ sums[p[k]].vulns \in Nat
        BY <1>4, <1>5, <3>1
      <3>4. aggregate'.summaries[k] = sums[p[k]] /\ aggregate'.summaries[k - 1] = sums[p[k - 1]]
        BY <1>6, <3>1
      <3> QED
        BY <3>2, <3>3, <3>4
    <2>3. /\ Concatenates(aggregate.assets, [i \in 1 .. n |-> reports[i].assets])
          /\ Concatenates(aggregate.findings, [i \in 1 .. n |-> reports[i].findings])
          /\ aggregate.vulns = Len(aggregate.findings)
          /\ aggregate.events = UNION {{i} \X reports[i].events : i \in 1 .. n}
      BY <1>1, <1>4 DEF Aggregated
    <2>4. reports' = reports /\ DOMAIN reports' = 1 .. n /\ Len(reports') = n
      BY <1>3, <1>4 DEF n
    <2>5. /\ Concatenates(aggregate'.assets, [i \in DOMAIN reports' |-> reports'[i].assets])
          /\ Concatenates(aggregate'.findings, [i \in DOMAIN reports' |-> reports'[i].findings])
          /\ aggregate'.vulns = Len(aggregate'.findings)
          /\ aggregate'.events = UNION {{i} \X reports'[i].events : i \in DOMAIN reports'}
      <3>1. [i \in DOMAIN reports' |-> reports'[i].assets] = [i \in 1 .. n |-> reports[i].assets]
        BY <2>4
      <3>2. [i \in DOMAIN reports' |-> reports'[i].findings] = [i \in 1 .. n |-> reports[i].findings]
        BY <2>4
      <3>3. UNION {{i} \X reports'[i].events : i \in DOMAIN reports'} =
              UNION {{i} \X reports[i].events : i \in 1 .. n}
        BY <2>4
      <3> QED
        BY <1>6, <2>3, <3>1, <3>2, <3>3
    <2> QED
      BY <1>8, <2>1, <2>2, <2>4, <2>5 DEF AggregateExact
  <1>15. Ending'
    BY <1>3, <1>4, <1>8, <1>14 DEF Ending, Merged, n
  <1> QED
    BY <1>9, <1>10, <1>11, <1>12, <1>15 DEF PipelineInv

-----------------------------------------------------------------------------
(* The report of a target.                                                  *)

LEMMA AtVerification ==
  ASSUME PipelineInv, stage = "verification"
  PROVE  /\ index \in DOMAIN list /\ Target.host # "none"
         /\ \A s \in AssetStages \cup FindingStages : found[s] = Outcome(Target, s)
         /\ errors \ {"fingerprint"} = {s \in {"discovery"} \cup DOMAIN Following : Fails(Target, s)}
         /\ ("fingerprint" \in errors) <=>
              \E u \in DOMAIN Fingerprints(Target) : Fingerprints(Target)[u] = NoResult
         /\ \A u \in DOMAIN Fingerprints(Target) : Fingerprints(Target)[u] # NoResult =>
              \A x \in Fingerprints(Target)[u] : <<u, x>> \in found["fingerprint"]
         /\ \A p \in found["fingerprint"] :
              /\ p[1] \in DOMAIN Fingerprints(Target)
              /\ Fingerprints(Target)[p[1]] # NoResult /\ p[2] \in Fingerprints(Target)[p[1]]
         /\ found["loaded"] \subseteq DOMAIN database
         /\ found["callbacks"] = {e \in found["loaded"] : database[e].id = oast.id}
  <1>1. PipelineTypes /\ Collected /\ Looked /\ Heard
    BY DEF PipelineInv
  <1>2. stage \in DOMAIN StageRank /\ StageRank[stage] = 11
    BY DEF StageRank
  <1>3. \A s \in AssetStages \cup FindingStages : SettledBy[s] < 11
    BY DEF AssetStages, FindingStages, SettledBy
  <1>4. \A s \in {"discovery"} \cup DOMAIN Following : SettledBy[s] < 11
    BY DEF Following, SettledBy
  <1>5. /\ index \in DOMAIN list /\ Target.host # "none"
        /\ \A s \in AssetStages \cup FindingStages : found[s] = Outcome(Target, s)
    BY <1>1, <1>2, <1>3 DEF Collected
  <1>6. errors \ {"fingerprint"} = {s \in {"discovery"} \cup DOMAIN Following : Fails(Target, s)}
    BY <1>1, <1>2, <1>4 DEF Collected
  <1>7. 1 .. looked = DOMAIN Fingerprints(Target)
    BY <1>1, <1>2 DEF Looked
  <1>8. /\ ("fingerprint" \in errors) <=> \E u \in 1 .. looked : Fingerprints(Target)[u] = NoResult
        /\ \A u \in 1 .. looked : Fingerprints(Target)[u] # NoResult =>
             \A x \in Fingerprints(Target)[u] : <<u, x>> \in found["fingerprint"]
        /\ \A p \in found["fingerprint"] :
             /\ p[1] \in 1 .. looked
             /\ Fingerprints(Target)[p[1]] # NoResult /\ p[2] \in Fingerprints(Target)[p[1]]
    BY <1>1, <1>2 DEF Looked
  <1>9. /\ found["loaded"] \subseteq DOMAIN database
        /\ found["callbacks"] = {e \in found["loaded"] : database[e].id = oast.id}
    BY <1>1 DEF Heard
  <1> DEFINE urls == Fingerprints(Target)
  <1>10. /\ ("fingerprint" \in errors) <=> \E u \in DOMAIN urls : urls[u] = NoResult
         /\ \A u \in DOMAIN urls : urls[u] # NoResult =>
              \A x \in urls[u] : <<u, x>> \in found["fingerprint"]
         /\ \A p \in found["fingerprint"] :
              p[1] \in DOMAIN urls /\ urls[p[1]] # NoResult /\ p[2] \in urls[p[1]]
    <2> HIDE DEF urls
    <2>1. \A u : u \in 1 .. looked <=> u \in DOMAIN urls
      BY <1>7 DEF urls
    <2>2. ("fingerprint" \in errors) <=> \E u \in 1 .. looked : urls[u] = NoResult
      BY <1>8 DEF urls
    <2>3. \A u \in 1 .. looked : urls[u] # NoResult =>
            \A x \in urls[u] : <<u, x>> \in found["fingerprint"]
      BY <1>8 DEF urls
    <2>4. \A p \in found["fingerprint"] :
            p[1] \in 1 .. looked /\ urls[p[1]] # NoResult /\ p[2] \in urls[p[1]]
      BY <1>8 DEF urls
    <2>5. ("fingerprint" \in errors) <=> \E u \in DOMAIN urls : urls[u] = NoResult
      BY <2>1, <2>2
    <2>6. \A u \in DOMAIN urls : urls[u] # NoResult =>
            \A x \in urls[u] : <<u, x>> \in found["fingerprint"]
      BY <2>1, <2>3
    <2>7. \A p \in found["fingerprint"] :
            p[1] \in DOMAIN urls /\ urls[p[1]] # NoResult /\ p[2] \in urls[p[1]]
      BY <2>1, <2>4
    <2> QED
      BY <2>5, <2>6, <2>7
  <1> HIDE DEF urls
  <1>11. urls = Fingerprints(Target)
    BY DEF urls
  <1> QED
    BY <1>5, <1>6, <1>9, <1>10, <1>11

LEMMA DetectedElements ==
  ASSUME PipelineInv, stage = "verification"
  PROVE  /\ Detected \in Seq(Reported)
         /\ ToSet(Detected) = (UNION {ToSet(Outcome(Target, s)) : s \in FindingStages})
                              \cup (IF found["callbacks"] = {} THEN {} ELSE {CallbackFinding})
  <1>1. PipelineTypes /\ index \in DOMAIN list
        /\ \A s \in FindingStages : found[s] = Outcome(Target, s)
    BY AtVerification DEF PipelineInv
  <1>2. \A s \in FindingStages : found[s] \in Seq(Reported)
    BY <1>1, OutcomeTypes, SeqMonotonic DEF Target, Reported
  <1> DEFINE a == found["vulnerability"]
             b == found["stateful"]
             c == found["network_rules"]
             d == found["cve"]
             e == IF found["callbacks"] = {} THEN <<>> ELSE <<CallbackFinding>>
  <1>3. /\ e \in Seq(Reported)
        /\ ToSet(e) = IF found["callbacks"] = {} THEN {} ELSE {CallbackFinding}
    <2>1. CallbackFinding \in Reported
      BY DEF Reported
    <2>2. <<CallbackFinding>> \in Seq(Reported) /\ <<>> \in Seq(Reported)
      BY <2>1
    <2>3. ToSet(<<CallbackFinding>>) = {CallbackFinding} /\ ToSet(<<>>) = {}
      BY DEF ToSet
    <2> QED
      BY <2>2, <2>3
  <1>4. /\ a \in Seq(Reported) /\ b \in Seq(Reported) /\ c \in Seq(Reported) /\ d \in Seq(Reported)
        /\ UNION {ToSet(Outcome(Target, s)) : s \in FindingStages}
             = ToSet(a) \cup ToSet(b) \cup ToSet(c) \cup ToSet(d)
    BY <1>1, <1>2 DEF FindingStages
  <1>5. Detected = a \o b \o c \o d \o e
    BY DEF Detected
  <1> HIDE DEF a, b, c, d, e
  <1> DEFINE ab == a \o b
             abc == ab \o c
             abcd == abc \o d
             all == abcd \o e
  <1>6. ab \in Seq(Reported) /\ ToSet(ab) = ToSet(a) \cup ToSet(b)
    BY <1>4, ConcatElements
  <1> HIDE DEF ab
  <1>7. abc \in Seq(Reported) /\ ToSet(abc) = ToSet(ab) \cup ToSet(c)
    BY <1>4, <1>6, ConcatElements
  <1> HIDE DEF abc
  <1>8. abcd \in Seq(Reported) /\ ToSet(abcd) = ToSet(abc) \cup ToSet(d)
    BY <1>4, <1>7, ConcatElements
  <1> HIDE DEF abcd
  <1>9. all \in Seq(Reported) /\ ToSet(all) = ToSet(abcd) \cup ToSet(e)
    BY <1>3, <1>8, ConcatElements
  <1> HIDE DEF all
  <1>10. Detected = all
    BY <1>5 DEF all, abcd, abc, ab
  <1> QED
    BY <1>3, <1>4, <1>6, <1>7, <1>8, <1>9, <1>10

\* The record ReportTarget(kept) appends.
NewReport(kept) ==
  [of       |-> index,
   assets   |-> found["discovery"] \o found["session"] \o found["browser"] \o found["api"]
                \o found["fuzzing"] \o found["stateful_assets"] \o found["ports"],
   techs    |-> found["fingerprint"],
   findings |-> [i \in DOMAIN kept |-> Detected[kept[i]]],
   events   |-> found["callbacks"],
   loaded   |-> found["loaded"],
   errors   |-> errors,
   paths    |-> CountOf(found["fuzzing"], "path") + CountOf(found["browser"], "path")
                + CountOf(found["api"], "endpoint"),
   vulns    |-> Len(kept)]

LEMMA KeptElements ==
  ASSUME PipelineInv, stage = "verification", NEW kept \in Kept
  PROVE  LET findings == [i \in DOMAIN kept |-> Detected[kept[i]]]
         IN  /\ findings \in Seq(Reported) /\ Len(findings) = Len(kept)
             /\ ToSet(findings) \subseteq ToSet(Detected)
             /\ \A f \in ToSet(Detected) : f.verified => f \in ToSet(findings)
  <1> DEFINE findings == [i \in DOMAIN kept |-> Detected[kept[i]]]
  <1>1. PICK n \in 0 .. Len(Detected) : kept \in [1 .. n -> DOMAIN Detected]
    BY DEF Kept
  <1>2. \A d \in DOMAIN Detected : Detected[d].verified => \E i \in DOMAIN kept : kept[i] = d
    BY DEF Kept
  <1>3. Detected \in Seq(Reported) /\ n \in Nat
    BY DetectedElements, LenProperties
  <1>4. \A d \in DOMAIN Detected : Detected[d] \in Reported
    BY <1>3, ElementOfSeq, LenProperties
  <1>5. findings \in [1 .. n -> Reported] /\ DOMAIN kept = 1 .. n
    BY <1>1, <1>4
  <1>6. findings \in Seq(Reported) /\ Len(findings) = n /\ Len(kept) = n
    BY <1>1, <1>3, <1>5, FunctionSeq
  <1>7. ToSet(findings) \subseteq ToSet(Detected)
    BY <1>1, <1>5 DEF ToSet
  <1>8. ASSUME NEW f \in ToSet(Detected), f.verified PROVE f \in ToSet(findings)
    <2>1. PICK d \in DOMAIN Detected : Detected[d] = f
      BY DEF ToSet
    <2>2. PICK i \in DOMAIN kept : kept[i] = d
      BY <1>2, <1>8, <2>1
    <2>3. findings[i] = f /\ i \in DOMAIN findings
      BY <2>1, <2>2
    <2> HIDE DEF findings
    <2> QED
      BY <2>3 DEF ToSet
  <1> QED
    BY <1>6, <1>7, <1>8

LEMMA NewReportTypes ==
  ASSUME PipelineInv, stage = "verification", NEW kept \in Kept
  PROVE  NewReport(kept).assets \in Seq(AssetKinds) /\ NewReport(kept).findings \in Seq(Reported)
  <1>1. PipelineTypes /\ index \in DOMAIN list
        /\ \A s \in AssetStages : found[s] = Outcome(Target, s)
    BY AtVerification DEF PipelineInv
  <1>2. \A s \in AssetStages : found[s] \in Seq(AssetKinds)
    BY <1>1, OutcomeTypes DEF Target
  <1> DEFINE a == found["discovery"]
             b == found["session"]
             c == found["browser"]
             d == found["api"]
             e == found["fuzzing"]
             f == found["stateful_assets"]
             g == found["ports"]
  <1>3. /\ a \in Seq(AssetKinds) /\ b \in Seq(AssetKinds) /\ c \in Seq(AssetKinds)
        /\ d \in Seq(AssetKinds) /\ e \in Seq(AssetKinds) /\ f \in Seq(AssetKinds)
        /\ g \in Seq(AssetKinds)
    BY <1>2 DEF AssetStages
  <1>4. NewReport(kept).assets = a \o b \o c \o d \o e \o f \o g
    BY DEF NewReport
  <1> HIDE DEF a, b, c, d, e, f, g
  <1>5. a \o b \o c \o d \in Seq(AssetKinds)
    BY <1>3, ConcatElements
  <1>6. a \o b \o c \o d \o e \o f \o g \in Seq(AssetKinds)
    BY <1>3, <1>5, ConcatElements
  <1> QED
    BY <1>4, <1>6, KeptElements DEF NewReport

LEMMA NewReportExact ==
  ASSUME PipelineInv, stage = "verification", NEW kept \in Kept
  PROVE  ReportExact(NewReport(kept))
  <1> DEFINE r == NewReport(kept)
  <1>1. r.of = index /\ list[r.of] = Target
    BY DEF NewReport, Target
  <1>2. /\ r.techs = found["fingerprint"] /\ r.events = found["callbacks"]
        /\ r.loaded = found["loaded"] /\ r.errors = errors
        /\ r.findings = [i \in DOMAIN kept |-> Detected[kept[i]]] /\ r.vulns = Len(kept)
        /\ r.assets = found["discovery"] \o found["session"] \o found["browser"] \o found["api"]
                      \o found["fuzzing"] \o found["stateful_assets"] \o found["ports"]
    BY DEF NewReport
  <1> HIDE DEF r
  <1>3. \A s \in AssetStages \cup FindingStages : found[s] = Outcome(Target, s)
    BY AtVerification
  <1>4. r.assets = Outcome(Target, "discovery") \o Outcome(Target, "session")
                   \o Outcome(Target, "browser") \o Outcome(Target, "api")
                   \o Outcome(Target, "fuzzing") \o Outcome(Target, "stateful_assets")
                   \o Outcome(Target, "ports")
    BY <1>2, <1>3 DEF AssetStages
  <1>5. /\ Len(r.findings) = r.vulns /\ ToSet(r.findings) \subseteq ToSet(Detected)
        /\ \A f \in ToSet(Detected) : f.verified => f \in ToSet(r.findings)
    BY <1>2, KeptElements
  <1>6. ToSet(Detected) = (UNION {ToSet(Outcome(Target, s)) : s \in FindingStages})
                          \cup (IF r.events = {} THEN {} ELSE {CallbackFinding})
    BY <1>2, DetectedElements
  <1>7. \A f \in ToSet(r.findings) :
          (f = CallbackFinding /\ r.events # {})
          \/ \E s \in FindingStages : f \in ToSet(Outcome(Target, s))
    BY <1>5, <1>6
  <1>8. \A s \in FindingStages : \A f \in ToSet(Outcome(Target, s)) :
          f.verified => f \in ToSet(r.findings)
    BY <1>5, <1>6
  <1>9. r.events # {} => CallbackFinding \in ToSet(r.findings)
    BY <1>5, <1>6 DEF CallbackFinding
  <1>10. r.errors = FailedStages(Target)
    BY <1>2, AtVerification DEF FailedStages
  <1>11. /\ \A u \in DOMAIN Fingerprints(Target) : Fingerprints(Target)[u] # NoResult =>
              \A x \in Fingerprints(Target)[u] : <<u, x>> \in r.techs
         /\ \A p \in r.techs :
              /\ p[1] \in DOMAIN Fingerprints(Target)
              /\ Fingerprints(Target)[p[1]] # NoResult /\ p[2] \in Fingerprints(Target)[p[1]]
    BY <1>2, AtVerification
  <1>12. /\ r.events \subseteq r.loaded /\ \A e \in r.events : database[e].id = oast.id
         /\ \A e \in r.loaded :
              e \in DOMAIN database
              /\ (database[e] = [id |-> oast.id, from |-> r.of] => e \in r.events)
    BY <1>2, AtVerification
  <1>13. ReportExact(r)
    BY <1>1, <1>4, <1>5, <1>7, <1>8, <1>9, <1>10, <1>11, <1>12 DEF ReportExact
  <1> QED
    BY <1>13 DEF r

LEMMA ReportTargetKeeps ==
  ASSUME PipelineInv, NEW kept \in Kept, ReportTarget(kept)
  PROVE  PipelineInv'
  <1>1. PipelineTypes /\ ReportsOk /\ Aggregated /\ Ending
    BY DEF PipelineInv
  <1> DEFINE r == NewReport(kept)
             n == Len(reports)
  <1>2. /\ stage = "verification" /\ reports' = Append(reports, r)
        /\ stage' = "next" /\ index' = index + 1
        /\ UNCHANGED <<list, oast, looked, found, errors, aggregate, database>>
    BY DEF ReportTarget, NewReport, unheard
  <1>3. /\ r.of = index /\ ReportExact(r)
        /\ r.assets \in Seq(AssetKinds) /\ r.findings \in Seq(Reported)
        /\ index \in DOMAIN list /\ list[index].host # "none"
    BY <1>2, NewReportExact, NewReportTypes, AtVerification DEF NewReport, Target
  <1> HIDE DEF r
  <1>5. /\ Len(list) \in Nat /\ DOMAIN list = 1 .. Len(list) /\ index \in Nat \ {0}
        /\ n \in Nat /\ DOMAIN reports = 1 .. n /\ Merged \in Nat
        /\ 1 .. index' - 1 = (1 .. index - 1) \cup {index} /\ index' \in 1 .. Len(list) + 1
        /\ index # Len(list) + 1
    <2>1. /\ Len(list) \in Nat /\ DOMAIN list = 1 .. Len(list) /\ index \in Nat \ {0}
          /\ n \in Nat /\ DOMAIN reports = 1 .. n /\ Merged \in Nat
      BY <1>1, ListFacts
    <2> QED
      BY <1>2, <1>3, <2>1
  <1>6. /\ IsSeq(reports') /\ DOMAIN reports' = (1 .. n) \cup {n + 1} /\ Len(reports') = n + 1
        /\ \A i \in 1 .. n : reports'[i] = reports[i]
        /\ reports'[n + 1] = r
    <2>1. IsSeq(reports)
      BY <1>1 DEF PipelineTypes
    <2>2. /\ IsSeq(Append(reports, r)) /\ DOMAIN Append(reports, r) = 1 .. n + 1
          /\ Len(Append(reports, r)) = n + 1
          /\ \A i \in 1 .. n : Append(reports, r)[i] = reports[i]
          /\ Append(reports, r)[n + 1] = r
      BY <2>1, AppendSeq
    <2> QED
      BY <1>2, <1>5, <2>2
  <1> HIDE DEF n
  <1>7. PipelineTypes'
    BY <1>1, <1>2, <1>3, <1>5, <1>6 DEF PipelineTypes
  <1>8. Collected' /\ Looked' /\ Heard'
    BY <1>2 DEF Collected, Looked, Heard, StageRank
  <1>9. ReportsOk'
    <2>1. \A q : ReportExact(q) => ReportExact(q)'
      BY <1>2, ReportStays
    <2>2. \A q \in ToSet(reports') : q = r \/ q \in ToSet(reports)
      BY <1>5, <1>6 DEF ToSet
    <2>3. \A q \in ToSet(reports') :
            ReportExact(q)' /\ q.of \in 1 .. index' - 1 /\ list'[q.of].host # "none"
      BY <1>1, <1>2, <1>3, <1>5, <2>1, <2>2 DEF ReportsOk
    <2>4. ASSUME NEW i \in DOMAIN reports', NEW j \in 1 .. i - 1
          PROVE  reports'[j].of < reports'[i].of
      <3>1. CASE i \in 1 .. n
        <4>1. j \in 1 .. n
          BY <1>5, <3>1
        <4> QED
          BY <1>1, <1>5, <1>6, <3>1, <4>1 DEF ReportsOk
      <3>2. CASE i = n + 1
        <4>1. j \in 1 .. n
          BY <1>5, <3>2
        <4>2. reports[j].of \in 1 .. index - 1
          BY <1>1, <1>5, <4>1 DEF ReportsOk, ToSet
        <4> QED
          BY <1>3, <1>5, <1>6, <3>2, <4>1, <4>2
      <3> QED
        BY <1>6, <3>1, <3>2
    <2>5. ASSUME NEW m \in 1 .. index' - 1, list'[m].host # "none"
          PROVE  \E i \in DOMAIN reports' : reports'[i].of = m
      <3>1. CASE m = index
        BY <1>3, <1>6, <3>1
      <3>2. CASE m \in 1 .. index - 1
        <4>1. PICK i \in DOMAIN reports : reports[i].of = m
          BY <1>1, <1>2, <2>5, <3>2 DEF ReportsOk
        <4> QED
          BY <1>5, <1>6, <4>1
      <3> QED
        BY <1>5, <3>1, <3>2
    <2> QED
      BY <2>3, <2>4, <2>5 DEF ReportsOk
  <1>10. Merged = 0 /\ Merged' = 0
    BY <1>1, <1>2, <1>5 DEF Ending, Merged
  <1>11. Aggregated'
    <2>1. /\ [i \in 1 .. Merged' |-> reports'[i].assets] = [i \in 1 .. Merged |-> reports[i].assets]
          /\ [i \in 1 .. Merged' |-> reports'[i].findings] = [i \in 1 .. Merged |-> reports[i].findings]
          /\ {{i} \X reports'[i].events : i \in 1 .. Merged'} =
               {{i} \X reports[i].events : i \in 1 .. Merged}
      BY <1>10
    <2>2. \A i \in 1 .. Merged' : FALSE
      BY <1>10
    <2> QED
      BY <1>1, <1>2, <2>1, <2>2 DEF Aggregated
  <1>12. Ending'
    BY <1>2, <1>5, <1>6, <1>10 DEF Ending
  <1> QED
    BY <1>7, <1>8, <1>9, <1>11, <1>12 DEF PipelineInv

-----------------------------------------------------------------------------
(* The pipeline.                                                            *)

LEMMA PipelineInitial == PipelineInit => PipelineInv
  <1> SUFFICES ASSUME PipelineInit PROVE PipelineInv
    OBVIOUS
  <1>1. /\ list \in TargetLists /\ index = 1 /\ stage = "next" /\ found = NothingFound
        /\ reports = <<>> /\ aggregate = EmptyAggregate /\ database = <<>>
    BY DEF PipelineInit
  <1>2. /\ aggregate.assets = <<>> /\ aggregate.findings = <<>> /\ aggregate.summaries = <<>>
        /\ aggregate.events = {} /\ aggregate.vulns = 0
        /\ DOMAIN aggregate = {"assets", "findings", "events", "paths", "vulns", "summaries"}
    BY <1>1 DEF EmptyAggregate
  <1>3. Len(list) \in Nat /\ index \in 1 .. Len(list) + 1
    BY <1>1, PipelineAssumption
  <1>4. /\ Len(<<>>) = 0 /\ DOMAIN <<>> = {} /\ ToSet(<<>>) = {}
        /\ \A S : <<>> \in Seq(S)
    BY EmptySeq DEF ToSet
  <1>5. PipelineTypes
    BY <1>1, <1>2, <1>3, <1>4 DEF PipelineTypes, IsSeq, NothingFound
  <1>6. Collected /\ Looked /\ Heard
    BY <1>1 DEF Collected, Looked, Heard, StageRank
  <1>7. ReportsOk
    <2>1. 1 .. index - 1 = {}
      BY <1>1
    <2> QED
      BY <1>1, <1>4, <2>1 DEF ReportsOk
  <1>8. Merged = 0 /\ 1 .. Merged = {}
    BY <1>2, <1>4 DEF Merged
  <1>9. Concatenates(<<>>, [i \in 1 .. Merged |-> reports[i].assets])
        /\ Concatenates(<<>>, [i \in 1 .. Merged |-> reports[i].findings])
    <2>1. \A f \in [1 .. 0 -> {}] : Len(f) = 0
      BY FunctionSeq
    <2>2. [i \in 1 .. Merged |-> reports[i].assets] \in [1 .. 0 -> {}]
          /\ [i \in 1 .. Merged |-> reports[i].findings] \in [1 .. 0 -> {}]
      BY <1>8
    <2> QED
      BY <2>1, <2>2, ConcatenatesNone
  <1>10. Aggregated
    BY <1>2, <1>4, <1>8, <1>9 DEF Aggregated
  <1>11. Ending
    BY <1>1, <1>4, <1>8 DEF Ending
  <1> QED
    BY <1>5, <1>6, <1>7, <1>10, <1>11 DEF PipelineInv

LEMMA PipelineKeeps == PipelineInv /\ [PipelineNext]_pipelineVars => PipelineInv'
  <1> SUFFICES ASSUME PipelineInv, [PipelineNext]_pipelineVars PROVE PipelineInv'
    OBVIOUS
  <1>1. CASE PipelineStep
    <2>1. CASE SkipTarget
      BY <2>1, SkipTargetKeeps
    <2>2. CASE Discover
      BY <2>2, DiscoverKeeps
    <2>3. CASE ScanPorts
      BY <2>3, ScanPortsKeeps
    <2>4. CASE FingerprintUrl
      BY <2>4, FingerprintUrlKeeps
    <2>5. CASE Collect
      BY <2>5, CollectKeeps
    <2>6. CASE \E readable \in BOOLEAN : LoadCallbacks(readable)
      BY <2>6, LoadCallbacksKeeps
    <2>7. CASE \E kept \in Kept : ReportTarget(kept)
      BY <2>7, ReportTargetKeeps
    <2>8. CASE FailAll
      BY <2>8, FailAllKeeps
    <2>9. CASE Merge
      BY <2>9, MergeKeeps
    <2>10. CASE SortSummaries
      BY <2>10, SortSummariesKeeps
    <2> QED
      BY <1>1, <2>1, <2>2, <2>3, <2>4, <2>5, <2>6, <2>7, <2>8, <2>9, <2>10 DEF PipelineStep
  <1>2. CASE \E callback \in callbacks : Arrive(callback) \/ LoseCallback(callback)
    BY <1>2, CollaboratorKeeps
  <1>3. CASE UNCHANGED pipelineVars
    BY <1>3, CollaboratorKeeps
  <1> QED
    BY <1>1, <1>2, <1>3 DEF PipelineNext

LEMMA PipelineInvExact == PipelineInv => PipelineExact
  <1> SUFFICES ASSUME PipelineInv PROVE PipelineExact
    OBVIOUS
  <1>1. PipelineTypes /\ ReportsOk /\ Ending
    BY DEF PipelineInv
  <1>2. stage \in {"done", "failed"} =>
          index = Len(list) + 1 /\ (stage = "failed") = (reports = <<>>)
    BY <1>1 DEF Ending
  <1> QED
    BY <1>1, <1>2 DEF PipelineExact, ReportsOk, Ending

\* However the stages, the callbacks and the loss of callbacks interleave and whichever
\* stages fail, the report of every target of the list is exact, its targets are all
\* there, and the aggregate is the reports (run_file_scan, run_scan_with_ports,
\* aggregate_scan_results, load_oast_callback_events).
THEOREM PipelineAlwaysExact == PipelineSpec => []PipelineExact
  <1>1. PipelineSpec => []PipelineInv
    BY PipelineInitial, PipelineKeeps, PTL DEF PipelineSpec
  <1> QED
    BY <1>1, PipelineInvExact, PTL

=============================================================================
