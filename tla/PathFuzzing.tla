----------------------------- MODULE PathFuzzing -----------------------------
(***************************************************************************)
(* run_fuzzing (fuzzing/src/lib.rs): the recursive path fuzzing and the     *)
(* parameter fuzzing of fuzzer.rs.  The requests themselves are the subject *)
(* of ResilientRequests; here fuzz_paths of one directory is a round, with  *)
(* the baseline and the answer of every word.                               *)
(*                                                                         *)
(* A URL is what lies between its slashes below the host, and whether it    *)
(* ends with one.  A word may have several such segments, and may end with  *)
(* a slash (one at most); "/" has none.  So several words of several        *)
(* directories may lead to one URL.                                         *)
(***************************************************************************)
EXTENDS Integers, Sequences, Functions

CONSTANTS
  Segments,      \* what may lie between two slashes
  StartUrl,      \* the URL that is fuzzed
  Wordlist,      \* paths-small.txt, in its order; a word may come twice
  Parameters,    \* parameters-small.txt
  Rounds,        \* what a directory answers: [baseline, answers]
  ParamRounds,   \* what the base URL answers with each parameter
  NoAnswer,      \* the request failed
  FuzzDepths     \* values of config.max_recursion_depth

FuzzUrls == [segments : Seq(Segments), slash : BOOLEAN]

Outcomes == [status : Nat, length : Nat, reflected : BOOLEAN] \cup {NoAnswer}

ASSUME FuzzAssumption ==
  /\ StartUrl \in FuzzUrls
  /\ Wordlist \in Seq([rooted : BOOLEAN, segments : Seq(Segments), slash : BOOLEAN])
  /\ \A i \in DOMAIN Wordlist : Wordlist[i].segments # <<>> \/ Wordlist[i].slash
  /\ Rounds \subseteq [baseline : Outcomes, answers : [DOMAIN Wordlist -> Outcomes]]
  /\ ParamRounds \subseteq [baseline : Outcomes, answers : [Parameters -> Outcomes]]
  /\ NoAnswer \notin [status : Nat, length : Nat, reflected : BOOLEAN]
  /\ "done" \notin Parameters
  /\ FuzzDepths \subseteq Nat

VARIABLES
  maxDepth,  \* config.max_recursion_depth
  bases,     \* the queue of directories, with their depth
  base,      \* the directory that is fuzzed
  next,      \* its next word; 0 if no directory is fuzzed
  visited,   \* visited_bases
  results,   \* all_results: [url, status, depth]; the depth is history
  params,    \* the parameters found, once they were tried
  world      \* history: [round, depth] of each directory

fuzzVars == <<maxDepth, bases, base, next, visited, results, params, world>>

InterestingStatuses == {200, 201, 204, 301, 302, 307, 308, 401, 403, 405, 500}

RecursiveStatuses == InterestingStatuses \ {405, 500}

Difference(a, b) == IF a < b THEN b - a ELSE a - b

\* Less than 64 bytes or less than 10% away from the baseline.
IsSimilar(length, baseline) ==
  LET d == Difference(length, baseline)
  IN  d < 64 \/ (baseline > 0 /\ 10 * d < baseline)

\* An answer that fuzz_paths keeps.
IsHit(answer, baseline) ==
  /\ answer # NoAnswer
  /\ answer.status \in InterestingStatuses
  /\ ~ /\ baseline # NoAnswer
       /\ answer.status = baseline.status
       /\ IsSimilar(answer.length, baseline.length)

\* The URL of a word in a directory (probe_path): the directory loses its slash, and
\* the word gets one to begin with if it has none.
Below(url, word) == [segments |-> url.segments \o word.segments, slash |-> word.slash]

\* load_dictionary fails, or the client cannot be built: no fuzzing at all.
FuzzInit ==
  /\ maxDepth \in FuzzDepths
  /\ bases = <<[url |-> StartUrl, depth |-> 0]>>
  /\ base = [url |-> StartUrl, depth |-> 0] /\ next = 0
  /\ visited = {} /\ results = <<>> /\ params = {} /\ world = << >>

\* The next directory of fuzz_paths_recursive, and its fuzz_paths.
OpenDirectory(round) ==
  /\ next = 0 /\ bases # <<>>
  /\ Head(bases).url \notin visited
  /\ base' = Head(bases) /\ bases' = Tail(bases)
  /\ next' = 1
  /\ visited' = visited \cup {Head(bases).url}
  /\ world' = [b \in visited' |-> IF b = Head(bases).url
                                 THEN [round |-> round, depth |-> Head(bases).depth] ELSE world[b]]
  /\ UNCHANGED <<maxDepth, results, params>>

\* One that was visited: the word "/" leads back to the start.
SkipDirectory ==
  /\ next = 0 /\ bases # <<>>
  /\ Head(bases).url \in visited
  /\ bases' = Tail(bases)
  /\ UNCHANGED <<maxDepth, base, next, visited, results, params, world>>

\* The result of the i-th word in a directory.
HitAt(b, i) ==
  [url |-> Below(b, Wordlist[i]), status |-> world[b].round.answers[i].status,
   depth |-> world[b].depth]

Kept(b, i) == IsHit(world[b].round.answers[i], world[b].round.baseline)

\* seen_urls
Seen(url) == \E i \in DOMAIN results : results[i].url = url

\* A hit that is kept, and the directory that it may be.
Record(hit) ==
  /\ results' = Append(results, hit)
  /\ bases' = IF base.depth < maxDepth /\ hit.status \in RecursiveStatuses
              THEN Append(bases, [url |-> hit.url, depth |-> base.depth + 1])
              ELSE bases

\* Faulty variant: seen_urls begins anew at each depth.
TakeWordAgain ==
  /\ next \in DOMAIN Wordlist
  /\ next' = next + 1
  /\ IF /\ Kept(base.url, next)
        /\ \A i \in DOMAIN results : results[i].url = HitAt(base.url, next).url =>
             results[i].depth # base.depth
     THEN Record(HitAt(base.url, next))
     ELSE UNCHANGED <<results, bases>>
  /\ UNCHANGED <<maxDepth, base, visited, params, world>>

\* The result of the next word, if its URL is new: below this directory, and below
\* all that were fuzzed before.
TakeWord ==
  /\ next \in DOMAIN Wordlist
  /\ next' = next + 1
  /\ IF Kept(base.url, next) /\ ~Seen(HitAt(base.url, next).url)
     THEN Record(HitAt(base.url, next))
     ELSE UNCHANGED <<results, bases>>
  /\ UNCHANGED <<maxDepth, base, visited, params, world>>

CloseDirectory ==
  /\ next = Len(Wordlist) + 1
  /\ next' = 0
  /\ UNCHANGED <<maxDepth, bases, base, visited, results, params, world>>

Recursed == next = 0 /\ bases = <<>>

\* A parameter is found if it changes the status or the length of the page, or
\* comes back in it.
IsParameter(answer, baseline) ==
  /\ answer # NoAnswer
  /\ \/ answer.status # baseline.status
     \/ IF baseline.length = 0 THEN answer.length > 0
        ELSE 10 * Difference(answer.length, baseline.length) > baseline.length
     \/ answer.reflected

\* fuzz_parameters, after the paths; without a baseline nothing is found.
FuzzParameters(round) ==
  /\ Recursed /\ params = {}
  /\ params' = {"done"} \cup
       (IF round.baseline = NoAnswer THEN {}
        ELSE {p \in Parameters : IsParameter(round.answers[p], round.baseline)})
  /\ UNCHANGED <<maxDepth, bases, base, next, visited, results, world>>

FuzzNext ==
  \/ \E round \in Rounds : OpenDirectory(round)
  \/ SkipDirectory \/ TakeWord \/ CloseDirectory
  \/ \E round \in ParamRounds : FuzzParameters(round)

FuzzSpec == FuzzInit /\ [][FuzzNext]_fuzzVars

-----------------------------------------------------------------------------

FuzzTypeOK ==
  /\ maxDepth \in FuzzDepths
  /\ bases \in Seq([url : FuzzUrls, depth : 0 .. maxDepth])
  /\ base \in [url : FuzzUrls, depth : 0 .. maxDepth] /\ next \in 0 .. Len(Wordlist) + 1
  /\ visited \subseteq FuzzUrls /\ world \in [visited -> [round : Rounds, depth : 0 .. maxDepth]]
  /\ results \in Seq([url : FuzzUrls, status : InterestingStatuses, depth : 0 .. maxDepth])
  /\ params \subseteq Parameters \cup {"done"}

\* The hits below a directory.
Hits(b) == {HitAt(b, i) : i \in {x \in DOMAIN Wordlist : Kept(b, x)}}

Enterable(r) == r.status \in RecursiveStatuses /\ r.depth < maxDepth

\* However the words of the directories fall together (the words /admin and /admin/
\* are two directories with the same URLs below them, and /api with the word v1 is
\* the word /api/v1), no URL is a result twice. When the recursion ends, every result
\* is a hit of a directory that was fuzzed; every hit of every such directory is among
\* the results, as it was found at the least depth, so that no URL is kept from the
\* recursion by being found deeper first; the directories that were fuzzed are exactly
\* the start and the results that can be entered, down to the limit; and a directory
\* that answers every word like its baseline adds nothing, so that such a site ends
\* the recursion.
FuzzExact ==
  /\ \A i, j \in DOMAIN results : results[i].url = results[j].url => i = j
  /\ Recursed =>
       /\ Range(results) \subseteq UNION {Hits(b) : b \in visited}
       /\ \A b \in visited : \A h \in Hits(b) :
            \E r \in Range(results) : r.url = h.url /\ r.depth <= h.depth
       /\ visited = {StartUrl} \cup {r.url : r \in {x \in Range(results) : Enterable(x)}}
       /\ \A b \in visited :
            (\A i \in DOMAIN Wordlist : world[b].round.answers[i] = world[b].round.baseline)
              => Hits(b) = {}

=============================================================================
