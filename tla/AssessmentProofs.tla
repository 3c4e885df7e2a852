--------------------------- MODULE AssessmentProofs ---------------------------
(*****************************************************************************)
(* Theorems about CveCache: whatever a scan stores while an update runs,    *)
(* and wherever earlier updates were killed, an update that came to its     *)
(* end leaves every CVE of the catalogue marked, and no row says more than  *)
(* its sources; for any NVD, any catalogue, and any technologies.           *)
(*                                                                          *)
(* Theorems about Schedule: for any repository, changed at any time, and    *)
(* any profile, no scan runs with rules older than its update, and a scan   *)
(* that comes to its policy has all its files, its row in the history and   *)
(* its notification.                                                        *)
(*                                                                          *)
(* Theorems about Verification: for any findings, rules, answers, times and *)
(* failures, verification removes only the findings that the target         *)
(* disproves and confirms only those that it shows.                         *)
(*                                                                          *)
(* Theorem about Settings: what a command is run with is what the last of   *)
(* its sources says, and a session is used as it was accepted; for any      *)
(* command line, environment, file and profiles.                            *)
(*                                                                          *)
(* Theorem about RuleScan: a rule file that validation accepts is loaded,   *)
(* and without the opt-in no request carries what the opt-in is for; for    *)
(* any directory, target and scan.                                          *)
(*                                                                          *)
(* Theorem about Reports: every report file tells what its scan found and   *)
(* the files agree; for any series of scans and any suppressions.           *)
(*****************************************************************************)
EXTENDS CveCache, Schedule, Verification, Settings, RuleScan, Reports, FiniteSetTheorems,
        SequenceTheorems, WellFoundedInduction, TLAPS

\* CveCache: the update against the scan.

UpdaterPlaces == {"idle", "kev", "seed", "nvd", "store", "mark", "done", "failed"}
ScannerPlaces == {"query", "fetch", "store"}

CacheTypes ==
  /\ db \in [Cves -> Rows \cup {NoEntry}]
  /\ updater \in [pc : UpdaterPlaces, cpes : Seq(Cpes), todo : SUBSET Cves]
  /\ scanner \in [pc : ScannerPlaces, techs : Seq(Cpes \cup {NoCpe}), todo : SUBSET Cves,
                  tries : Nat]

\* A row says no more than its sources: what `todo` still holds comes from the list
\* of the CPE that it was fetched for.
RowOk(cve, row) ==
  row # NoEntry =>
    /\ row.kev => cve \in Catalogue
    /\ \A cpe \in row.cpes : cve \in Nvd[cpe]
    /\ row.cpes # {} => row.severity >= Rating[cve]
    /\ "cisa_kev" \in row.source => row.kev

Fetched ==
  /\ updater.pc = "store" => updater.cpes # <<>> /\ updater.todo \subseteq Nvd[Head(updater.cpes)]
  /\ updater.pc \in {"seed", "mark"} => updater.todo \subseteq Catalogue
  /\ scanner.pc \in {"fetch", "store"} => scanner.techs # <<>> /\ Head(scanner.techs) # NoCpe
  /\ scanner.pc = "store" => scanner.todo \subseteq Nvd[Head(scanner.techs)]

\* How far the update has come: the catalogue is in the table when NVD is asked, and
\* marked at the end.
Present(cve) == db[cve] # NoEntry
Marked(cve) == db[cve] # NoEntry /\ db[cve].kev

Progress ==
  /\ updater.pc = "seed" => \A cve \in Catalogue \ updater.todo : Present(cve)
  /\ updater.pc \in {"nvd", "store", "mark"} => \A cve \in Catalogue : Present(cve)
  /\ updater.pc = "mark" => \A cve \in Catalogue \ updater.todo : Marked(cve)
  /\ updater.pc = "done" => \A cve \in Catalogue : Marked(cve)

FindingsOk == \A f \in reported : f.cve \in Nvd[f.cpe] /\ (f.kev => f.cve \in Catalogue)

CacheInv ==
  CacheTypes /\ Fetched /\ Progress /\ FindingsOk /\ \A cve \in Cves : RowOk(cve, db[cve])

-----------------------------------------------------------------------------
(* What the statements of db.rs do to a row.                                *)

LEMMA ListedCves ==
  /\ \A cpe \in Cpes : Nvd[cpe] \subseteq Cves
  /\ Catalogue \subseteq Cves
PROOF
  <1>1. ASSUME NEW cpe \in Cpes PROVE Nvd[cpe] \subseteq Cves
    BY <1>1 DEF Cves
  <1>2. Catalogue \subseteq Cves
    BY DEF Cves
  <1> QED
    BY <1>1, <1>2

\* A table in which one row was replaced by a better one.
Written(cve, row) ==
  /\ db' = [db EXCEPT ![cve] = row]
  /\ row \in Rows /\ RowOk(cve, row)
  /\ db[cve] # NoEntry => (db[cve].kev => row.kev)

LEMMA UpsertWrites ==
  ASSUME CacheTypes, \A c \in Cves : RowOk(c, db[c]), NEW cpe \in Cpes, NEW cve \in Nvd[cpe],
         db' = Upsert(cve, FromNvd(cve, cpe))
  PROVE  \E row : Written(cve, row)
PROOF
  <1> DEFINE new == [cpes |-> {cpe}, severity |-> Rating[cve], kev |-> FALSE, source |-> {"nvd"}]
             joined == [cpes |-> {cpe}, severity |-> Rating[cve], kev |-> TRUE,
                        source |-> {"nvd", "cisa_kev"}]
  <1>0. cve \in Cves /\ Rating[cve] \in 0 .. 4 /\ FromNvd(cve, cpe) = new
    BY ListedCves, CacheAssumption DEF FromNvd
  <1>1. CASE db[cve] # NoEntry /\ db[cve].kev
    <2>1. cve \in Catalogue
      BY <1>0, <1>1 DEF RowOk
    <2>2. db' = [db EXCEPT ![cve] = joined]
      <3>1. db' = [db EXCEPT ![cve] = [new EXCEPT !.kev = TRUE,
                                                  !.source = new.source \cup {"cisa_kev"}]]
        BY <1>0, <1>1 DEF Upsert, CacheTypes
      <3> QED
        BY <3>1
    <2>3. joined \in Rows /\ RowOk(cve, joined) /\ joined.kev
      BY <1>0, <2>1 DEF Rows, RowOk
    <2> HIDE DEF joined
    <2> QED
      BY <2>2, <2>3 DEF Written
  <1>2. CASE ~(db[cve] # NoEntry /\ db[cve].kev)
    <2>1. db' = [db EXCEPT ![cve] = new]
      BY <1>0, <1>2 DEF Upsert, CacheTypes
    <2>2. new \in Rows /\ RowOk(cve, new)
      BY <1>0 DEF Rows, RowOk
    <2> HIDE DEF new
    <2> QED
      BY <1>2, <2>1, <2>2 DEF Written
  <1> QED
    BY <1>1, <1>2

LEMMA SeedWrites ==
  ASSUME CacheTypes, NEW cve \in Catalogue, db' = Seed(cve)
  PROVE  (db' = db /\ Present(cve)) \/ \E row : Written(cve, row)
PROOF
  <1> DEFINE row == [cpes |-> {}, severity |-> 3, kev |-> TRUE, source |-> {"cisa_kev"}]
  <1>0. cve \in Cves
    BY ListedCves
  <1>1. CASE db[cve] = NoEntry
    <2>1. db' = [db EXCEPT ![cve] = row]
      BY <1>0, <1>1 DEF Seed, CacheTypes
    <2>2. row \in Rows /\ RowOk(cve, row)
      BY DEF Rows, RowOk
    <2> QED
      BY <1>1, <2>1, <2>2 DEF Written
  <1>2. CASE db[cve] # NoEntry
    BY <1>0, <1>2 DEF Seed, CacheTypes, Present
  <1> QED
    BY <1>1, <1>2

LEMMA MarkWrites ==
  ASSUME CacheTypes, \A c \in Cves : RowOk(c, db[c]), NEW cve \in Catalogue, db[cve] # NoEntry,
         db' = Mark(cve)
  PROVE  \E row : Written(cve, row) /\ row.kev
PROOF
  <1> DEFINE old == db[cve]
             row == [cpes |-> old.cpes, kev |-> TRUE,
                     severity |-> IF old.severity < 4 THEN old.severity + 1 ELSE old.severity,
                     source |-> IF old.source = {"nvd"} THEN {"nvd", "cisa_kev"} ELSE old.source]
  <1>0. cve \in Cves
    BY ListedCves
  <1>1. old \in Rows
    BY <1>0 DEF CacheTypes
  <1>2. db' = [db EXCEPT ![cve] = row]
    BY DEF Mark
  <1>3. row.kev
    OBVIOUS
  <1>4. row \in Rows
    <2>1. /\ old.severity \in 0 .. 4 /\ old.source \in SUBSET {"nvd", "cisa_kev"}
          /\ old.cpes \in SUBSET Cpes
      BY <1>1 DEF Rows
    <2>2. (IF old.severity < 4 THEN old.severity + 1 ELSE old.severity) \in 0 .. 4
      BY <2>1
    <2> QED
      BY <1>1, <2>1, <2>2 DEF Rows
  <1>5. RowOk(cve, row)
    <2>1. /\ \A cpe \in old.cpes : cve \in Nvd[cpe]
          /\ old.cpes # {} => old.severity >= Rating[cve]
          /\ old.severity \in 0 .. 4 /\ old.cpes \in SUBSET Cpes
      BY <1>0, <1>1 DEF RowOk, Rows
    <2>2. old.cpes # {} => Rating[cve] \in 0 .. 4
      BY <2>1, CacheAssumption
    <2>3. old.cpes # {} => row.severity >= Rating[cve]
      BY <1>3, <2>1, <2>2
    <2> QED
      BY <1>3, <2>1, <2>3 DEF RowOk
  <1> HIDE DEF row, old
  <1>6. Written(cve, row) /\ row.kev
    BY <1>2, <1>3, <1>4, <1>5 DEF Written
  <1> QED
    BY <1>6

\* A write keeps every row right, present and marked.
LEMMA WriteKeeps ==
  ASSUME CacheTypes, \A c \in Cves : RowOk(c, db[c]), NEW cve \in Cves, NEW row,
         Written(cve, row)
  PROVE  /\ db' \in [Cves -> Rows \cup {NoEntry}]
         /\ \A c \in Cves : RowOk(c, db'[c])
         /\ Present(cve)' /\ (row.kev => Marked(cve)')
         /\ \A c \in Cves : (Present(c) => Present(c)') /\ (Marked(c) => Marked(c)')
PROOF
  <1>1. row # NoEntry
    BY CacheAssumption DEF Written
  <1>2. db'[cve] = row /\ \A c \in Cves \ {cve} : db'[c] = db[c]
    BY DEF Written, CacheTypes
  <1>3. db' \in [Cves -> Rows \cup {NoEntry}]
    BY DEF Written, CacheTypes
  <1>4. \A c \in Cves : RowOk(c, db'[c])
    BY <1>2 DEF Written
  <1> QED
    BY <1>1, <1>2, <1>3, <1>4 DEF Written, Present, Marked

-----------------------------------------------------------------------------
(* The steps of the update.                                                 *)

\* What a step that writes leaves as it was: the rows, and how far the update is.
Better ==
  /\ db' \in [Cves -> Rows \cup {NoEntry}]
  /\ \A c \in Cves : RowOk(c, db'[c])
  /\ \A c \in Cves : (Present(c) => Present(c)') /\ (Marked(c) => Marked(c)')

LEMMA SameTable ==
  ASSUME CacheInv, db' = db
  PROVE  Better
PROOF
  BY DEF CacheInv, CacheTypes, Better, Present, Marked

LEMMA UpsertBetter ==
  ASSUME CacheInv, NEW cpe \in Cpes, NEW cve \in Nvd[cpe], db' = Upsert(cve, FromNvd(cve, cpe))
  PROVE  Better
PROOF
  <1>1. cve \in Cves
    BY ListedCves
  <1>2. PICK row : Written(cve, row)
    BY UpsertWrites DEF CacheInv
  <1> QED
    BY <1>1, <1>2, WriteKeeps DEF CacheInv, Better

LEMMA StartKeeps ==
  ASSUME CacheInv, NEW cpes \in Seq(Cpes), StartUpdate(cpes)
  PROVE  CacheInv'
PROOF
  BY SameTable DEF StartUpdate, CacheInv, CacheTypes, Fetched, Progress, FindingsOk, UpdaterPlaces,
                   Present, Marked, scanning

LEMMA FetchSteps ==
  ASSUME CacheInv, FetchFails \/ FetchKev \/ StartMarking \/ KillUpdate
  PROVE  CacheInv'
PROOF
  <1>1. CASE FetchFails
    BY <1>1 DEF FetchFails, CacheInv, CacheTypes, Fetched, Progress, FindingsOk, UpdaterPlaces,
                Present, Marked, scanning
  <1>2. CASE FetchKev
    BY <1>2, ListedCves DEF FetchKev, CacheInv, CacheTypes, Fetched, Progress, FindingsOk,
                            UpdaterPlaces, Present, Marked, scanning
  <1>3. CASE StartMarking
    BY <1>3, ListedCves DEF StartMarking, CacheInv, CacheTypes, Fetched, Progress, FindingsOk,
                            UpdaterPlaces, Present, Marked, scanning
  <1>4. CASE KillUpdate
    BY <1>4 DEF KillUpdate, CacheInv, CacheTypes, Fetched, Progress, FindingsOk, UpdaterPlaces,
                Present, Marked, scanning
  <1> QED
    BY <1>1, <1>2, <1>3, <1>4

LEMMA FetchNvdKeeps ==
  ASSUME CacheInv, FetchNvd
  PROVE  CacheInv'
PROOF
  <1>1. Head(updater.cpes) \in Cpes
    BY HeadTailProperties DEF FetchNvd, CacheInv, CacheTypes
  <1>2. Nvd[Head(updater.cpes)] \subseteq Cves
    BY <1>1, ListedCves
  <1> QED
    BY <1>2 DEF FetchNvd, CacheInv, CacheTypes, Fetched, Progress, FindingsOk, UpdaterPlaces,
                Present, Marked, scanning

LEMMA SeedKeeps ==
  ASSUME CacheInv, SeedOne
  PROVE  CacheInv'
PROOF
  <1>1. CASE updater.todo = {} /\ updater' = [updater EXCEPT !.pc = "nvd"] /\ db' = db
    BY <1>1 DEF SeedOne, CacheInv, CacheTypes, Fetched, Progress, FindingsOk, UpdaterPlaces,
                Present, Marked, scanning
  <1>2. ASSUME NEW cve \in updater.todo, db' = Seed(cve),
               updater' = [updater EXCEPT !.todo = @ \ {cve}]
        PROVE  CacheInv'
    <2>1. updater.pc = "seed" /\ cve \in Catalogue /\ cve \in Cves
      BY ListedCves DEF SeedOne, CacheInv, Fetched
    <2>2. Better /\ Present(cve)'
      <3>1. CASE db' = db /\ Present(cve)
        BY <3>1, SameTable DEF Present
      <3>2. CASE \E row : Written(cve, row)
        BY <2>1, <3>2, WriteKeeps DEF CacheInv, Better
      <3> QED
        BY <1>2, <2>1, <3>1, <3>2, SeedWrites DEF CacheInv
    <2>3. updater' = [pc |-> "seed", cpes |-> updater.cpes, todo |-> updater.todo \ {cve}]
      BY <1>2, <2>1 DEF CacheInv, CacheTypes
    <2>4. CacheTypes'
      BY <2>2, <2>3 DEF SeedOne, CacheInv, CacheTypes, Better, UpdaterPlaces, scanning
    <2>5. Fetched'
      BY <2>1, <2>3 DEF SeedOne, CacheInv, Fetched, scanning
    <2>6. Progress'
      BY <2>1, <2>2, <2>3, ListedCves DEF CacheInv, Progress, Better
    <2> QED
      BY <2>2, <2>4, <2>5, <2>6 DEF SeedOne, CacheInv, FindingsOk, Better, scanning
  <1> QED
    BY <1>1, <1>2 DEF SeedOne

LEMMA StoreOneKeeps ==
  ASSUME CacheInv, StoreOne
  PROVE  CacheInv'
PROOF
  <1>0. updater.cpes # <<>> /\ Head(updater.cpes) \in Cpes /\ Tail(updater.cpes) \in Seq(Cpes)
    BY HeadTailProperties DEF StoreOne, CacheInv, CacheTypes, Fetched
  <1>1. CASE updater.todo = {} /\ updater' = [updater EXCEPT !.pc = "nvd", !.cpes = Tail(@)]
             /\ db' = db
    BY <1>0, <1>1 DEF StoreOne, CacheInv, CacheTypes, Fetched, Progress, FindingsOk, UpdaterPlaces,
                      Present, Marked, scanning
  <1>2. ASSUME NEW cve \in updater.todo,
               db' = Upsert(cve, FromNvd(cve, Head(updater.cpes))),
               updater' = [updater EXCEPT !.todo = @ \ {cve}]
        PROVE  CacheInv'
    <2>1. updater.pc = "store" /\ cve \in Nvd[Head(updater.cpes)]
      BY DEF StoreOne, CacheInv, Fetched
    <2>2. Better
      BY <1>0, <1>2, <2>1, UpsertBetter
    <2>3. updater' = [pc |-> "store", cpes |-> updater.cpes, todo |-> updater.todo \ {cve}]
      BY <1>2, <2>1 DEF CacheInv, CacheTypes
    <2>4. CacheTypes'
      BY <2>2, <2>3 DEF StoreOne, CacheInv, CacheTypes, Better, UpdaterPlaces, scanning
    <2>5. Fetched'
      BY <2>1, <2>3 DEF StoreOne, CacheInv, Fetched, scanning
    <2>6. Progress'
      BY <2>1, <2>2, <2>3, ListedCves DEF CacheInv, Progress, Better
    <2> QED
      BY <2>2, <2>4, <2>5, <2>6 DEF StoreOne, CacheInv, FindingsOk, Better, scanning
  <1> QED
    BY <1>1, <1>2 DEF StoreOne

LEMMA MarkKeeps ==
  ASSUME CacheInv, MarkOne
  PROVE  CacheInv'
PROOF
  <1>1. CASE updater.todo = {} /\ updater' = [updater EXCEPT !.pc = "done"] /\ db' = db
    BY <1>1 DEF MarkOne, CacheInv, CacheTypes, Fetched, Progress, FindingsOk, UpdaterPlaces,
                Present, Marked, scanning
  <1>2. ASSUME NEW cve \in updater.todo, db' = Mark(cve),
               updater' = [updater EXCEPT !.todo = @ \ {cve}]
        PROVE  CacheInv'
    <2>1. updater.pc = "mark" /\ cve \in Catalogue /\ cve \in Cves
      BY ListedCves DEF MarkOne, CacheInv, Fetched
    <2>2. db[cve] # NoEntry
      BY <2>1 DEF CacheInv, Progress, Present
    <2>3. PICK row : Written(cve, row) /\ row.kev
      BY <1>2, <2>1, <2>2, MarkWrites DEF CacheInv
    <2>4. Better /\ Marked(cve)'
      BY <2>1, <2>3, WriteKeeps DEF CacheInv, Better
    <2>5. updater' = [pc |-> "mark", cpes |-> updater.cpes, todo |-> updater.todo \ {cve}]
      BY <1>2, <2>1 DEF CacheInv, CacheTypes
    <2>6. CacheTypes'
      BY <2>4, <2>5 DEF MarkOne, CacheInv, CacheTypes, Better, UpdaterPlaces, scanning
    <2>7. Fetched'
      BY <2>1, <2>5 DEF MarkOne, CacheInv, Fetched, scanning
    <2>8. Progress'
      BY <2>1, <2>4, <2>5, ListedCves DEF CacheInv, Progress, Better
    <2> QED
      BY <2>4, <2>6, <2>7, <2>8 DEF MarkOne, CacheInv, FindingsOk, Better, scanning
  <1> QED
    BY <1>1, <1>2 DEF MarkOne

-----------------------------------------------------------------------------
(* The steps of a scan.                                                     *)

\* A step of the scan does not move the update, and no row it writes loses its mark.
LEMMA ScanKeeps ==
  ASSUME CacheInv, Better, UNCHANGED updating, FindingsOk',
         scanner' \in [pc : ScannerPlaces, techs : Seq(Cpes \cup {NoCpe}), todo : SUBSET Cves,
                       tries : Nat],
         scanner'.pc \in {"fetch", "store"} => scanner'.techs # <<>> /\ Head(scanner'.techs) # NoCpe,
         scanner'.pc = "store" => scanner'.todo \subseteq Nvd[Head(scanner'.techs)]
  PROVE  CacheInv'
PROOF
  <1>1. CacheTypes'
    BY DEF CacheInv, CacheTypes, Better, updating
  <1>2. Fetched'
    BY DEF CacheInv, Fetched, updating
  <1>3. Progress'
    BY ListedCves DEF CacheInv, Progress, Better, updating
  <1> QED
    BY <1>1, <1>2, <1>3 DEF CacheInv, Better

LEMMA TechsTyped ==
  ASSUME CacheInv, scanner.techs # <<>>
  PROVE  /\ Head(scanner.techs) \in Cpes \cup {NoCpe}
         /\ Tail(scanner.techs) \in Seq(Cpes \cup {NoCpe})
PROOF
  <1> DEFINE T == Cpes \cup {NoCpe}
  <1>1. scanner.techs \in Seq(T)
    BY DEF CacheInv, CacheTypes
  <1> HIDE DEF T
  <1>2. Head(scanner.techs) \in T /\ Tail(scanner.techs) \in Seq(T)
    BY <1>1, HeadTailProperties
  <1> QED
    BY <1>2 DEF T

LEMMA ScanSteps ==
  ASSUME CacheInv, CheckCves
  PROVE  CacheInv'
PROOF
  <1>0. scanner.techs # <<>>
    BY DEF CheckCves, SkipTech, Query, FailFetch, Fetch, Store, CacheInv, Fetched
  <1> DEFINE cpe == Head(scanner.techs)
             idle == [pc |-> "query", techs |-> Tail(scanner.techs), todo |-> {}, tries |-> 0]
  <1>1. cpe \in Cpes \cup {NoCpe} /\ NextTech = idle
        /\ idle \in [pc : ScannerPlaces, techs : Seq(Cpes \cup {NoCpe}), todo : SUBSET Cves,
                     tries : Nat]
    BY <1>0, TechsTyped DEF ScannerPlaces, NextTech
  <1>2. ASSUME scanner' = NextTech, Better, UNCHANGED updating, FindingsOk'
        PROVE  CacheInv'
    <2>1. scanner'.pc = "query"
      BY <1>1, <1>2
    <2> HIDE DEF idle
    <2> QED
      BY <1>1, <1>2, <2>1, ScanKeeps
  <1> HIDE DEF idle
  <1>3. CASE SkipTech
    BY <1>2, <1>3, SameTable DEF SkipTech, CacheInv, FindingsOk
  <1>4. CASE Query
    <2>1. cpe \in Cpes
      BY <1>1, <1>4 DEF Query
    <2>2. CASE Cached(cpe) = {}
      <3>1. scanner' = [scanner EXCEPT !.pc = "fetch"] /\ FindingsOk' /\ Better
            /\ UNCHANGED updating
        BY <1>4, <2>2, SameTable DEF Query, CacheInv, FindingsOk
      <3>2. scanner' \in [pc : ScannerPlaces, techs : Seq(Cpes \cup {NoCpe}), todo : SUBSET Cves,
                          tries : Nat] /\ scanner'.pc = "fetch" /\ scanner'.techs = scanner.techs
        BY <3>1 DEF CacheInv, CacheTypes, ScannerPlaces
      <3> QED
        BY <1>0, <1>4, <3>1, <3>2, ScanKeeps DEF Query
    <2>3. CASE Cached(cpe) # {}
      <3>1. reported' = reported \cup {Finding(c, cpe, db[c]) : c \in Cached(cpe)}
            /\ scanner' = NextTech /\ UNCHANGED updating /\ db' = db
        BY <1>4, <2>3 DEF Query
      <3>2. \A c \in Cached(cpe) : c \in Nvd[cpe] /\ (db[c].kev => c \in Catalogue)
        BY DEF Cached, CacheInv, RowOk
      <3>3. FindingsOk'
        BY <3>1, <3>2 DEF CacheInv, FindingsOk, Finding
      <3> QED
        BY <1>2, <3>1, <3>3, SameTable
    <2> QED
      BY <2>2, <2>3
  <1>5. CASE FailFetch
    <2>1. db' = db /\ UNCHANGED updating /\ FindingsOk' /\ Better
      BY <1>5, SameTable DEF FailFetch, CacheInv, FindingsOk
    <2>2. CASE scanner' = [scanner EXCEPT !.tries = @ + 1]
      <3>1. scanner' \in [pc : ScannerPlaces, techs : Seq(Cpes \cup {NoCpe}), todo : SUBSET Cves,
                          tries : Nat] /\ scanner'.pc = "fetch" /\ scanner'.techs = scanner.techs
        BY <1>5, <2>2 DEF FailFetch, CacheInv, CacheTypes, ScannerPlaces
      <3> QED
        BY <1>5, <2>1, <3>1, ScanKeeps DEF FailFetch, CacheInv, Fetched
    <2> QED
      BY <1>2, <1>5, <2>1, <2>2 DEF FailFetch
  <1>6. CASE Fetch
    <2>1. cpe \in Cpes /\ Nvd[cpe] \subseteq Cves
      BY <1>1, <1>6, ListedCves DEF Fetch, CacheInv, Fetched
    <2>2. db' = db /\ UNCHANGED updating
          /\ scanner' = [scanner EXCEPT !.pc = "store", !.todo = Nvd[cpe]]
          /\ reported' = reported \cup {Finding(c, cpe, FromNvd(c, cpe)) : c \in Nvd[cpe]}
      BY <1>6 DEF Fetch
    <2>3. scanner' \in [pc : ScannerPlaces, techs : Seq(Cpes \cup {NoCpe}), todo : SUBSET Cves,
                        tries : Nat] /\ scanner'.pc = "store" /\ scanner'.techs = scanner.techs
                        /\ scanner'.todo = Nvd[cpe]
      BY <2>1, <2>2 DEF CacheInv, CacheTypes, ScannerPlaces
    <2>4. FindingsOk'
      BY <2>2 DEF CacheInv, FindingsOk, Finding, FromNvd
    <2>5. cpe # NoCpe
      BY <1>6 DEF Fetch, CacheInv, Fetched
    <2> QED
      BY <1>0, <2>2, <2>3, <2>4, <2>5, SameTable, ScanKeeps
  <1>7. CASE Store
    <2>1. cpe \in Cpes /\ scanner.pc = "store" /\ cpe # NoCpe /\ scanner.todo \subseteq Nvd[cpe]
          /\ UNCHANGED updating /\ FindingsOk'
      BY <1>1, <1>7 DEF Store, CacheInv, Fetched, FindingsOk
    <2>2. CASE scanner' = NextTech /\ db' = db
      BY <1>2, <2>1, <2>2, SameTable
    <2>3. ASSUME NEW cve \in scanner.todo, db' = Upsert(cve, FromNvd(cve, cpe)),
                 scanner' = [scanner EXCEPT !.todo = @ \ {cve}]
          PROVE  CacheInv'
      <3>1. Better
        BY <2>1, <2>3, UpsertBetter
      <3>2. scanner' \in [pc : ScannerPlaces, techs : Seq(Cpes \cup {NoCpe}), todo : SUBSET Cves,
                          tries : Nat] /\ scanner'.pc = "store" /\ scanner'.techs = scanner.techs
                          /\ scanner'.todo = scanner.todo \ {cve}
        BY <2>1, <2>3 DEF CacheInv, CacheTypes, ScannerPlaces
      <3> QED
        BY <1>0, <2>1, <3>1, <3>2, ScanKeeps
    <2> QED
      BY <1>7, <2>2, <2>3 DEF Store
  <1> QED
    BY <1>3, <1>4, <1>5, <1>6, <1>7 DEF CheckCves

-----------------------------------------------------------------------------

LEMMA CacheInitial == CacheInit => CacheInv
PROOF
  <1> SUFFICES ASSUME CacheInit PROVE CacheInv
    OBVIOUS
  <1>1. PICK techs \in Techs : scanner = [pc |-> "query", techs |-> techs, todo |-> {}, tries |-> 0]
    BY DEF CacheInit
  <1>2. techs \in Seq(Cpes \cup {NoCpe})
    BY CacheAssumption
  <1>3. CacheTypes
    BY <1>1, <1>2, EmptySeq DEF CacheInit, CacheTypes, UpdaterPlaces, ScannerPlaces
  <1> QED
    BY <1>1, <1>3 DEF CacheInit, CacheInv, Fetched, Progress, FindingsOk, RowOk

LEMMA CacheStep == CacheInv /\ [CacheNext]_cveVars => CacheInv'
PROOF
  <1> SUFFICES ASSUME CacheInv, [CacheNext]_cveVars PROVE CacheInv'
    OBVIOUS
  <1>1. CASE \E cpes \in Techs : cpes \in Seq(Cpes) /\ StartUpdate(cpes)
    BY <1>1, StartKeeps
  <1>2. CASE Update
    BY <1>2, FetchSteps, FetchNvdKeeps, SeedKeeps, StoreOneKeeps, MarkKeeps DEF Update
  <1>3. CASE KillUpdate
    BY <1>3, FetchSteps
  <1>4. CASE CheckCves
    BY <1>4, ScanSteps
  <1>5. CASE UNCHANGED cveVars
    BY <1>5 DEF cveVars, CacheInv, CacheTypes, Fetched, Progress, FindingsOk, Present, Marked
  <1> QED
    BY <1>1, <1>2, <1>3, <1>4, <1>5 DEF CacheNext

\* For any NVD, catalogue and technologies: an update that ended has marked the whole
\* catalogue, and neither a row nor a finding says more than NVD and the catalogue
\* (db.rs and lib.rs of cve_client).
THEOREM CveAlwaysConsistent == CacheSpec => []CveConsistent
PROOF
  <1>1. CacheInv => CveConsistent
    BY DEF CacheInv, Progress, Marked, RowOk, FindingsOk, CveConsistent
  <1> QED
    BY <1>1, CacheInitial, CacheStep, PTL DEF CacheSpec

-----------------------------------------------------------------------------

\* Schedule: the files of a scan.

Files0 == [path : Paths, version : Nat]
Rules0 == [Names -> Files0 \cup {NoRules}]

Early == {"scope", "session", "update", "download", "ports", "scan"}
Late == {"policy", "policy failed", "sleep", "done"}
Places == Early \cup Late \cup {"report", "webhook", "failed"}

\* The kinds of files of a report.
Kinds == {Artifacts[i] : i \in 1 .. 9} \cup {"audit"}

ScheduleTypes ==
  /\ profile \in Profiles
  /\ version \in Versions
  /\ place \in Places
  /\ downloads \in Seq(Paths)
  /\ since \in Versions \cup {0}
  /\ rules \in Rules0
  /\ scans \in Seq([rules : Rules0, since : Versions \cup {0}])
  /\ written \in Seq(Kinds)
  /\ history \in Nat /\ notified \in Nat

\* The first k files of the manifest of version v are there, as new as the manifest.
Fresh(dir, v, k) ==
  \A i \in 1 .. k :
    (\A j \in 1 .. k : i < j => Manifests[v][j].name # Manifests[v][i].name) =>
      LET file == dir[Manifests[v][i].name]
      IN  file # NoRules /\ file.path = Manifests[v][i] /\ file.version >= v

\* What is left to download is the end of the manifest, and what came before is there.
Downloading ==
  LET manifest == Manifests[since]
      done == Len(manifest) - Len(downloads)
  IN  /\ since \in Versions /\ since <= version
      /\ Len(downloads) <= Len(manifest)
      /\ \A i \in 1 .. Len(downloads) : downloads[i] = manifest[done + i]
      /\ Fresh(rules, since, done)

RulesFresh ==
  /\ place = "download" => Downloading
  /\ place \in {"ports", "scan"} /\ profile.update =>
       since \in Versions /\ Fresh(rules, since, Len(Manifests[since]))
  /\ \A s \in 1 .. Len(scans) : profile.update =>
       /\ scans[s].since \in Versions
       /\ Fresh(scans[s].rules, scans[s].since, Len(Manifests[scans[s].since]))

\* No rule file is ever deleted.
RulesKept ==
  /\ \A s \in 1 .. Len(scans) : \A n \in Names :
       scans[s].rules[n] # NoRules => rules[n] # NoRules
  /\ \A s, t \in 1 .. Len(scans) : s < t => \A n \in Names :
       scans[s].rules[n] # NoRules => scans[t].rules[n] # NoRules

Webhooks(n) == IF profile.webhook THEN n ELSE 0

\* One row and one notification for each scan; the last scan may still lack its own.
OutputsComplete ==
  LET n == Len(scans)
  IN  /\ place \in {"update", "download", "ports", "scan"} => written = <<>>
      /\ place \in Early => history = n /\ notified = Webhooks(n)
      /\ place = "report" =>
           /\ n > 0 /\ Len(written) <= Len(Files)
           /\ \A i \in 1 .. Len(written) : written[i] = Files[i]
           /\ history = (IF Len(written) = 0 THEN n - 1 ELSE n) /\ notified = Webhooks(n - 1)
      /\ place = "webhook" =>
           n > 0 /\ written = Files /\ history = n /\ notified = n - 1 /\ profile.webhook
      /\ place \in Late => written = Files /\ history = n /\ notified = Webhooks(n)
      /\ place = "failed" => notified <= history /\ history <= n /\ n <= history + 1

ScheduleInv == ScheduleTypes /\ RulesFresh /\ RulesKept /\ OutputsComplete

-----------------------------------------------------------------------------
(* The constants, and the two operators over a manifest and the files.      *)

LEMMA VersionFacts ==
  /\ 1 \in Versions /\ 0 \notin Versions
  /\ \A v \in Versions : /\ v \in Nat
                         /\ Manifests[v] \in Seq(Paths) /\ Len(Manifests[v]) \in Nat
                         /\ \A i \in 1 .. Len(Manifests[v]) : Manifests[v][i] \in Paths
PROOF
  <1>1. /\ Manifests \in Seq(Seq(Paths)) /\ Manifests # <<>>
    BY ScheduleAssumption
  <1>2. Len(Manifests) \in Nat \ {0} /\ Versions = 1 .. Len(Manifests)
    BY <1>1, EmptySeq, LenProperties DEF Versions
  <1>3. \A v \in Versions : Manifests[v] \in Seq(Paths)
    BY <1>1, <1>2, ElementOfSeq
  <1>4. \A v \in Versions : Len(Manifests[v]) \in Nat
    BY <1>3, LenProperties
  <1>5. \A v \in Versions : \A i \in 1 .. Len(Manifests[v]) : Manifests[v][i] \in Paths
    BY <1>3, ElementOfSeq
  <1> QED
    BY <1>2, <1>3, <1>4, <1>5

LEMMA NameOfPath ==
  ASSUME NEW p \in Paths
  PROVE  p.name \in Names
PROOF
  BY DEF Names

LEMMA FilesFacts ==
  /\ Files \in Seq(Kinds) /\ Len(Files) \in Nat \ {0}
  /\ Files[1] = "history" /\ \A i \in 2 .. Len(Files) : Files[i] # "history"
PROOF
  <1> DEFINE all == <<"history", "json", "html", "pdf", "graph", "trend", "sarif", "markdown",
                      "graph cache">>
  <1>1. Len(all) = 9 /\ all[1] = "history"
    OBVIOUS
  <1>2. Artifacts = all /\ DOMAIN all = 1 .. 9
    BY DEF Artifacts
  <1>3. \A i \in 2 .. 9 : all[i] # "history"
    <2> TAKE i \in 2 .. 9
    <2>1. i = 2 \/ i = 3 \/ i = 4 \/ i = 5 \/ i = 6 \/ i = 7 \/ i = 8 \/ i = 9
      OBVIOUS
    <2>2. /\ all[2] # "history" /\ all[3] # "history" /\ all[4] # "history"
          /\ all[5] # "history" /\ all[6] # "history" /\ all[7] # "history"
          /\ all[8] # "history" /\ all[9] # "history"
      OBVIOUS
    <2> HIDE DEF all
    <2> QED
      BY <2>1, <2>2
  <1>4. all = [i \in 1 .. 9 |-> all[i]]
    OBVIOUS
  <1> HIDE DEF all
  <1>5. all \in Seq(Kinds) /\ "audit" \in Kinds
    <2>1. \A i \in 1 .. 9 : all[i] \in Kinds
      BY <1>2 DEF Kinds
    <2>2. all \in [1 .. 9 -> Kinds]
      BY <1>4, <2>1
    <2>3. all \in Seq(Kinds)
      BY <2>2, SeqDef
    <2> QED
      BY <2>3 DEF Kinds
  <1> DEFINE audit == "audit"
  <1>6. audit \in Kinds /\ audit # "history" /\ audit = "audit"
    BY <1>5
  <1> HIDE DEF audit
  <1>7. /\ Append(all, audit) \in Seq(Kinds) /\ Len(Append(all, audit)) = 10
        /\ \A i \in 1 .. 9 : Append(all, audit)[i] = all[i]
        /\ Append(all, audit)[10] = audit
    <2>1. /\ Append(all, audit) \in Seq(Kinds) /\ Len(Append(all, audit)) = Len(all) + 1
          /\ \A i \in 1 .. Len(all) : Append(all, audit)[i] = all[i]
          /\ Append(all, audit)[Len(all) + 1] = audit
      BY <1>5, <1>6, AppendProperties
    <2> QED
      BY <1>1, <2>1
  <1>8. \A i \in 2 .. 10 : Append(all, audit)[i] # "history"
    <2> TAKE i \in 2 .. 10
    <2>1. CASE i = 10
      BY <1>7, <1>6, <2>1
    <2>2. CASE i # 10
      BY <1>3, <1>7, <2>2
    <2> QED
      BY <2>1, <2>2
  <1>9. CASE profile.audit
    <2>1. Files = Append(all, audit)
      BY <1>2, <1>9, <1>6 DEF Files
    <2> QED
      BY <1>1, <1>7, <1>8, <2>1
  <1>10. CASE ~profile.audit
    <2>1. Files = all
      BY <1>2, <1>10 DEF Files
    <2>2. all \in Seq(Kinds)
      BY <1>5
    <2>3. Len(Files) = 9
      BY <1>1, <2>1
    <2>4. Files[1] = "history" /\ \A i \in 2 .. 9 : Files[i] # "history"
      BY <1>1, <1>3, <2>1
    <2> QED
      BY <2>1, <2>2, <2>3, <2>4
  <1> QED
    BY <1>9, <1>10

\* A download makes one more file of the manifest fresh.
LEMMA FreshGrows ==
  ASSUME NEW dir \in Rules0, NEW v \in Versions, NEW k \in Nat, k < Len(Manifests[v]),
         Fresh(dir, v, k), NEW got \in Nat, got >= v, NEW new,
         new = [dir EXCEPT ![Manifests[v][k + 1].name] =
                  [path |-> Manifests[v][k + 1], version |-> got]]
  PROVE  Fresh(new, v, k + 1)
PROOF
  <1> DEFINE path == Manifests[v][k + 1]
             file == [path |-> path, version |-> got]
  <1>1. path \in Paths /\ path.name \in Names
    BY VersionFacts, NameOfPath
  <1>2. new[path.name] = file /\ \A n \in Names : n # path.name => new[n] = dir[n]
    BY <1>1 DEF Rules0
  <1>3. file # NoRules /\ file.path = path /\ file.version = got
    BY <1>1, ScheduleAssumption
  <1> HIDE DEF path, file
  <1> SUFFICES ASSUME NEW i \in 1 .. k + 1,
                      \A j \in 1 .. k + 1 : i < j => Manifests[v][j].name # Manifests[v][i].name
               PROVE  LET f == new[Manifests[v][i].name]
                      IN  f # NoRules /\ f.path = Manifests[v][i] /\ f.version >= v
    BY DEF Fresh
  <1>4. CASE i = k + 1
    BY <1>2, <1>3, <1>4 DEF path
  <1>5. CASE i # k + 1
    <2>1. i \in 1 .. k /\ Manifests[v][i].name # path.name
      BY <1>5 DEF path
    <2>2. Manifests[v][i].name \in Names
      BY <2>1, VersionFacts, NameOfPath
    <2>3. new[Manifests[v][i].name] = dir[Manifests[v][i].name]
      BY <1>2, <2>1, <2>2
    <2> QED
      BY <2>1, <2>3 DEF Fresh
  <1> QED
    BY <1>4, <1>5

-----------------------------------------------------------------------------
(* The steps.                                                               *)

\* Steps that only move on.
Moves(p) ==
  /\ place' = p
  /\ UNCHANGED <<profile, version, rules, downloads, since, scans, outputs>>

LEMMA MovesKeep ==
  ASSUME ScheduleInv, NEW p \in Places, Moves(p), OutputsComplete',
         p = "download" => place = "download",
         p \in {"ports", "scan"} /\ profile.update =>
           since \in Versions /\ Fresh(rules, since, Len(Manifests[since]))
  PROVE  ScheduleInv'
PROOF
  <1>1. ScheduleTypes'
    BY DEF ScheduleInv, ScheduleTypes, Moves, outputs
  <1>2. RulesFresh'
    BY DEF ScheduleInv, RulesFresh, Downloading, Moves, outputs
  <1>3. RulesKept'
    BY DEF ScheduleInv, RulesKept, Moves, outputs
  <1> QED
    BY <1>1, <1>2, <1>3 DEF ScheduleInv

LEMMA FailKeeps ==
  ASSUME ScheduleInv, FailRun \/ RefusePath
  PROVE  ScheduleInv'
PROOF
  <1>1. Moves("failed") /\ place \in (Early \cup {"report", "webhook"})
    BY DEF FailRun, RefusePath, Moves, repository, outputs, Early
  <1>2. Len(scans) \in Nat /\ history \in Nat
    BY LenProperties DEF ScheduleInv, ScheduleTypes
  <1>3. Webhooks(Len(scans)) \in {0, Len(scans)} /\ Webhooks(Len(scans) - 1) \in {0, Len(scans) - 1}
    BY DEF Webhooks
  <1>4. notified <= history /\ history <= Len(scans) /\ Len(scans) <= history + 1
    <2>1. CASE place \in Early
      BY <1>2, <1>3, <2>1 DEF ScheduleInv, OutputsComplete
    <2>2. CASE place = "report"
      BY <1>2, <1>3, <2>2 DEF ScheduleInv, OutputsComplete
    <2>3. CASE place = "webhook"
      BY <1>2, <2>3 DEF ScheduleInv, OutputsComplete
    <2> QED
      BY <1>1, <2>1, <2>2, <2>3
  <1>5. OutputsComplete'
    BY <1>1, <1>4 DEF OutputsComplete, Moves, outputs, Early, Late
  <1>6. "failed" \in Places
    BY DEF Places
  <1> QED
    BY <1>1, <1>5, <1>6, MovesKeep

LEMMA EarlyMovesKeep ==
  ASSUME ScheduleInv, CheckScope \/ EndUpdate \/ CheckPorts
  PROVE  ScheduleInv'
PROOF
  <1>1. PICK p \in {"session", "ports", "scan", "failed"} :
          /\ Moves(p) /\ place \in Early
          /\ p \in {"session", "ports", "scan"}
               => (p = "session" => place = "scope") /\ (p = "ports" => EndUpdate)
                  /\ (p = "scan" => place = "ports")
    BY DEF CheckScope, EndUpdate, CheckPorts, Moves, repository, outputs, Early
  <1>2. Len(scans) \in Nat /\ history \in Nat
    BY LenProperties DEF ScheduleInv, ScheduleTypes
  <1>3. history = Len(scans) /\ notified = Webhooks(Len(scans))
    BY <1>1 DEF ScheduleInv, OutputsComplete
  <1>4. Webhooks(Len(scans)) \in {0, Len(scans)}
    BY DEF Webhooks
  <1>5. p \in {"ports", "scan"} => written = <<>>
    BY <1>1 DEF EndUpdate, ScheduleInv, OutputsComplete
  <1>6. OutputsComplete'
    <2>1. CASE p = "failed"
      BY <1>1, <1>2, <1>3, <1>4, <2>1 DEF OutputsComplete, Moves, outputs, Early, Late
    <2>2. CASE p # "failed"
      BY <1>1, <1>3, <1>5, <2>2 DEF OutputsComplete, Moves, outputs, Early, Late, Webhooks
    <2> QED
      BY <2>1, <2>2
  <1>7. p = "ports" => since \in Versions /\ Fresh(rules, since, Len(Manifests[since]))
    BY <1>1, VersionFacts, LenProperties, EmptySeq DEF EndUpdate, ScheduleInv, RulesFresh, Downloading
  <1>8. p = "scan" /\ profile.update => since \in Versions /\ Fresh(rules, since, Len(Manifests[since]))
    BY <1>1 DEF ScheduleInv, RulesFresh
  <1>9. p \in Places /\ p # "download"
    BY DEF Places, Early
  <1> QED
    BY <1>1, <1>6, <1>7, <1>8, <1>9, MovesKeep

LEMMA LateMovesKeep ==
  ASSUME ScheduleInv, EndReport \/ CheckPolicy \/ Wake
  PROVE  ScheduleInv'
PROOF
  <1>1. Len(scans) \in Nat /\ history \in Nat
    BY LenProperties DEF ScheduleInv, ScheduleTypes
  <1>2. CASE EndReport
    <2>1. PICK p \in {"webhook", "policy"} :
            Moves(p) /\ (p = "webhook" <=> profile.webhook) /\ place = "report"
            /\ Len(written) = Len(Files)
      <3>1. Moves(IF profile.webhook THEN "webhook" ELSE "policy") /\ place = "report"
            /\ Len(written) = Len(Files)
        BY <1>2 DEF EndReport, Moves, repository, outputs
      <3>2. CASE profile.webhook
        BY <3>1, <3>2
      <3>3. CASE ~profile.webhook
        BY <3>1, <3>3
      <3> QED
        BY <3>2, <3>3
    <2>2. written = Files
      <3>1. \A i \in 1 .. Len(Files) : written[i] = Files[i]
        BY <2>1 DEF ScheduleInv, OutputsComplete
      <3> QED
        BY <2>1, <3>1, FilesFacts, SeqEqual DEF ScheduleInv, ScheduleTypes
    <2>3. history = Len(scans) /\ Len(scans) > 0 /\ notified = Webhooks(Len(scans) - 1)
      BY <2>1, FilesFacts DEF ScheduleInv, OutputsComplete
    <2>4. OutputsComplete'
      BY <1>1, <2>1, <2>2, <2>3 DEF OutputsComplete, Moves, outputs, Early, Late, Webhooks, Files
    <2>5. p \in Places
      BY DEF Places, Late
    <2> QED
      BY <2>1, <2>4, <2>5, MovesKeep
  <1>3. CASE CheckPolicy
    <2>1. PICK p \in {"policy failed", "done", "sleep"} : Moves(p) /\ place = "policy"
      BY <1>3 DEF CheckPolicy, Moves, repository, outputs
    <2>2. OutputsComplete'
      BY <1>1, <2>1 DEF ScheduleInv, OutputsComplete, Moves, outputs, Early, Late, Webhooks, Files
    <2>3. p \in Places
      BY DEF Places, Late
    <2> QED
      BY <2>1, <2>2, <2>3, MovesKeep
  <1>4. CASE Wake
    <2>1. Moves("session") /\ place = "sleep"
      BY <1>4 DEF Wake, Moves, repository, outputs
    <2>2. OutputsComplete'
      BY <1>1, <2>1 DEF ScheduleInv, OutputsComplete, Moves, outputs, Early, Late, Webhooks
    <2>3. "session" \in Places
      BY DEF Places, Early
    <2> QED
      BY <2>1, <2>2, <2>3, MovesKeep
  <1> QED
    BY <1>2, <1>3, <1>4

LEMMA PublishKeeps ==
  ASSUME ScheduleInv, Publish
  PROVE  ScheduleInv'
PROOF
  <1>1. version' \in Versions /\ version' = version + 1 /\ version \in Nat
    BY VersionFacts DEF Publish, ScheduleInv, ScheduleTypes
  <1>2. ScheduleTypes'
    BY <1>1 DEF Publish, ScheduleInv, ScheduleTypes, outputs
  <1>3. RulesFresh'
    <2>1. UNCHANGED <<profile, place, downloads, since, rules, scans>>
      BY DEF Publish
    <2>2. place = "download" => since \in Versions /\ since <= version'
      <3>1. place = "download" => since \in Versions /\ since <= version
        BY DEF ScheduleInv, RulesFresh, Downloading
      <3>2. since \in Versions => since \in Nat
        BY VersionFacts
      <3> QED
        BY <1>1, <3>1, <3>2
    <2>3. place = "download" => Downloading'
      BY <2>1, <2>2 DEF ScheduleInv, RulesFresh, Downloading
    <2> QED
      BY <2>1, <2>3 DEF ScheduleInv, RulesFresh
  <1>4. RulesKept'
    BY DEF Publish, ScheduleInv, RulesKept
  <1>5. OutputsComplete'
    BY DEF Publish, ScheduleInv, OutputsComplete, outputs, Webhooks, Files
  <1> QED
    BY <1>2, <1>3, <1>4, <1>5 DEF ScheduleInv

LEMMA PrepareKeeps ==
  ASSUME ScheduleInv, PrepareSession
  PROVE  ScheduleInv'
PROOF
  <1>1. /\ place = "session" /\ place' \in {"update", "ports"} /\ written' = <<>>
        /\ place' = "ports" => ~profile.update
        /\ UNCHANGED <<profile, version, rules, downloads, since, scans, history, notified>>
    BY DEF PrepareSession, repository
  <1>2. ScheduleTypes'
    BY <1>1, EmptySeq DEF ScheduleInv, ScheduleTypes, Places, Early
  <1>3. RulesFresh'
    BY <1>1 DEF ScheduleInv, RulesFresh
  <1>4. RulesKept'
    BY <1>1 DEF ScheduleInv, RulesKept
  <1>5. OutputsComplete'
    BY <1>1 DEF ScheduleInv, OutputsComplete, Early, Late, Webhooks
  <1> QED
    BY <1>2, <1>3, <1>4, <1>5 DEF ScheduleInv

LEMMA ManifestKeeps ==
  ASSUME ScheduleInv, ReadManifest
  PROVE  ScheduleInv'
PROOF
  <1>1. /\ place = "update" /\ place' = "download"
        /\ downloads' = Manifests[version] /\ since' = version
        /\ UNCHANGED <<profile, version, rules, scans, written, history, notified>>
    BY DEF ReadManifest, repository, outputs
  <1>2. version \in Versions /\ Manifests[version] \in Seq(Paths) /\ Len(Manifests[version]) \in Nat
        /\ version \in Nat
    BY VersionFacts DEF ScheduleInv, ScheduleTypes
  <1>3. ScheduleTypes'
    BY <1>1, <1>2 DEF ScheduleInv, ScheduleTypes, Places, Early
  <1>4. Downloading'
    BY <1>1, <1>2 DEF Downloading, Fresh
  <1>5. RulesFresh'
    BY <1>1, <1>4 DEF ScheduleInv, RulesFresh
  <1>6. RulesKept'
    BY <1>1 DEF ScheduleInv, RulesKept
  <1>7. OutputsComplete'
    BY <1>1 DEF ScheduleInv, OutputsComplete, Early, Late, Webhooks
  <1> QED
    BY <1>3, <1>5, <1>6, <1>7 DEF ScheduleInv

LEMMA DownloadKeeps ==
  ASSUME ScheduleInv, Download
  PROVE  ScheduleInv'
PROOF
  <1> DEFINE path == Head(downloads)
             file == [path |-> path, version |-> version]
             manifest == Manifests[since]
             k == Len(manifest) - Len(downloads)
  <1>1. /\ place = "download" /\ downloads # <<>> /\ downloads' = Tail(downloads)
        /\ rules' = [rules EXCEPT ![path.name] = file]
        /\ UNCHANGED <<profile, version, place, since, scans, written, history, notified>>
    BY DEF Download, outputs
  <1>2. path \in Paths /\ Tail(downloads) \in Seq(Paths)
        /\ Len(Tail(downloads)) = Len(downloads) - 1 /\ Len(downloads) \in Nat \ {0}
        /\ path = downloads[1] /\ \A i \in 1 .. Len(Tail(downloads)) : Tail(downloads)[i] = downloads[i + 1]
    BY <1>1, HeadTailProperties, EmptySeq DEF ScheduleInv, ScheduleTypes
  <1>3. since \in Versions /\ since \in Nat /\ version \in Nat /\ since <= version
        /\ Len(manifest) \in Nat
    BY <1>1, VersionFacts DEF ScheduleInv, ScheduleTypes, RulesFresh, Downloading
  <1>4. file \in Files0 /\ file # NoRules /\ path.name \in Names /\ rules \in Rules0
    BY <1>2, <1>3, ScheduleAssumption, NameOfPath DEF Files0, ScheduleInv, ScheduleTypes
  <1>5. k \in Nat /\ k < Len(manifest) /\ path = manifest[k + 1]
        /\ Fresh(rules, since, k)
    <2>1. Len(downloads) <= Len(manifest) /\ downloads[1] = manifest[k + 1] /\ Fresh(rules, since, k)
      BY <1>1, <1>2 DEF ScheduleInv, RulesFresh, Downloading
    <2> QED
      BY <1>2, <1>3, <2>1
  <1> HIDE DEF file
  <1>6. rules' \in Rules0 /\ \A n \in Names : rules[n] # NoRules => rules'[n] # NoRules
    BY <1>1, <1>4 DEF Rules0
  <1>7. ScheduleTypes'
    BY <1>1, <1>2, <1>6 DEF ScheduleInv, ScheduleTypes
  <1>8. Fresh(rules', since, k + 1)
    BY <1>1, <1>3, <1>4, <1>5, FreshGrows DEF file
  <1>9. Downloading'
    <2>1. Len(manifest) - Len(downloads') = k + 1
      BY <1>1, <1>2, <1>3
    <2>2. \A i \in 1 .. Len(downloads') : downloads'[i] = manifest[k + 1 + i]
      <3> TAKE i \in 1 .. Len(downloads')
      <3>1. downloads'[i] = downloads[i + 1] /\ i + 1 \in 1 .. Len(downloads)
        BY <1>1, <1>2
      <3>2. downloads[i + 1] = manifest[k + (i + 1)]
        BY <1>1, <3>1 DEF ScheduleInv, RulesFresh, Downloading
      <3> QED
        BY <1>5, <3>1, <3>2
    <2>3. Len(downloads') <= Len(manifest)
      BY <1>1, <1>2, <1>3, <1>5
    <2> HIDE DEF k
    <2> QED
      BY <1>1, <1>3, <1>8, <2>1, <2>2, <2>3 DEF Downloading
  <1>10. RulesFresh'
    BY <1>1, <1>9 DEF ScheduleInv, RulesFresh
  <1>11. RulesKept'
    BY <1>1, <1>6 DEF ScheduleInv, RulesKept
  <1>12. OutputsComplete'
    BY <1>1 DEF ScheduleInv, OutputsComplete, Webhooks, Files
  <1> QED
    BY <1>7, <1>10, <1>11, <1>12 DEF ScheduleInv

LEMMA RunScanKeeps ==
  ASSUME ScheduleInv, NEW severity, RunScan(severity)
  PROVE  ScheduleInv'
PROOF
  <1> DEFINE used == [rules |-> rules, since |-> since]
             Used == [rules : Rules0, since : Versions \cup {0}]
  <1>1. /\ place = "scan" /\ place' = "report" /\ scans' = Append(scans, used)
        /\ UNCHANGED <<profile, version, rules, downloads, since, written, history, notified>>
    BY DEF RunScan, repository, outputs
  <1>2. used \in Used /\ scans \in Seq(Used)
    BY DEF ScheduleInv, ScheduleTypes
  <1>3. used.rules = rules /\ used.since = since
    OBVIOUS
  <1> HIDE DEF used, Used
  <1>4. /\ scans' \in Seq(Used) /\ Len(scans') = Len(scans) + 1 /\ Len(scans) \in Nat
        /\ \A s \in 1 .. Len(scans) : scans'[s] = scans[s]
        /\ scans'[Len(scans) + 1] = used
    BY <1>1, <1>2, AppendProperties, LenProperties
  <1>5. ScheduleTypes'
    BY <1>1, <1>4 DEF ScheduleInv, ScheduleTypes, Places, Used
  <1>6. RulesFresh'
    <2> SUFFICES ASSUME NEW s \in 1 .. Len(scans'), profile.update
                 PROVE  /\ scans'[s].since \in Versions
                        /\ Fresh(scans'[s].rules, scans'[s].since, Len(Manifests[scans'[s].since]))
      BY <1>1 DEF RulesFresh
    <2>1. CASE s = Len(scans) + 1
      BY <1>1, <1>3, <1>4, <2>1 DEF ScheduleInv, RulesFresh
    <2>2. CASE s # Len(scans) + 1
      BY <1>4, <2>2 DEF ScheduleInv, RulesFresh
    <2> QED
      BY <2>1, <2>2
  <1>7. RulesKept'
    <2>1. \A s \in 1 .. Len(scans') : \A n \in Names : scans'[s].rules[n] # NoRules => rules[n] # NoRules
      <3> TAKE s \in 1 .. Len(scans')
      <3>1. CASE s = Len(scans) + 1
        BY <1>3, <1>4, <3>1
      <3>2. CASE s # Len(scans) + 1
        BY <1>4, <3>2 DEF ScheduleInv, RulesKept
      <3> QED
        BY <3>1, <3>2
    <2>2. ASSUME NEW s \in 1 .. Len(scans'), NEW t \in 1 .. Len(scans'), s < t, NEW n \in Names,
                 scans'[s].rules[n] # NoRules
          PROVE  scans'[t].rules[n] # NoRules
      <3>1. s \in 1 .. Len(scans) /\ scans'[s] = scans[s]
        BY <1>4, <2>2
      <3>2. CASE t = Len(scans) + 1
        BY <1>3, <1>4, <2>1, <2>2, <3>2
      <3>3. CASE t # Len(scans) + 1
        <4>1. t \in 1 .. Len(scans) /\ scans'[t] = scans[t]
          BY <1>4, <3>3
        <4> QED
          BY <2>2, <3>1, <4>1 DEF ScheduleInv, RulesKept
      <3> QED
        BY <3>2, <3>3
    <2> QED
      BY <1>1, <2>1, <2>2 DEF RulesKept
  <1>8. OutputsComplete'
    <2>1. written = <<>> /\ history = Len(scans) /\ notified = Webhooks(Len(scans))
      BY <1>1 DEF ScheduleInv, OutputsComplete, Early
    <2>2. Len(written) = 0
      BY <2>1, EmptySeq
    <2>3. Len(scans') - 1 = Len(scans)
      BY <1>4
    <2> QED
      BY <1>1, <1>4, <2>1, <2>2, <2>3, FilesFacts DEF OutputsComplete, Early, Late, Webhooks, Files
  <1> QED
    BY <1>5, <1>6, <1>7, <1>8 DEF ScheduleInv

LEMMA WriteFileKeeps ==
  ASSUME ScheduleInv, WriteArtifact
  PROVE  ScheduleInv'
PROOF
  <1> DEFINE file == Files[Len(written) + 1]
  <1>1. /\ place = "report" /\ Len(written) < Len(Files) /\ written' = Append(written, file)
        /\ history' = (IF file = "history" THEN history + 1 ELSE history)
        /\ UNCHANGED <<profile, version, rules, place, downloads, since, scans, notified>>
    BY DEF WriteArtifact, repository
  <1>2. written \in Seq(Kinds) /\ Len(written) \in Nat
    BY LenProperties DEF ScheduleInv, ScheduleTypes
  <1>3. file \in Kinds
    BY <1>1, <1>2, FilesFacts, ElementOfSeq
  <1>4. (file = "history") <=> (Len(written) = 0)
    BY <1>1, <1>2, FilesFacts
  <1> HIDE DEF file
  <1>5. /\ written' \in Seq(Kinds) /\ Len(written') = Len(written) + 1
        /\ \A i \in 1 .. Len(written) : written'[i] = written[i]
        /\ written'[Len(written) + 1] = file
    BY <1>1, <1>2, <1>3, AppendProperties
  <1>6. ScheduleTypes'
    BY <1>1, <1>5 DEF ScheduleInv, ScheduleTypes
  <1>7. RulesFresh'
    BY <1>1 DEF ScheduleInv, RulesFresh
  <1>8. RulesKept'
    BY <1>1 DEF ScheduleInv, RulesKept
  <1>9. OutputsComplete'
    <2>1. Len(scans) \in Nat \ {0} /\ history \in Nat
          /\ history = (IF Len(written) = 0 THEN Len(scans) - 1 ELSE Len(scans))
          /\ notified = Webhooks(Len(scans) - 1)
          /\ \A i \in 1 .. Len(written) : written[i] = Files[i]
      BY <1>1, LenProperties DEF ScheduleInv, ScheduleTypes, OutputsComplete
    <2>2. history' = Len(scans)
      BY <1>1, <1>4, <2>1
    <2>3. \A i \in 1 .. Len(written') : written'[i] = Files[i]
      <3> TAKE i \in 1 .. Len(written')
      <3>1. CASE i = Len(written) + 1
        BY <1>5, <3>1 DEF file
      <3>2. CASE i # Len(written) + 1
        BY <1>2, <1>5, <2>1, <3>2
      <3> QED
        BY <3>1, <3>2
    <2>4. Len(written') <= Len(Files) /\ Len(written') # 0
      BY <1>1, <1>2, <1>5, FilesFacts
    <2>5. Files' = Files /\ Webhooks(Len(scans) - 1)' = Webhooks(Len(scans) - 1)
      BY <1>1 DEF Files, Webhooks
    <2> QED
      BY <1>1, <2>1, <2>2, <2>3, <2>4, <2>5 DEF OutputsComplete, Early, Late
  <1> QED
    BY <1>6, <1>7, <1>8, <1>9 DEF ScheduleInv

LEMMA WebhookKeeps ==
  ASSUME ScheduleInv, PostWebhook
  PROVE  ScheduleInv'
PROOF
  <1>1. /\ place = "webhook" /\ place' = "policy" /\ notified' = notified + 1
        /\ UNCHANGED <<profile, version, rules, downloads, since, scans, written, history>>
    BY DEF PostWebhook, repository
  <1>2. ScheduleTypes'
    BY <1>1 DEF ScheduleInv, ScheduleTypes, Places, Late
  <1>3. RulesFresh'
    BY <1>1 DEF ScheduleInv, RulesFresh
  <1>4. RulesKept'
    BY <1>1 DEF ScheduleInv, RulesKept
  <1>5. OutputsComplete'
    <2>1. Len(scans) \in Nat /\ profile.webhook /\ notified = Len(scans) - 1 /\ history = Len(scans)
          /\ written = Files
      BY <1>1, LenProperties DEF ScheduleInv, ScheduleTypes, OutputsComplete
    <2>2. notified' = Len(scans) /\ Webhooks(Len(scans)) = Len(scans)
      BY <1>1, <2>1 DEF Webhooks
    <2>3. Files' = Files /\ Webhooks(Len(scans))' = Webhooks(Len(scans))
      BY <1>1 DEF Files, Webhooks
    <2> QED
      BY <1>1, <2>1, <2>2, <2>3 DEF OutputsComplete, Early, Late
  <1> QED
    BY <1>2, <1>3, <1>4, <1>5 DEF ScheduleInv

-----------------------------------------------------------------------------

LEMMA ScheduleInitial == ScheduleInit => ScheduleInv
PROOF
  <1> SUFFICES ASSUME ScheduleInit PROVE ScheduleInv
    OBVIOUS
  <1>1. scans = <<>> /\ Len(scans) = 0
    BY EmptySeq DEF ScheduleInit
  <1>2. ScheduleTypes
    BY VersionFacts, EmptySeq DEF ScheduleInit, ScheduleTypes, Places, Early, Rules0
  <1>3. RulesFresh /\ RulesKept
    BY <1>1 DEF ScheduleInit, RulesFresh, RulesKept
  <1>4. OutputsComplete
    BY <1>1 DEF ScheduleInit, OutputsComplete, Early, Late, Webhooks
  <1> QED
    BY <1>2, <1>3, <1>4 DEF ScheduleInv

LEMMA ScheduleStep == ScheduleInv /\ [ScheduleNext]_scheduleVars => ScheduleInv'
PROOF
  <1> SUFFICES ASSUME ScheduleInv, [ScheduleNext]_scheduleVars PROVE ScheduleInv'
    OBVIOUS
  <1>1. CASE UNCHANGED scheduleVars
    <2>1. ScheduleTypes'
      BY <1>1 DEF scheduleVars, ScheduleInv, ScheduleTypes
    <2>2. RulesFresh' /\ RulesKept'
      BY <1>1 DEF scheduleVars, ScheduleInv, RulesFresh, Downloading, RulesKept
    <2>3. OutputsComplete'
      BY <1>1 DEF scheduleVars, ScheduleInv, OutputsComplete, Webhooks, Files
    <2> QED
      BY <2>1, <2>2, <2>3 DEF ScheduleInv
  <1>2. CASE \E severity \in 0 .. Threshold : RunScan(severity)
    BY <1>2, RunScanKeeps
  <1> QED
    BY <1>1, <1>2, PublishKeeps, FailKeeps, EarlyMovesKeep, LateMovesKeep, PrepareKeeps,
       ManifestKeeps, DownloadKeeps, WriteFileKeeps, WebhookKeeps DEF ScheduleNext

LEMMA ScheduleConclusion == ScheduleInv => ScheduleExact
PROOF
  <1> SUFFICES ASSUME ScheduleInv PROVE ScheduleExact
    OBVIOUS
  <1>1. Len(scans) \in Nat /\ DOMAIN scans = 1 .. Len(scans) /\ history \in Nat /\ notified \in Nat
    BY LenProperties DEF ScheduleInv, ScheduleTypes
  <1>2. ASSUME NEW s \in DOMAIN scans, profile.update,
               NEW i \in LastOfName(Manifests[scans[s].since])
        PROVE  LET file == scans[s].rules[Manifests[scans[s].since][i].name]
               IN  /\ file # NoRules /\ file.path = Manifests[scans[s].since][i]
                   /\ file.version >= scans[s].since
    <2>1. scans[s].since \in Versions
          /\ Fresh(scans[s].rules, scans[s].since, Len(Manifests[scans[s].since]))
      BY <1>1, <1>2 DEF ScheduleInv, RulesFresh
    <2>2. DOMAIN Manifests[scans[s].since] = 1 .. Len(Manifests[scans[s].since])
      BY <2>1, VersionFacts, LenProperties
    <2> QED
      BY <1>2, <2>1, <2>2 DEF Fresh, LastOfName
  <1>3. \A s, t \in DOMAIN scans : s < t =>
          \A n \in Names : scans[s].rules[n] # NoRules => scans[t].rules[n] # NoRules
    BY <1>1 DEF ScheduleInv, RulesKept
  <1>4. place \in Late \cup {"webhook"} => written = Files /\ history = Len(scans)
    BY DEF ScheduleInv, OutputsComplete
  <1>5. place \in Late => notified = Webhooks(Len(scans))
    BY DEF ScheduleInv, OutputsComplete
  <1>6. notified <= history /\ history <= Len(scans) /\ history + 1 >= Len(scans)
    <2>1. place \in Early \cup Late \/ place = "report" \/ place = "webhook" \/ place = "failed"
      BY DEF ScheduleInv, ScheduleTypes, Places
    <2>2. Len(scans) \in Nat /\ history \in Nat /\ notified \in Nat
      BY <1>1
    <2>3. CASE place \in Early \cup Late
      <3>1. history = Len(scans) /\ (notified = Len(scans) \/ notified = 0)
        BY <2>3 DEF ScheduleInv, OutputsComplete, Webhooks
      <3> QED
        BY <2>2, <3>1
    <2>4. CASE place = "report"
      <3>1. Len(scans) > 0 /\ history \in {Len(scans) - 1, Len(scans)}
            /\ (notified = Len(scans) - 1 \/ notified = 0)
        BY <2>4 DEF ScheduleInv, OutputsComplete, Webhooks
      <3> QED
        BY <2>2, <3>1
    <2>5. CASE place = "webhook"
      BY <1>1, <2>5 DEF ScheduleInv, OutputsComplete
    <2>6. CASE place = "failed"
      BY <1>1, <2>6 DEF ScheduleInv, OutputsComplete
    <2> QED
      BY <2>1, <2>3, <2>4, <2>5, <2>6
  <1> QED
    BY <1>2, <1>3, <1>4, <1>5, <1>6 DEF ScheduleExact, Late, Webhooks

\* For any repository that changes while it is downloaded, and any profile: no scan runs
\* with rules older than its update, and only the last scan can lack a file, its row in
\* the history, or its notification (run_scheduled_profile, update_rules_from_repo).
THEOREM ScheduleAlwaysExact == ScheduleSpec => []ScheduleExact
PROOF
  BY ScheduleInitial, ScheduleStep, ScheduleConclusion, PTL DEF ScheduleSpec

-----------------------------------------------------------------------------

\* Verification: what is removed and what is confirmed.

Verdicts == {"confirmed", "inconclusive", "false_positive"}

\* The findings that were looked at.
Judged(i) ==
  \/ Disproved(i)
  \/ \E k \in DOMAIN kept : kept[k].of = i /\ (vulns[i].verified => kept[k].verified)

KeptOk(k) ==
  /\ kept[k].of \in 1 .. next - 1
  /\ kept[k].verified => vulns[kept[k].of].verified \/ Shown(kept[k].of)
  /\ \A l \in 1 .. k - 1 : kept[l].of < kept[k].of

VerifyTypes ==
  /\ vulns \in FindingLists /\ byId \in RuleSets
  /\ next \in 1 .. Len(vulns) + 1
  /\ kept \in Seq([of : Nat, verified : BOOLEAN])
  /\ DOMAIN seen = DOMAIN vulns
  /\ failed \subseteq 1 .. next - 1

\* The finding at hand: what was asked so far did not show it, and only a rule
\* that measures asks more than once.
Trying ==
  /\ \A i \in DOMAIN vulns : i > next => seen[i] = {}
  /\ next \in DOMAIN vulns =>
       /\ {m.delay : m \in seen[next]} = delay
       /\ \A r \in Own(Vuln) :
            /\ seen[next] # {} => r.verify.match = "time"
            /\ r.verify.match = "time" =>
                 /\ delay \subseteq Delays(Vuln.url, TimeThreshold(r))
                 /\ \A m \in seen[next] : ~Exceeds(TimeThreshold(r), m.baseline, m.payload)

VerifyInv ==
  /\ VerifyTypes /\ Trying
  /\ \A i \in 1 .. next - 1 : Judged(i)
  /\ \A k \in DOMAIN kept : KeptOk(k)

-----------------------------------------------------------------------------

LEMMA ListFacts ==
  ASSUME VerifyTypes
  PROVE  /\ Len(vulns) \in Nat /\ DOMAIN vulns = 1 .. Len(vulns)
         /\ next \in Nat \ {0}
         /\ \A i \in DOMAIN vulns : vulns[i].verified \in BOOLEAN
  BY VerificationAssumption DEF VerifyTypes

\* What was said of a finding that was looked at stays as it is.
LEMMA PastKeeps ==
  ASSUME UNCHANGED <<vulns, byId>>,
         NEW i \in Nat, seen'[i] = seen[i], i \in failed' <=> i \in failed
  PROVE  Disproved(i)' = Disproved(i) /\ Shown(i)' = Shown(i)
  <1>1. \A f : Own(f)' = Own(f)
    BY DEF Own
  <1>2. Disproved(i)' <=> Disproved(i)
    BY <1>1 DEF Disproved
  <1>3. Shown(i)' <=> Shown(i)
    BY <1>1 DEF Shown
  <1> QED
    BY <1>2, <1>3 DEF Disproved, Shown

\* A verdict that the answers justify keeps the invariant.
LEMMA ConcludeKeeps ==
  ASSUME VerifyInv, next \in DOMAIN vulns, NEW verdict \in Verdicts, Conclude(verdict),
         DOMAIN seen' = DOMAIN seen,
         \A i \in DOMAIN vulns : i # next => seen'[i] = seen[i],
         failed' = failed \/ failed' = failed \cup {next},
         NEW n, n = next,
         verdict = "false_positive" => Disproved(n)',
         verdict = "confirmed" => Shown(n)'
  PROVE  VerifyInv'
  <1>1. VerifyTypes /\ Trying
    BY DEF VerifyInv
  <1>2. /\ Len(vulns) \in Nat /\ DOMAIN vulns = 1 .. Len(vulns) /\ next \in 1 .. Len(vulns)
        /\ \A i \in DOMAIN vulns : vulns[i].verified \in BOOLEAN
    BY <1>1, ListFacts
  <1>3. /\ UNCHANGED <<vulns, byId>> /\ next' = next + 1 /\ delay' = {}
        /\ kept' = IF verdict = "false_positive" THEN kept
                   ELSE Append(kept, [of |-> next,
                                      verified |-> vulns[next].verified \/ verdict = "confirmed"])
    BY DEF Conclude, Move, Vuln
  <1>4. ASSUME NEW i \in 1 .. next - 1
        PROVE  Disproved(i)' = Disproved(i) /\ Shown(i)' = Shown(i)
    <2>1. i \in DOMAIN vulns /\ i # next /\ i \in Nat
      BY <1>2
    <2> QED
      BY <1>3, <2>1, PastKeeps
  <1> DEFINE last == [of |-> next, verified |-> vulns[next].verified \/ verdict = "confirmed"]
  <1>5. last \in [of : Nat, verified : BOOLEAN] /\ last.of = next
        /\ last.verified = (vulns[next].verified \/ verdict = "confirmed")
    BY <1>2
  <1>6. kept \in Seq([of : Nat, verified : BOOLEAN])
    BY <1>1 DEF VerifyTypes
  <1> HIDE DEF last
  <1>7. /\ kept' \in Seq([of : Nat, verified : BOOLEAN])
        /\ DOMAIN kept = 1 .. Len(kept) /\ Len(kept) \in Nat
        /\ \A k \in DOMAIN kept : k \in DOMAIN kept' /\ kept'[k] = kept[k]
        /\ \/ verdict = "false_positive" /\ DOMAIN kept' = DOMAIN kept
           \/ /\ verdict # "false_positive" /\ DOMAIN kept' = 1 .. Len(kept) + 1
              /\ kept'[Len(kept) + 1] = last
    <2>1. CASE verdict = "false_positive"
      BY <1>3, <1>6, <2>1, LenProperties
    <2>2. CASE verdict # "false_positive"
      <3>1. kept' = Append(kept, last)
        BY <1>3, <2>2 DEF last
      <3> QED
        BY <1>5, <1>6, <2>2, <3>1, LenProperties, AppendProperties
    <2> QED
      BY <2>1, <2>2
  <1>8. VerifyTypes'
    <2>1. failed \subseteq 1 .. next - 1 /\ DOMAIN seen = DOMAIN vulns
      BY <1>1 DEF VerifyTypes
    <2>2. failed' \subseteq 1 .. next' - 1
      <3>1. SUFFICES ASSUME NEW j \in failed' PROVE j \in 1 .. next' - 1
        OBVIOUS
      <3>2. j = next \/ j \in 1 .. next - 1
        BY <2>1, <3>1
      <3> QED
        BY <1>2, <1>3, <3>2
    <2> QED
      BY <1>1, <1>2, <1>3, <1>7, <2>1, <2>2 DEF VerifyTypes
  <1>9. Trying'
    <2>1. \A i \in DOMAIN vulns : i > next => seen'[i] = {}
      BY <1>1, <1>2 DEF Trying
    <2>2. next' \in DOMAIN vulns' => seen'[next'] = {}
      BY <1>2, <1>3, <2>1
    <2>3. \A i \in DOMAIN vulns' : i > next' => seen'[i] = {}
      BY <1>2, <1>3, <2>1
    <2> QED
      BY <1>3, <2>2, <2>3 DEF Trying
  <1>10. ASSUME NEW i \in 1 .. next' - 1
         PROVE  Judged(i)'
    <2>1. CASE i # next
      <3>1. i \in 1 .. next - 1
        BY <1>2, <1>3, <2>1
      <3>2. Judged(i)
        BY <3>1 DEF VerifyInv
      <3>3. Disproved(i)' = Disproved(i)
        BY <1>4, <3>1
      <3> QED
        BY <1>3, <1>7, <3>2, <3>3 DEF Judged
    <2>2. CASE i = next /\ verdict = "false_positive"
      <3>1. i = n /\ Disproved(n)'
        BY <2>2
      <3> QED
        BY <3>1 DEF Judged, Disproved
    <2>3. CASE i = next /\ verdict # "false_positive"
      <3>1. PICK k \in DOMAIN kept' : kept'[k] = last
        BY <1>7, <2>3
      <3>2. kept'[k].of = i
        BY <1>5, <2>3, <3>1
      <3>3. vulns'[i] = vulns[next]
        BY <1>3, <2>3
      <3>4. vulns'[i].verified => kept'[k].verified
        BY <1>5, <3>1, <3>3
      <3> QED
        BY <3>2, <3>4 DEF Judged
    <2> QED
      BY <2>1, <2>2, <2>3
  <1>11. \A k \in DOMAIN kept : KeptOk(k)
    BY DEF VerifyInv
  <1>12. ASSUME NEW k \in DOMAIN kept'
         PROVE  KeptOk(k)'
    <2>1. CASE k \in DOMAIN kept
      <3>1. KeptOk(k) /\ kept'[k] = kept[k] /\ k \in 1 .. Len(kept)
        BY <1>7, <1>11, <2>1
      <3>2. PICK j \in 1 .. next - 1 : j = kept[k].of
        BY <3>1 DEF KeptOk
      <3>3. Shown(j)' = Shown(j) /\ kept'[k].of = j
        BY <1>4, <3>1, <3>2
      <3>4. \A l \in 1 .. k - 1 : kept'[l] = kept[l]
        BY <1>7, <3>1
      <3>5. kept'[k].of \in 1 .. next' - 1
        BY <1>2, <1>3, <3>1, <3>2
      <3>6. kept'[k].verified => vulns'[j].verified \/ Shown(j)'
        <4>1. kept[k].verified => vulns[j].verified \/ Shown(j)
          BY <3>1, <3>2 DEF KeptOk
        <4> QED
          BY <1>3, <3>1, <3>3, <4>1
      <3>7. \A l \in 1 .. k - 1 : kept'[l].of < kept'[k].of
        BY <3>1, <3>4 DEF KeptOk
      <3> QED
        BY <3>1, <3>3, <3>5, <3>6, <3>7 DEF KeptOk, Shown
    <2>2. CASE k \notin DOMAIN kept
      <3>1. k = Len(kept) + 1 /\ kept'[k] = last /\ verdict # "false_positive"
        BY <1>7, <2>2
      <3>2. kept'[k].of = n /\ n \in 1 .. next' - 1
        BY <1>2, <1>3, <1>5, <3>1
      <3>3. kept'[k].verified => vulns'[n].verified \/ Shown(n)'
        BY <1>3, <1>5, <3>1
      <3>4. \A l \in 1 .. k - 1 : kept'[l].of < n
        <4>1. SUFFICES ASSUME NEW l \in 1 .. k - 1 PROVE kept'[l].of < n
          OBVIOUS
        <4>2. l \in DOMAIN kept /\ kept'[l] = kept[l]
          BY <1>7, <3>1
        <4>3. kept[l].of \in 1 .. next - 1
          BY <1>11, <4>2 DEF KeptOk
        <4> QED
          BY <1>2, <4>2, <4>3
      <3> QED
        BY <3>2, <3>3, <3>4 DEF KeptOk, Shown
    <2> QED
      BY <2>1, <2>2
  <1> QED
    BY <1>8, <1>9, <1>10, <1>12 DEF VerifyInv

-----------------------------------------------------------------------------
(* The steps.                                                               *)

LEMMA PassKeeps ==
  ASSUME VerifyInv, Pass
  PROVE  VerifyInv'
  <1>1. next \in DOMAIN vulns /\ Conclude("inconclusive") /\ UNCHANGED <<seen, failed>>
    BY DEF Pass
  <1>2. \A i \in DOMAIN vulns : seen'[i] = seen[i]
    BY <1>1
  <1>3. PICK n : n = next
    OBVIOUS
  <1> QED
    BY <1>1, <1>2, <1>3, ConcludeKeeps DEF Verdicts

\* An answer that removes a finding of no parameter is none its rule reports.
LEMMA VerdictExcludes ==
  ASSUME NEW f, NEW verify, NEW answer,
         verify.match \in {"status", "contains", "regex", "header"},
         VerdictOf(f, verify, answer) = "false_positive"
  PROVE  answer # NoReply /\ (f.parameter = NoValue => ~Matches(verify, answer))
  <1>1. CASE verify.match = "status"
    BY <1>1 DEF VerdictOf, VerifyStatus, Decide, Matches
  <1>2. CASE verify.match = "header"
    BY <1>2 DEF VerdictOf, VerifyHeader, Decide, Matches, HeaderOk
  <1>3. CASE verify.match = "contains"
    BY <1>3 DEF VerdictOf, VerifyReflection, VerifyBody, Decide, Matches
  <1>4. CASE verify.match = "regex"
    BY <1>4 DEF VerdictOf, VerifyReflection, VerifyBody, Decide, Matches
  <1> QED
    BY <1>1, <1>2, <1>3, <1>4

LEMMA VerdictKinds ==
  ASSUME NEW f, NEW verify, NEW answer,
         verify.match \in {"status", "contains", "regex", "header"}
  PROVE  /\ VerdictOf(f, verify, answer) \in Verdicts
         /\ VerdictOf(f, verify, answer) = "confirmed" => answer # NoReply
  <1>1. CASE verify.match = "status"
    BY <1>1 DEF VerdictOf, VerifyStatus, Decide, Verdicts
  <1>2. CASE verify.match = "header"
    BY <1>2 DEF VerdictOf, VerifyHeader, Decide, Verdicts
  <1>3. CASE verify.match \in {"contains", "regex"}
    BY <1>3 DEF VerdictOf, VerifyReflection, VerifyBody, Decide, Verdicts
  <1> QED
    BY <1>1, <1>2, <1>3

LEMMA RuleFacts ==
  ASSUME VerifyTypes, NEW f, NEW rule \in Own(f)
  PROVE  /\ rule.verify.match \in {"status", "contains", "regex", "header", "time"}
         /\ \A r \in Own(f) : r = rule
  BY VerificationAssumption DEF VerifyTypes, Own

LEMMA VerifyAnswerKeeps ==
  ASSUME VerifyInv, next \in DOMAIN vulns, ~Vuln.verified,
         NEW rule \in Own(Vuln), NEW answer, VerifyAnswer(rule, answer)
  PROVE  VerifyInv'
  <1> DEFINE verdict == VerdictOf(Vuln, rule.verify, answer)
  <1>1. VerifyTypes /\ Trying
    BY DEF VerifyInv
  <1>2. /\ rule.verify.match \in {"status", "contains", "regex", "header"}
        /\ \A r \in Own(Vuln) : r = rule
        /\ Conclude(verdict)
        /\ IF answer = NoReply THEN NoteFailure ELSE Note(answer)
    BY <1>1, RuleFacts DEF VerifyAnswer
  <1>3. /\ verdict \in Verdicts /\ (verdict = "confirmed" => answer # NoReply)
        /\ verdict = "false_positive" =>
             answer # NoReply /\ (Vuln.parameter = NoValue => ~Matches(rule.verify, answer))
    BY <1>2, VerdictKinds, VerdictExcludes
  <1>4. /\ DOMAIN seen = DOMAIN vulns /\ next \notin failed /\ seen[next] = {}
    <2>1. next \notin failed
      BY <1>1, ListFacts DEF VerifyTypes
    <2>2. seen[next] = {}
      BY <1>1, <1>2 DEF Trying
    <2> QED
      BY <1>1, <2>1, <2>2 DEF VerifyTypes
  <1>5. PICK n : n = next
    OBVIOUS
  <1>6. /\ DOMAIN seen' = DOMAIN seen
        /\ \A i \in DOMAIN vulns : i # next => seen'[i] = seen[i]
        /\ failed' = failed \/ failed' = failed \cup {next}
        /\ answer # NoReply => n \notin failed' /\ seen'[n] = {answer}
    BY <1>2, <1>4, <1>5 DEF Note, NoteFailure
  <1>7. vulns'[n] = Vuln /\ \A f : Own(f)' = Own(f)
    BY <1>2, <1>5 DEF Conclude, Move, Vuln, Own
  <1> HIDE DEF verdict
  <1>8. verdict = "false_positive" => Disproved(n)'
    BY <1>2, <1>3, <1>6, <1>7 DEF Disproved
  <1>9. verdict = "confirmed" => Shown(n)'
    BY <1>2, <1>3, <1>6, <1>7 DEF Shown
  <1> QED
    BY <1>2, <1>3, <1>5, <1>6, <1>8, <1>9, ConcludeKeeps

\* A round of measurements changes nothing that the invariant speaks of.
LEMMA MeasureKeeps ==
  ASSUME VerifyInv, UNCHANGED <<vulns, byId, next, delay, kept, seen, failed>>
  PROVE  VerifyInv'
  <1>1. VerifyTypes' /\ Trying'
    BY DEF VerifyInv, VerifyTypes, Trying, Vuln, Own
  <1>2. \A i : Judged(i) => Judged(i)'
    BY DEF Judged, Disproved, Own
  <1>3. \A k : KeptOk(k) => KeptOk(k)'
    BY DEF KeptOk, Shown, Own
  <1> QED
    BY <1>1, <1>2, <1>3 DEF VerifyInv

LEMMA FailMeasurementKeeps ==
  ASSUME VerifyInv, next \in DOMAIN vulns, NEW rule, FailMeasurement(rule)
  PROVE  VerifyInv'
  <1>1. Conclude("inconclusive") /\ UNCHANGED seen /\ failed' = failed \cup {next}
    BY DEF FailMeasurement, NoteFailure
  <1>2. \A i \in DOMAIN vulns : seen'[i] = seen[i]
    BY <1>1
  <1>3. PICK n : n = next
    OBVIOUS
  <1> QED
    BY <1>1, <1>2, <1>3, ConcludeKeeps DEF Verdicts

LEMMA JudgeKeeps ==
  ASSUME VerifyInv, next \in DOMAIN vulns, ~Vuln.verified,
         NEW rule \in Own(Vuln), Judge(rule)
  PROVE  VerifyInv'
  <1> DEFINE threshold == TimeThreshold(rule)
             shows == Exceeds(threshold, times.baseline, times.payload)
             verdict == CASE shows -> "confirmed"
                          [] ~shows /\ times.payload > Rounds * Timeout -> "inconclusive"
                          [] OTHER -> "false_positive"
             left == Delays(Vuln.url, threshold) \ delay
  <1>1. VerifyTypes /\ Trying
    BY DEF VerifyInv
  <1>2. rule.verify.match = "time" /\ \A r \in Own(Vuln) : r = rule
    BY <1>1, RuleFacts DEF Judge
  <1>3. PICK d \in left :
          /\ Note([delay |-> d, baseline |-> times.baseline, payload |-> times.payload])
          /\ IF verdict = "false_positive" /\ left # {d}
             THEN /\ delay' = delay \cup {d} /\ times' = NoTimes
                  /\ UNCHANGED <<vulns, byId, next, kept>>
             ELSE Conclude(verdict)
    BY DEF Judge
  <1>4. verdict \in Verdicts /\ (verdict = "confirmed" => shows)
        /\ (verdict = "false_positive" => ~shows)
    BY DEF Verdicts
  <1> DEFINE m == [delay |-> d, baseline |-> times.baseline, payload |-> times.payload]
  <1>5. /\ m.delay = d
        /\ Exceeds(threshold, m.baseline, m.payload) = shows
    OBVIOUS
  <1>6. d \in left /\ d \in Delays(Vuln.url, threshold) /\ d \notin delay
    OBVIOUS
  <1>7. PICK n : n = next
    OBVIOUS
  <1>8. /\ DOMAIN seen = DOMAIN vulns
        /\ {e.delay : e \in seen[n]} = delay /\ delay \subseteq Delays(Vuln.url, threshold)
        /\ \A e \in seen[n] : ~Exceeds(threshold, e.baseline, e.payload)
        /\ n \notin failed
    <2>1. n \notin failed
      BY <1>1, <1>7, ListFacts DEF VerifyTypes
    <2> QED
      BY <1>1, <1>2, <1>7, <2>1 DEF Trying, VerifyTypes
  <1> HIDE DEF m, shows
  <1>9. /\ DOMAIN seen' = DOMAIN seen
        /\ \A i \in DOMAIN vulns : i # next => seen'[i] = seen[i]
        /\ seen'[n] = seen[n] \cup {m} /\ failed' = failed
    BY <1>3, <1>7, <1>8 DEF Note, m
  <1>10. {e.delay : e \in seen'[n]} = delay \cup {d}
    BY <1>5, <1>8, <1>9
  <1>11. verdict = "false_positive" =>
           \A e \in seen'[n] : ~Exceeds(threshold, e.baseline, e.payload)
    BY <1>4, <1>5, <1>8, <1>9
  <1> HIDE DEF verdict
  <1>12. CASE verdict = "false_positive" /\ left # {d}
    <2>1. delay' = delay \cup {d} /\ UNCHANGED <<vulns, byId, next, kept>>
      BY <1>3, <1>12
    <2>2. VerifyTypes'
      BY <1>1, <1>9, <2>1 DEF VerifyTypes
    <2>3. Vuln' = Vuln /\ \A f : Own(f)' = Own(f)
      BY <2>1 DEF Vuln, Own
    <2>4. \A i \in DOMAIN vulns' : i > next' => seen'[i] = {}
      <3>1. SUFFICES ASSUME NEW i \in DOMAIN vulns, i > next PROVE seen'[i] = {}
        BY <2>1
      <3>2. i # next
        BY <1>1, <3>1, ListFacts
      <3> QED
        BY <1>1, <1>9, <3>1, <3>2 DEF Trying
    <2>5. delay' \subseteq Delays(Vuln.url, threshold)
      BY <1>6, <1>8, <2>1
    <2>6. seen'[next'] = seen'[n]
      BY <1>7, <2>1
    <2>7. Trying'
      BY <1>2, <1>10, <1>11, <1>12, <2>1, <2>3, <2>4, <2>5, <2>6 DEF Trying
    <2>8. ASSUME NEW i \in 1 .. next - 1 PROVE Disproved(i)' = Disproved(i) /\ Shown(i)' = Shown(i)
      <3>1. i \in DOMAIN vulns /\ i # next /\ i \in Nat
        BY <1>1, ListFacts
      <3> QED
        BY <1>9, <2>1, <3>1, PastKeeps
    <2>9. ASSUME NEW i \in 1 .. next' - 1 PROVE Judged(i)'
      <3>1. i \in 1 .. next - 1
        BY <2>1
      <3>2. Judged(i) /\ Disproved(i)' = Disproved(i)
        BY <2>8, <3>1 DEF VerifyInv
      <3> QED
        BY <2>1, <3>2 DEF Judged
    <2>10. ASSUME NEW k \in DOMAIN kept' PROVE KeptOk(k)'
      <3>1. KeptOk(k)
        BY <2>1 DEF VerifyInv
      <3>2. PICK j \in 1 .. next - 1 : j = kept[k].of
        BY <3>1 DEF KeptOk
      <3>3. Shown(j)' = Shown(j)
        BY <2>8
      <3>4. kept'[k].verified => vulns'[j].verified \/ Shown(j)'
        <4>1. kept[k].verified => vulns[j].verified \/ Shown(j)
          BY <3>1, <3>2 DEF KeptOk
        <4> QED
          BY <2>1, <3>3, <4>1
      <3>5. kept'[k].of = j /\ j \in 1 .. next' - 1
            /\ \A l \in 1 .. k - 1 : kept'[l].of < kept'[k].of
        BY <2>1, <3>1, <3>2 DEF KeptOk
      <3> QED
        BY <3>4, <3>5 DEF KeptOk, Shown
    <2> QED
      BY <2>2, <2>7, <2>9, <2>10 DEF VerifyInv
  <1>13. CASE ~(verdict = "false_positive" /\ left # {d})
    <2>1. Conclude(verdict) /\ (verdict = "false_positive" => left = {d})
      BY <1>3, <1>13
    <2>2. vulns'[n] = Vuln /\ \A f : Own(f)' = Own(f)
      BY <1>7, <2>1 DEF Conclude, Move, Vuln, Own
    <2>3. verdict = "false_positive" => Disproved(n)'
      <3>1. SUFFICES ASSUME verdict = "false_positive" PROVE Disproved(n)'
        OBVIOUS
      <3>2. {e.delay : e \in seen'[n]} = Delays(Vuln.url, threshold)
        BY <1>6, <1>8, <1>10, <2>1, <3>1
      <3> QED
        BY <1>2, <1>8, <1>9, <1>11, <2>2, <3>1, <3>2 DEF Disproved
    <2>4. verdict = "confirmed" => Shown(n)'
      <3>1. m \in seen'[n]
        BY <1>9
      <3> QED
        BY <1>2, <1>4, <1>5, <1>8, <1>9, <2>2, <3>1 DEF Shown
    <2> QED
      BY <1>4, <1>7, <1>9, <2>1, <2>3, <2>4, ConcludeKeeps
  <1> QED
    BY <1>12, <1>13

-----------------------------------------------------------------------------

LEMMA VerifyInitial == VerifyInit => VerifyInv
  <1> SUFFICES ASSUME VerifyInit PROVE VerifyInv
    OBVIOUS
  <1>1. Len(vulns) \in Nat /\ DOMAIN vulns = 1 .. Len(vulns)
    BY VerificationAssumption DEF VerifyInit
  <1>2. kept = <<>> /\ kept \in Seq([of : Nat, verified : BOOLEAN]) /\ DOMAIN kept = {}
    BY DEF VerifyInit
  <1>3. VerifyTypes
    BY <1>1, <1>2 DEF VerifyInit, VerifyTypes
  <1>4. \A i \in DOMAIN vulns : seen[i] = {}
    BY DEF VerifyInit
  <1>5. Trying
    BY <1>4 DEF VerifyInit, Trying
  <1>6. 1 .. next - 1 = {}
    BY DEF VerifyInit
  <1> QED
    BY <1>2, <1>3, <1>5, <1>6 DEF VerifyInv

LEMMA VerifyStep == VerifyInv /\ [VerifyNext]_verifyVars => VerifyInv'
  <1> SUFFICES ASSUME VerifyInv, [VerifyNext]_verifyVars PROVE VerifyInv'
    OBVIOUS
  <1>1. CASE Pass
    BY <1>1, PassKeeps
  <1>2. ASSUME next \in DOMAIN vulns, ~Vuln.verified, NEW rule \in Own(Vuln),
               \/ \E answer \in Responses \cup {NoReply} : VerifyAnswer(rule, answer)
               \/ \E baseline, payload \in Durations : Measure(rule, baseline, payload)
               \/ FailMeasurement(rule)
               \/ Judge(rule)
        PROVE  VerifyInv'
    <2>1. CASE \E answer \in Responses \cup {NoReply} : VerifyAnswer(rule, answer)
      BY <1>2, <2>1, VerifyAnswerKeeps
    <2>2. CASE \E baseline, payload \in Durations : Measure(rule, baseline, payload)
      BY <2>2, MeasureKeeps DEF Measure
    <2>3. CASE FailMeasurement(rule)
      BY <1>2, <2>3, FailMeasurementKeeps
    <2>4. CASE Judge(rule)
      BY <1>2, <2>4, JudgeKeeps
    <2> QED
      BY <1>2, <2>1, <2>2, <2>3, <2>4
  <1>3. CASE UNCHANGED verifyVars
    BY <1>3, MeasureKeeps DEF verifyVars
  <1> QED
    BY <1>1, <1>2, <1>3 DEF VerifyNext

\* Whatever the target answers, however long it takes and whichever requests fail,
\* verification removes only what it disproves and confirms only what was shown, and
\* keeps the rest in its order (run_verification, verify_time_based_with_client).
THEOREM VerificationOnlyDisproves == VerifySpec => []RemovesOnlyDisproved
  <1>1. VerifyInv => RemovesOnlyDisproved
    BY DEF VerifyInv, RemovesOnlyDisproved, Judged, KeptOk
  <1> QED
    BY <1>1, VerifyInitial, VerifyStep, PTL DEF VerifySpec

-----------------------------------------------------------------------------
\* Settings: the sources of a command, one after the other.

\* What the file gives, and what the file and the environment give.
OfFile == IF invoked.file = Unreadable THEN Defaults ELSE Over(Defaults, invoked.file)

OfBoth == IF invoked.command = "single --config" THEN OfFile ELSE Over(OfFile, invoked.env)

OfOptions ==
  [OfBoth EXCEPT
     !.rate  = IF invoked.command \in {"single", "single --config", "schedule"}
                  /\ invoked.cli.rate # NoSetting THEN invoked.cli.rate ELSE @,
     !.risky = IF invoked.command = "schedule" THEN invoked.cli.risky ELSE @]

FileProfile == IF invoked.file = Unreadable THEN NoProfile ELSE invoked.config_profile

\* The profile of the session before the options.
Unoptioned ==
  IF invoked.command # "single --config" /\ invoked.env_file # NoProfile THEN invoked.env_file
  ELSE FileProfile

\* The session has the roles of its profile, and what the environment says.
Based(person) ==
  session # NoProfile =>
    session.roles = IF person = NoProfile THEN <<>> ELSE person.roles

OfEnvironment ==
  session # NoProfile =>
    \A f \in {"scope", "header", "validate"} :
      invoked.env_profile[f] # NoSetting => session[f] = invoked.env_profile[f]

HasEnvironment == invoked.command # "single --config" \/ invoked.option # NoProfile

OfRole ==
  session # NoProfile /\ invoked.command \in Scans /\ invoked.role # NoSetting =>
    LET role == Chosen.roles[invoked.role]
    IN  /\ session.roles = <<>>
        /\ \A name \in DOMAIN role.cookies :
             name \in DOMAIN session.cookies /\ session.cookies[name] = role.cookies[name]
        /\ role.header # NoSetting => session.header = role.header
        /\ role.scope # NoSetting => session.scope = role.scope
        /\ role.token # NoSetting /\ session.refresh = NoSetting => session.token = role.token

Prepared == invoked.command \in Scans \cup {"schedule"}

SettingsInv ==
  /\ invoked \in Commands
  /\ loading \in {"file", "environment", "options", "role", "refresh", "validate", "oast",
                  "ready", "failed"}
  /\ session # NoProfile => IsProfile(session)
  /\ loading = "file" => config = Defaults
  /\ loading = "environment" =>
       /\ config = OfFile /\ session = FileProfile
       /\ invoked.command # "single --config"
  /\ loading = "options" =>
       /\ config = OfBoth /\ Based(Unoptioned)
       /\ invoked.command # "single --config" => OfEnvironment
       /\ Prepared
  /\ loading = "role" => Based(Chosen) /\ (HasEnvironment => OfEnvironment)
  /\ loading \in {"role", "oast"} => invoked.command \in Scans
  /\ loading \in {"role", "refresh", "validate", "oast"} => config = OfOptions /\ Prepared
  /\ loading \in {"refresh", "validate", "oast", "ready"} =>
       /\ OfRole
       /\ (invoked.command \notin Scans \/ invoked.role = NoSetting) /\ HasEnvironment =>
            OfEnvironment
  /\ loading \in {"validate", "oast", "ready"} /\ session # NoProfile /\ Prepared =>
       (session.refresh # NoSetting => printed \in Tokens /\ session.token = printed)
  /\ loading \in {"oast", "ready"} /\ session # NoProfile /\ Prepared =>
       (session.validate # NoSetting => validated = session)
  /\ loading = "ready" => ConfigFollows

LEMMA OverField ==
  ASSUME NEW a, NEW b, IsSource(a)
  PROVE  /\ IsSource(Over(a, b))
         /\ \A f \in Fields : Over(a, b)[f] = IF b[f] = NoSetting THEN a[f] ELSE b[f]
  BY DEF Over, IsSource

\* What the environment makes of a profile.
LEMMA EnvironmentField ==
  ASSUME NEW person, NEW env, IsProfile(person)
  PROVE  /\ IsProfile(WithEnvironment(person, env))
         /\ WithEnvironment(person, env).roles = person.roles
         /\ \A f \in {"scope", "header", "validate"} :
              env[f] # NoSetting => WithEnvironment(person, env)[f] = env[f]
<1>1. /\ DOMAIN person = SessionFields
      /\ Over(person, env) = [f \in SessionFields |->
           IF env[f] = NoSetting THEN person[f] ELSE env[f]]
  BY DEF Over, IsProfile
<1> QED BY <1>1 DEF WithEnvironment, IsProfile, SessionFields

LEMMA SelectedField ==
  ASSUME NEW person, NEW role, IsProfile(person)
  PROVE  /\ IsProfile(Selected(person, role))
         /\ Selected(person, role).roles = <<>>
         /\ Selected(person, role).cookies = Extended(person.cookies, role.cookies)
         /\ \A f \in {"scope", "header", "token"} :
              role[f] # NoSetting => Selected(person, role)[f] = role[f]
<1>1. /\ DOMAIN person = SessionFields
      /\ Over(person, role) = [f \in SessionFields |->
           IF role[f] = NoSetting THEN person[f] ELSE role[f]]
  BY DEF Over, IsProfile
<1> QED BY <1>1 DEF Selected, IsProfile, SessionFields

\* Each kind of settings has all its fields.
LEMMA SourcesTyped ==
  ASSUME invoked \in Commands
  PROVE  /\ IsSource(OfFile) /\ IsSource(OfBoth) /\ IsSource(OfOptions)
         /\ \A f \in Fields : OfFile[f] = IF invoked.file = Unreadable THEN Defaults[f]
                                          ELSE Over(Defaults, invoked.file)[f]
         /\ \A f \in Fields : OfBoth[f] =
              IF invoked.command # "single --config" /\ invoked.env[f] # NoSetting
              THEN invoked.env[f] ELSE OfFile[f]
         /\ \A f \in {"url", "id", "db"} : OfOptions[f] = OfBoth[f]
         /\ OfOptions.rate = IF invoked.command \in {"single", "single --config", "schedule"}
                                /\ invoked.cli.rate # NoSetting
                             THEN invoked.cli.rate ELSE OfBoth.rate
         /\ OfOptions.risky = IF invoked.command = "schedule" THEN invoked.cli.risky ELSE OfBoth.risky
<1>1. IsSource(OfFile)
  BY SettingsAssumption, OverField DEF OfFile
<1>2. /\ IsSource(OfBoth)
      /\ \A f \in Fields : OfBoth[f] =
           IF invoked.command # "single --config" /\ invoked.env[f] # NoSetting
           THEN invoked.env[f] ELSE OfFile[f]
  <2>1. CASE invoked.command = "single --config"
    BY <1>1, <2>1 DEF OfBoth
  <2>2. CASE invoked.command # "single --config"
    <3>1. OfBoth = Over(OfFile, invoked.env)
      BY <2>2 DEF OfBoth
    <3>2. \A f \in Fields : Over(OfFile, invoked.env)[f] =
            IF invoked.env[f] = NoSetting THEN OfFile[f] ELSE invoked.env[f]
      BY <1>1, OverField
    <3>3. IsSource(Over(OfFile, invoked.env))
      BY <1>1, OverField
    <3> QED BY <2>2, <3>1, <3>2, <3>3
  <2> QED BY <2>1, <2>2
<1>3. /\ DOMAIN OfBoth = Fields
      /\ {"rate", "risky", "url", "id", "db"} = Fields
  BY <1>2 DEF IsSource, Fields
<1>4. /\ IsSource(OfOptions)
      /\ \A f \in {"url", "id", "db"} : OfOptions[f] = OfBoth[f]
      /\ OfOptions.rate = IF invoked.command \in {"single", "single --config", "schedule"}
                             /\ invoked.cli.rate # NoSetting
                          THEN invoked.cli.rate ELSE OfBoth.rate
      /\ OfOptions.risky = IF invoked.command = "schedule" THEN invoked.cli.risky ELSE OfBoth.risky
  BY <1>2, <1>3 DEF OfOptions, IsSource
<1>5. \A f \in Fields : OfFile[f] = IF invoked.file = Unreadable THEN Defaults[f]
                                    ELSE Over(Defaults, invoked.file)[f]
  BY DEF OfFile
<1> QED BY <1>1, <1>2, <1>4, <1>5

\* The settings before the options are those of the last source but the command line.
LEMMA LastSaidOfBoth ==
  ASSUME invoked \in Commands, NEW f \in Fields, ~OnCommandLine(f)
  PROVE  Unread(f) \/ OfBoth[f] = LastSaid(f)
  BY SourcesTyped DEF LastSaid, Unread

\* Risky rules come from a source.
LEMMA OptedIn ==
  ASSUME invoked \in Commands
  PROVE  /\ OfBoth.risky = TRUE => SomeoneOptsIn
         /\ OfOptions.risky = TRUE => SomeoneOptsIn
<1>1. OfFile.risky = TRUE => SomeoneOptsIn
  <2>1. /\ "risky" \in Fields
        /\ OfFile.risky = IF invoked.file = Unreadable THEN Defaults.risky
                          ELSE Over(Defaults, invoked.file).risky
    BY SourcesTyped DEF Fields
  <2>2. Over(Defaults, invoked.file).risky =
          IF invoked.file.risky = NoSetting THEN Defaults.risky ELSE invoked.file.risky
    <3>1. IsSource(Defaults)
      BY SettingsAssumption
    <3> QED BY <2>1, <3>1, OverField
  <2> QED BY <2>1, <2>2 DEF SomeoneOptsIn
<1>2. OfBoth.risky = TRUE => SomeoneOptsIn
  BY <1>1, SourcesTyped DEF SomeoneOptsIn, Fields
<1> QED BY <1>2, SourcesTyped DEF SomeoneOptsIn

LEMMA SettingsInitInv == SettingsInit => SettingsInv
  BY DEF SettingsInit, SettingsStart, SettingsInv

LEMMA LoadFileInv == SettingsInv /\ LoadFile => SettingsInv'
<1> SUFFICES ASSUME SettingsInv, LoadFile PROVE SettingsInv'
  OBVIOUS
<1>1. /\ invoked' = invoked /\ invoked \in Commands
      /\ config' = OfFile /\ session' = FileProfile
      /\ loading' = IF invoked.command # "single --config" THEN "environment"
                    ELSE IF invoked.file = Unreadable THEN "failed"
                    ELSE "options"
  BY DEF LoadFile, Go, SettingsInv, OfFile, FileProfile
<1>2. session' # NoProfile => IsProfile(session')
  BY <1>1, SettingsAssumption DEF FileProfile
<1>3. OfFile' = OfFile /\ FileProfile' = FileProfile
  BY <1>1 DEF OfFile, FileProfile
<1>4. CASE invoked.command # "single --config"
  BY <1>1, <1>2, <1>3, <1>4 DEF SettingsInv
<1>5. CASE invoked.command = "single --config" /\ invoked.file = Unreadable
  BY <1>1, <1>2, <1>5 DEF SettingsInv
<1>6. CASE invoked.command = "single --config" /\ invoked.file # Unreadable
  <2>1. loading' = "options" /\ OfBoth' = OfFile /\ Unoptioned' = FileProfile /\ Prepared'
    BY <1>1, <1>3, <1>6 DEF OfBoth, Unoptioned, Prepared, Scans
  <2>2. Based(Unoptioned)'
    BY <1>1, <2>1 DEF Based
  <2> QED BY <1>1, <1>2, <1>6, <2>1, <2>2 DEF SettingsInv
<1> QED BY <1>4, <1>5, <1>6

LEMMA ApplyEnvironmentInv == SettingsInv /\ ApplyEnvironment => SettingsInv'
<1> SUFFICES ASSUME SettingsInv, ApplyEnvironment PROVE SettingsInv'
  OBVIOUS
<1> DEFINE loaded == IF invoked.env_file # NoProfile THEN invoked.env_file ELSE session
<1>1. /\ invoked' = invoked /\ invoked \in Commands /\ invoked.command # "single --config"
      /\ config' = Over(config, invoked.env) /\ config = OfFile /\ session = FileProfile
      /\ session' = IF loaded # NoProfile THEN WithEnvironment(loaded, invoked.env_profile)
                    ELSE IF \E f \in {"scope", "validate", "token", "header"} :
                              invoked.env_profile[f] # NoSetting
                    THEN invoked.env_profile
                    ELSE NoProfile
      /\ loading' = IF invoked.command \in {"worker", "serve"} THEN "ready" ELSE "options"
  BY DEF ApplyEnvironment, Go, SettingsInv
<1>2. /\ IsProfile(invoked.env_profile) /\ invoked.env_profile.roles = <<>>
      /\ loaded # NoProfile => IsProfile(loaded)
      /\ loaded = Unoptioned /\ Unoptioned' = Unoptioned
  BY <1>1, SettingsAssumption DEF Unoptioned, FileProfile
<1>3. session' # NoProfile => IsProfile(session')
  BY <1>1, <1>2, EnvironmentField
<1>a. loaded # NoProfile =>
        /\ session'.roles = loaded.roles
        /\ \A f \in {"scope", "header", "validate"} :
             invoked.env_profile[f] # NoSetting => session'[f] = invoked.env_profile[f]
  <2> SUFFICES ASSUME loaded # NoProfile
               PROVE  /\ session'.roles = loaded.roles
                      /\ \A f \in {"scope", "header", "validate"} :
                           invoked.env_profile[f] # NoSetting => session'[f] = invoked.env_profile[f]
    OBVIOUS
  <2>1. session' = WithEnvironment(loaded, invoked.env_profile) /\ IsProfile(loaded)
    BY <1>1, <1>2
  <2> HIDE DEF loaded
  <2> QED BY <2>1, EnvironmentField
<1>b. loaded = NoProfile => session' \in {invoked.env_profile, NoProfile}
  BY <1>1
<1> HIDE DEF loaded
<1>4. Based(Unoptioned)'
  BY <1>1, <1>2, <1>a, <1>b DEF Based
<1>5. OfEnvironment'
  <2>1. CASE loaded # NoProfile
    BY <1>1, <1>a, <2>1 DEF OfEnvironment
  <2>2. CASE loaded = NoProfile
    BY <1>1, <1>b, <2>2 DEF OfEnvironment
  <2> QED BY <2>1, <2>2
<1>6. config' = OfBoth /\ OfBoth' = OfBoth
  BY <1>1 DEF OfBoth, OfFile
<1>7. CASE invoked.command \in {"worker", "serve"}
  <2>1. /\ invoked.command \notin {"single", "single --config", "schedule", "file", "network"}
        /\ loading' = "ready"
    BY <1>1, <1>7
  <2>2. config'.rate = LastSaid("rate")' /\ config'.url = LastSaid("url")'
    <3>1. \A f \in {"rate", "url"} :
            f \in Fields /\ ~OnCommandLine(f) /\ ~Unread(f) /\ LastSaid(f)' = LastSaid(f)
      BY <1>1, <2>1 DEF OnCommandLine, Unread, LastSaid, Fields
    <3>2. \A f \in {"rate", "url"} : OfBoth[f] = LastSaid(f)
      BY <1>1, <3>1, LastSaidOfBoth
    <3> QED BY <1>6, <3>1, <3>2
  <2>a. config'.risky = TRUE => SomeoneOptsIn'
    BY <1>1, <1>6, OptedIn DEF SomeoneOptsIn
  <2>3. ConfigFollows'
    BY <1>1, <2>1, <2>2, <2>a DEF ConfigFollows, Scans
  <2>4. OfRole' /\ ~Prepared'
    BY <1>1, <2>1 DEF OfRole, Scans, Prepared
  <2> QED BY <1>1, <1>3, <1>5, <2>1, <2>3, <2>4 DEF SettingsInv
<1>8. CASE invoked.command \notin {"worker", "serve"}
  <2>1. loading' = "options" /\ Prepared'
    BY <1>1, <1>8, SettingsAssumption DEF Prepared, Scans
  <2> QED BY <1>1, <1>3, <1>4, <1>5, <1>6, <2>1 DEF SettingsInv
<1> QED BY <1>7, <1>8

LEMMA FailOptionsInv == SettingsInv /\ FailOptions => SettingsInv'
  BY DEF SettingsInv, FailOptions, Go

LEMMA ApplyOptionsInv == SettingsInv /\ ApplyOptions => SettingsInv'
<1> SUFFICES ASSUME SettingsInv, ApplyOptions PROVE SettingsInv'
  OBVIOUS
<1>1. /\ invoked' = invoked /\ invoked \in Commands /\ config' = OfOptions
      /\ invoked.option # Unreadable
      /\ loading' = IF invoked.command = "schedule" THEN "refresh" ELSE "role"
      /\ session' = IF invoked.option = NoProfile THEN session
                    ELSE WithEnvironment(invoked.option, invoked.env_profile)
      /\ Prepared /\ Based(Unoptioned)
      /\ invoked.command # "single --config" => OfEnvironment
  BY DEF ApplyOptions, Go, SettingsInv, OfOptions
<1>2. OfOptions' = OfOptions /\ (Prepared' <=> Prepared)
  BY <1>1 DEF OfOptions, OfBoth, OfFile, Prepared
<1>3. session' # NoProfile => IsProfile(session')
  BY <1>1, SettingsAssumption, EnvironmentField DEF SettingsInv
<1>4. Based(Chosen)'
  <2>1. CASE invoked.option = NoProfile
    <3>1. Chosen' = Chosen
      BY <1>1 DEF Chosen
    <3>2. Chosen = Unoptioned
      BY <2>1 DEF Chosen, Unoptioned, FileProfile
    <3> QED BY <1>1, <2>1, <3>1, <3>2 DEF Based
  <2>2. CASE invoked.option # NoProfile
    <3>1. Chosen' = Chosen
      BY <1>1 DEF Chosen
    <3>2. Chosen = invoked.option
      BY <2>2 DEF Chosen
    <3>3. session'.roles = invoked.option.roles
      BY <1>1, <2>2, SettingsAssumption, EnvironmentField
    <3> QED BY <2>2, <3>1, <3>2, <3>3 DEF Based
  <2> QED BY <2>1, <2>2
<1>5. HasEnvironment' => OfEnvironment'
  <2>1. CASE invoked.option = NoProfile
    BY <1>1, <2>1 DEF HasEnvironment, OfEnvironment
  <2>2. CASE invoked.option # NoProfile
    <3>1. \A f \in {"scope", "header", "validate"} :
            invoked.env_profile[f] # NoSetting => session'[f] = invoked.env_profile[f]
      <4>1. session' = WithEnvironment(invoked.option, invoked.env_profile)
        BY <1>1, <2>2
      <4>2. IsProfile(invoked.option)
        BY <1>1, <2>2, SettingsAssumption
      <4> QED BY <4>1, <4>2, EnvironmentField
    <3> QED BY <1>1, <3>1 DEF OfEnvironment
  <2> QED BY <2>1, <2>2
<1>6. CASE invoked.command = "schedule"
  <2>1. OfRole'
    BY <1>1, <1>6 DEF OfRole, Scans
  <2> QED BY <1>1, <1>2, <1>3, <1>5, <1>6, <2>1 DEF SettingsInv
<1>7. CASE invoked.command # "schedule"
  <2>1. invoked.command \in Scans
    BY <1>1, <1>7 DEF Prepared
  <2> QED BY <1>1, <1>2, <1>3, <1>4, <1>5, <1>7, <2>1 DEF SettingsInv
<1> QED BY <1>6, <1>7

LEMMA ChooseRoleInv == SettingsInv /\ ChooseRole => SettingsInv'
<1> SUFFICES ASSUME SettingsInv, ChooseRole PROVE SettingsInv'
  OBVIOUS
<1>1. /\ invoked' = invoked /\ invoked \in Commands /\ config' = OfOptions
      /\ invoked.command \in Scans /\ Prepared
      /\ Based(Chosen) /\ (HasEnvironment => OfEnvironment)
  BY DEF ChooseRole, Go, SettingsInv
<1>2. OfOptions' = OfOptions /\ (Prepared' <=> Prepared) /\ (HasEnvironment' <=> HasEnvironment)
      /\ Chosen' = Chosen
  BY <1>1 DEF OfOptions, OfBoth, OfFile, Prepared, HasEnvironment, Chosen
<1>3. CASE invoked.role = NoSetting
  <2>1. loading' = "refresh" /\ session' = session
    BY <1>3 DEF ChooseRole, Go
  <2>2. OfRole' /\ (HasEnvironment' => OfEnvironment')
    BY <1>1, <1>2, <1>3, <2>1 DEF OfRole, OfEnvironment
  <2> QED BY <1>1, <1>2, <2>1, <2>2 DEF SettingsInv
<1>4. CASE invoked.role # NoSetting /\ HasRole
  <2> DEFINE role == session.roles[invoked.role]
  <2>1. /\ loading' = "refresh" /\ session' = Selected(session, role)
        /\ session # NoProfile /\ invoked.role \in DOMAIN session.roles /\ IsProfile(session)
    BY <1>4 DEF ChooseRole, Go, HasRole, SettingsInv
  <2>2. Chosen # NoProfile /\ session.roles = Chosen.roles
    BY <1>1, <2>1 DEF Based
  <2>3. /\ IsProfile(session') /\ session'.roles = <<>>
        /\ session'.cookies = Extended(session.cookies, role.cookies)
        /\ \A f \in {"scope", "header", "token"} : role[f] # NoSetting => session'[f] = role[f]
    BY <2>1, SelectedField
  <2>a. \A name \in DOMAIN role.cookies :
          name \in DOMAIN session'.cookies /\ session'.cookies[name] = role.cookies[name]
    BY <2>3 DEF Extended
  <2>4. OfRole'
    BY <1>1, <1>2, <2>2, <2>3, <2>a DEF OfRole
  <2> QED BY <1>1, <1>2, <1>4, <2>1, <2>3, <2>4 DEF SettingsInv
<1>5. CASE invoked.role # NoSetting /\ ~HasRole
  <2>1. loading' = "failed" /\ session' = session
    BY <1>5 DEF ChooseRole, Go
  <2> QED BY <1>1, <2>1 DEF SettingsInv
<1> QED BY <1>3, <1>4, <1>5

LEMMA RefreshSessionInv == SettingsInv /\ RefreshSession => SettingsInv'
<1> SUFFICES ASSUME SettingsInv, RefreshSession PROVE SettingsInv'
  OBVIOUS
<1>1. /\ invoked' = invoked /\ invoked \in Commands /\ config' = config /\ config = OfOptions
      /\ Prepared /\ OfRole /\ validated' = validated
      /\ (invoked.command \notin Scans \/ invoked.role = NoSetting) /\ HasEnvironment =>
            OfEnvironment
      /\ session # NoProfile => IsProfile(session)
  BY DEF RefreshSession, Go, SettingsInv
<1>2. OfOptions' = OfOptions /\ (Prepared' <=> Prepared) /\ (HasEnvironment' <=> HasEnvironment)
      /\ Chosen' = Chosen
  BY <1>1 DEF OfOptions, OfBoth, OfFile, Prepared, HasEnvironment, Chosen
<1>3. CASE ~Refreshes /\ loading' = "validate" /\ session' = session
  BY <1>1, <1>2, <1>3 DEF SettingsInv, OfRole, OfEnvironment, Refreshes
<1>4. CASE loading' = "failed" /\ session' = session
  BY <1>1, <1>4 DEF SettingsInv
<1>5. CASE Refreshes /\ loading' = "validate" /\ printed' \in Tokens
           /\ session' = [session EXCEPT !.token = printed']
  <2>1. session # NoProfile /\ session.refresh # NoSetting
    BY <1>5 DEF Refreshes
  <2>2. /\ IsProfile(session') /\ session'.token = printed'
        /\ \A f \in SessionFields \ {"token"} : session'[f] = session[f]
    BY <1>1, <1>5, <2>1 DEF IsProfile, SessionFields
  <2>3. OfRole'
    BY <1>1, <1>2, <2>1, <2>2 DEF OfRole, SessionFields
  <2>4. (invoked'.command \notin Scans \/ invoked'.role = NoSetting) /\ HasEnvironment' =>
            OfEnvironment'
    BY <1>1, <1>2, <2>1, <2>2 DEF OfEnvironment, SessionFields
  <2> QED BY <1>1, <1>2, <1>5, <2>2, <2>3, <2>4 DEF SettingsInv
<1> QED BY <1>3, <1>4, <1>5 DEF RefreshSession, Go

LEMMA ValidateSessionInv == SettingsInv /\ ValidateSession => SettingsInv'
<1> SUFFICES ASSUME SettingsInv, ValidateSession PROVE SettingsInv'
  OBVIOUS
<1>1. /\ invoked' = invoked /\ invoked \in Commands /\ config' = config /\ config = OfOptions
      /\ Prepared /\ OfRole /\ session' = session /\ printed' = printed
      /\ (invoked.command \notin Scans \/ invoked.role = NoSetting) /\ HasEnvironment =>
            OfEnvironment
      /\ session # NoProfile => IsProfile(session)
      /\ session # NoProfile =>
           (session.refresh # NoSetting => printed \in Tokens /\ session.token = printed)
  BY DEF ValidateSession, Go, SettingsInv
<1>2. OfOptions' = OfOptions /\ (Prepared' <=> Prepared) /\ (HasEnvironment' <=> HasEnvironment)
      /\ Chosen' = Chosen
  BY <1>1 DEF OfOptions, OfBoth, OfFile, Prepared, HasEnvironment, Chosen
<1>3. OfRole' /\ (OfEnvironment' <=> OfEnvironment)
  BY <1>1, <1>2 DEF OfRole, OfEnvironment
<1>4. CASE loading' = "failed"
  BY <1>1, <1>4 DEF SettingsInv
<1>5. ASSUME loading' = IF invoked.command = "schedule" THEN "ready" ELSE "oast",
             session # NoProfile /\ session.validate # NoSetting => validated' = session
      PROVE  SettingsInv'
  <2>1. CASE invoked.command # "schedule"
    <3>1. invoked.command \in Scans /\ loading' = "oast"
      BY <1>1, <1>5, <2>1 DEF Prepared
    <3> QED BY <1>1, <1>2, <1>3, <1>5, <3>1 DEF SettingsInv
  <2>2. CASE invoked.command = "schedule"
    <3>1. invoked.command \notin {"single", "single --config", "file", "network"}
      BY <2>2
    <3>2. config'.rate = LastSaid("rate")' /\ config'.url = LastSaid("url")'
      <4>1. config.url = LastSaid("url")
        BY <1>1, <2>2, SourcesTyped, LastSaidOfBoth DEF OnCommandLine, Unread, Fields
      <4>2. config.rate = LastSaid("rate")
        BY <1>1, <2>2, SourcesTyped, LastSaidOfBoth DEF OnCommandLine, Unread, Fields, LastSaid
      <4> QED BY <1>1, <4>1, <4>2 DEF LastSaid, OnCommandLine
    <3>3. config'.risky = invoked.cli.risky /\ (config'.risky = TRUE => SomeoneOptsIn')
      BY <1>1, <2>2, SourcesTyped, OptedIn DEF SomeoneOptsIn
    <3>4. ConfigFollows'
      BY <1>1, <2>2, <3>1, <3>2, <3>3 DEF ConfigFollows, Scans
    <3>5. loading' = "ready"
      BY <1>5, <2>2
    <3> QED BY <1>1, <1>2, <1>3, <1>5, <3>4, <3>5 DEF SettingsInv
  <2> QED BY <2>1, <2>2
<1> QED BY <1>1, <1>4, <1>5 DEF ValidateSession, Go, Validates

LEMMA ApplyOastInv == SettingsInv /\ ApplyOast => SettingsInv'
<1> SUFFICES ASSUME SettingsInv, ApplyOast PROVE SettingsInv'
  OBVIOUS
<1> DEFINE risked == [config EXCEPT !.risky = IF invoked.cli.risky THEN TRUE ELSE @]
<1>1. /\ invoked' = invoked /\ invoked \in Commands /\ config = OfOptions
      /\ invoked.command \in Scans /\ session' = session /\ printed' = printed
      /\ validated' = validated /\ loading' = "ready" /\ OfRole
      /\ config' = OastOptions(risked, invoked.cli)
  BY DEF ApplyOast, Go, SettingsInv
<1>2. /\ (Prepared' <=> Prepared) /\ (HasEnvironment' <=> HasEnvironment)
      /\ OfRole' /\ (OfEnvironment' <=> OfEnvironment)
  BY <1>1 DEF Prepared, HasEnvironment, Chosen, OfRole, OfEnvironment
<1>3. IsSource(config)
  BY <1>1, SourcesTyped
<1>4. /\ IsSource(risked) /\ risked.risky = IF invoked.cli.risky THEN TRUE ELSE config.risky
      /\ \A f \in Fields \ {"risky"} : risked[f] = config[f]
  BY <1>3 DEF IsSource, Fields
<1> HIDE DEF risked
<1>5. /\ config'.rate = config.rate /\ config'.risky = risked.risky
      /\ config'.url = IF invoked.cli.url # NoSetting THEN invoked.cli.url ELSE config.url
  BY <1>1, <1>4 DEF OastOptions, IsSource, Fields
<1>6. config'.url # NoSetting => NoSetting \notin {config'.id, config'.db}
  BY <1>1, <1>4, SettingsAssumption DEF OastOptions, IsSource, Fields
<1>7. invoked.command # "schedule"
  BY <1>1 DEF Scans
<1>8. \A f \in {"rate", "url"} : Unread(f)' \/ config'[f] = LastSaid(f)'
  <2>1. ASSUME NEW f \in {"rate", "url"} PROVE Unread(f) \/ config'[f] = LastSaid(f)
    <3>1. CASE OnCommandLine(f)
      BY <1>1, <1>5, <1>7, <2>1, <3>1, SourcesTyped DEF LastSaid, OnCommandLine, Fields, Scans
    <3>2. CASE ~OnCommandLine(f)
      <4>1. config'[f] = OfBoth[f]
        BY <1>1, <1>5, <1>7, <2>1, <3>2, SourcesTyped DEF OnCommandLine, Fields, Scans
      <4> QED BY <1>1, <3>2, <4>1, LastSaidOfBoth DEF Fields
    <3> QED BY <3>1, <3>2
  <2> QED BY <1>1, <2>1 DEF LastSaid, Unread, OnCommandLine
<1>9. /\ invoked.cli.risky => config'.risky = TRUE
      /\ ~invoked.cli.risky => config'.risky = OfBoth.risky
      /\ config'.risky = TRUE => SomeoneOptsIn'
  BY <1>1, <1>4, <1>5, <1>7, SourcesTyped, OptedIn DEF SomeoneOptsIn
<1>a. ~invoked.cli.risky /\ (invoked.command # "single --config" \/ invoked.env.risky = NoSetting)
        => config'.risky = IF invoked.env.risky # NoSetting THEN invoked.env.risky
                           ELSE IF invoked.file # Unreadable THEN Over(Defaults, invoked.file).risky
                           ELSE Defaults.risky
  BY <1>1, <1>9, SourcesTyped DEF Fields
<1>10. ConfigFollows'
  BY <1>1, <1>6, <1>7, <1>8, <1>9, <1>a DEF ConfigFollows
<1>11. /\ session' # NoProfile => IsProfile(session')
       /\ (invoked'.command \notin Scans \/ invoked'.role = NoSetting) /\ HasEnvironment' =>
            OfEnvironment'
       /\ session' # NoProfile =>
            (session'.refresh # NoSetting => printed' \in Tokens /\ session'.token = printed')
       /\ session' # NoProfile => (session'.validate # NoSetting => validated' = session')
  BY <1>1, <1>2 DEF SettingsInv, ApplyOast, Go
<1> QED BY <1>1, <1>2, <1>10, <1>11 DEF SettingsInv

LEMMA SettingsStutterInv == SettingsInv /\ UNCHANGED settingsVars => SettingsInv'
<1> SUFFICES ASSUME SettingsInv, UNCHANGED settingsVars PROVE SettingsInv'
  OBVIOUS
<1>1. /\ invoked' = invoked /\ loading' = loading /\ config' = config /\ session' = session
      /\ printed' = printed /\ validated' = validated
  BY DEF settingsVars
<1>2. OfFile' = OfFile /\ FileProfile' = FileProfile
  BY <1>1 DEF OfFile, FileProfile
<1>3. OfBoth' = OfBoth /\ Unoptioned' = Unoptioned /\ Chosen' = Chosen
  BY <1>1, <1>2 DEF OfBoth, Unoptioned, Chosen
<1>4. OfOptions' = OfOptions /\ (Prepared' <=> Prepared) /\ (HasEnvironment' <=> HasEnvironment)
  BY <1>1, <1>3 DEF OfOptions, Prepared, HasEnvironment
<1>5. /\ Based(Unoptioned)' <=> Based(Unoptioned)
      /\ Based(Chosen)' <=> Based(Chosen)
      /\ OfEnvironment' <=> OfEnvironment
      /\ OfRole' <=> OfRole
  BY <1>1, <1>3 DEF Based, OfEnvironment, OfRole
<1>6. \A f : LastSaid(f)' = LastSaid(f) /\ (Unread(f)' <=> Unread(f))
  BY <1>1 DEF LastSaid, OnCommandLine, Unread
<1>7. ConfigFollows' <=> ConfigFollows
  BY <1>1, <1>6 DEF ConfigFollows, SomeoneOptsIn
<1> QED BY <1>1, <1>2, <1>3, <1>4, <1>5, <1>7 DEF SettingsInv

\* What a command is run with follows from its sources (config.rs, session.rs,
\* main.rs), whatever they say, and whatever the refresh command and the validate URL
\* answer.
THEOREM SettingsAlwaysFollow == SettingsSpec => []SettingsFollowSources
<1>1. SettingsInv /\ [SettingsNext]_settingsVars => SettingsInv'
  BY LoadFileInv, ApplyEnvironmentInv, FailOptionsInv, ApplyOptionsInv, ChooseRoleInv,
     RefreshSessionInv, ValidateSessionInv, ApplyOastInv, SettingsStutterInv DEF SettingsNext
<1>2. SettingsInv => SettingsFollowSources
  BY DEF SettingsInv, SettingsFollowSources, SessionFollows, OfRole, OfEnvironment,
         HasEnvironment, Prepared, CookiesSent
<1> QED BY <1>1, <1>2, SettingsInitInv, PTL DEF SettingsSpec

-------------------------------------------------------------------------------
\* RuleScan: what a rule sends, and the three readings of the directory.

ShapedRule(rule) ==
  /\ rule.steps \in Seq({rule.steps[k] : k \in DOMAIN rule.steps})
  /\ rule.points \in Seq({rule.points[k] : k \in DOMAIN rule.points})

\* What the requests of a rule are made from.
Marks(rule) ==
  rule.payload \cup rule.headers \cup rule.body
    \cup UNION {s.payload \cup s.headers \cup s.body : s \in ToSet(rule.steps)}

LEMMA RenderedMarks ==
  ASSUME NEW marks, NEW rule, marks \subseteq Marks(rule), NEW callback
  PROVE  /\ Rendered(marks, callback) \in {NoValue} \cup SUBSET Marks(rule)
         /\ Rendered(marks, callback) = NoValue \/ ("oast" \in Rendered(marks, callback) => callback)
  BY DEF Rendered

\* A sequence of requests that can only hold what its rule holds, and no callback
\* without a callback URL.
Requests(rule, callback) ==
  {m \in {NoValue} \cup SUBSET Marks(rule) : m = NoValue \/ ("oast" \in m => callback)}

LEMMA RequestsShape ==
  ASSUME NEW rule, ShapedRule(rule), NEW parameter, NEW callback
  PROVE  RequestsOf(rule, parameter, callback) \in Seq(Requests(rule, callback))
<1> DEFINE points == InjectionPoints(rule, parameter)
           Of(s) == Rendered(s.payload \cup s.headers \cup s.body, callback)
           S == Requests(rule, callback)
<1>1. Of(rule) \in S
  <2>1. rule.payload \cup rule.headers \cup rule.body \subseteq Marks(rule)
    BY DEF Marks
  <2>2. /\ Of(rule) \in {NoValue} \cup SUBSET Marks(rule)
        /\ Of(rule) = NoValue \/ ("oast" \in Of(rule) => callback)
    BY <2>1, RenderedMarks
  <2> QED BY <2>2 DEF Requests
<1>2. ASSUME NEW k \in DOMAIN rule.steps PROVE Of(rule.steps[k]) \in S
  <2>1. rule.steps[k] \in ToSet(rule.steps)
    BY DEF ToSet
  <2>2. rule.steps[k].payload \cup rule.steps[k].headers \cup rule.steps[k].body \subseteq Marks(rule)
    BY <2>1 DEF Marks
  <2> DEFINE held == rule.steps[k].payload \cup rule.steps[k].headers \cup rule.steps[k].body
  <2>3. Of(rule.steps[k]) = Rendered(held, callback) /\ held \subseteq Marks(rule)
    BY <2>2
  <2> HIDE DEF held, Of
  <2>4. /\ Rendered(held, callback) \in {NoValue} \cup SUBSET Marks(rule)
        /\ Rendered(held, callback) = NoValue \/ ("oast" \in Rendered(held, callback) => callback)
    BY <2>3, RenderedMarks
  <2> QED BY <2>3, <2>4 DEF Requests
<1>3. ASSUME NEW point, NEW marks, marks \subseteq rule.payload
      PROVE  Injected(rule, point, parameter, marks, callback) \in S
  <2>1. marks \cup rule.headers \cup rule.body \subseteq Marks(rule)
    BY <1>3 DEF Marks
  <2>2. Rendered(marks \cup rule.headers \cup rule.body, callback) \in S
    BY <2>1, RenderedMarks DEF Requests
  <2>3. NoValue \in S
    BY DEF Requests
  <2> QED BY <2>2, <2>3 DEF Injected
<1>4. CASE rule.steps # <<>>
  <2>1. RequestsOf(rule, parameter, callback) = [i \in DOMAIN rule.steps |-> Of(rule.steps[i])]
    BY <1>4 DEF RequestsOf
  <2>2. Len(rule.steps) \in Nat /\ DOMAIN rule.steps = 1 .. Len(rule.steps)
    BY DEF ShapedRule
  <2> HIDE DEF Of, S
  <2>3. [i \in 1 .. Len(rule.steps) |-> Of(rule.steps[i])] \in Seq(S)
    BY <1>2, <2>2
  <2> QED BY <2>1, <2>2, <2>3 DEF S
<1>5. CASE rule.steps = <<>> /\ rule.verify.match = "time"
  <2> DEFINE In(i) == Injected(rule, points[(i + 1) \div 2], parameter,
                               IF i % 2 = 1 THEN {} ELSE rule.payload, callback)
  <2>1. RequestsOf(rule, parameter, callback) = [i \in 1 .. 2 * Len(points) |-> In(i)]
    BY <1>5 DEF RequestsOf
  <2>2. Len(points) \in Nat
    BY DEF ShapedRule, InjectionPoints
  <2>3. \A i \in 1 .. 2 * Len(points) : In(i) \in S
    BY <1>3
  <2> HIDE DEF In, S, points
  <2>4. [i \in 1 .. 2 * Len(points) |-> In(i)] \in Seq(S)
    BY <2>2, <2>3
  <2> QED BY <2>1, <2>4 DEF S
<1>6. CASE rule.steps = <<>> /\ rule.verify.match # "time"
  <2>1. RequestsOf(rule, parameter, callback) \in {<<>>, <<Of(rule)>>}
    BY <1>6 DEF RequestsOf
  <2> HIDE DEF Of, S
  <2>2. <<>> \in Seq(S) /\ <<Of(rule)>> \in Seq(S)
    BY <1>1
  <2> QED BY <2>1, <2>2 DEF S
<1> QED BY <1>4, <1>5, <1>6

LEMMA MinIn ==
  ASSUME NEW S, S \subseteq Nat, S # {}
  PROVE  Min(S) \in S
<1>1. PICK m \in S : \A y \in S : ~(<<y, m>> \in OpToRel(<, Nat))
  BY NatLessThanWellFounded, WFMin
<1>2. \A y \in S : m <= y
  <2>1. \A y \in S : ~(y < m)
    BY <1>1 DEF OpToRel
  <2> QED BY <2>1
<1> QED BY <1>2 DEF Min

\* What one execution sends is made of what the rule holds, and nothing is found
\* without a request.
LEMMA ExecuteSends ==
  ASSUME NEW rule, ShapedRule(rule), NEW parameter, NEW callback, NEW world
  PROVE  /\ \A m \in Execute(rule, parameter, callback, world).sent :
              m \subseteq Marks(rule) /\ ("oast" \in m => callback)
         /\ Execute(rule, parameter, callback, world).found =>
              Execute(rule, parameter, callback, world).sent # {}
<1> DEFINE requests == RequestsOf(rule, parameter, callback)
           Answer(i) == IF requests[i] = NoValue THEN NoReply ELSE Send(world[i])
           Timed == rule.steps = <<>> /\ rule.verify.match = "time"
           threshold == IF rule.verify.threshold = NoValue THEN 5 ELSE rule.verify.threshold
           Delayed(i) == /\ i % 2 = 0 /\ Answer(i - 1) # NoReply
                         /\ \E s \in {Answer(i).status, Answer(i - 1).status} : CodeOk(rule.verify, s)
                         /\ Answer(i).time >= Answer(i - 1).time + threshold
           Stops(i) == \/ Answer(i) = NoReply
                       \/ IF Timed THEN Delayed(i) ELSE ~Matches(Verifiers(rule)[i], Answer(i))
           stops == {i \in DOMAIN requests : Stops(i)}
           stop == IF stops = {} THEN 0 ELSE Min(stops)
           n == Len(requests)
           last == IF stop = 0 THEN n ELSE stop
           sent == {requests[i] : i \in 1 .. last} \ {NoValue}
           found == requests # <<>> /\ IF Timed THEN stop # 0 /\ Answer(stop) # NoReply ELSE stop = 0
<1>1. /\ Execute(rule, parameter, callback, world).found = found
      /\ Execute(rule, parameter, callback, world).sent = sent
  BY DEF Execute
<1>2. requests \in Seq(Requests(rule, callback))
  BY RequestsShape
<1>3. n \in Nat /\ DOMAIN requests = 1 .. n /\ \A i \in 1 .. n : requests[i] \in Requests(rule, callback)
  BY <1>2
<1>4. \A i \in 1 .. n : i \notin stops => Answer(i) # NoReply
  BY <1>3
<1>9. stops \subseteq 1 .. n
  BY <1>3
<1> HIDE DEF requests, n
<1> HIDE DEF stops
<1>5. stop \in stops \/ (stop = 0 /\ stops = {})
  <2>1. stops \subseteq Nat
    BY <1>3, <1>9
  <2>2. stops # {} => Min(stops) \in stops
    BY <2>1, MinIn, Zenon
  <2> QED BY <2>2
<1> HIDE DEF stop
<1>6. stop \in 0 .. n /\ (stop = 0 <=> stops = {})
  <2>1. n \in Nat
    BY <1>3
  <2>2. CASE stop \in stops
    <3>1. stop \in 1 .. n
      BY <1>9, <2>2
    <3> QED BY <2>1, <2>2, <3>1
  <2>3. CASE stop = 0 /\ stops = {}
    BY <2>1, <2>3
  <2> QED BY <1>5, <2>2, <2>3
<1>7. ASSUME NEW m \in sent
      PROVE  m \subseteq Marks(rule) /\ ("oast" \in m => callback)
  <2>1. PICK i \in 1 .. last : m = requests[i]
    OBVIOUS
  <2>2. i \in 1 .. n
    BY <1>3, <1>6, <2>1
  <2> QED BY <1>3, <1>7, <2>1, <2>2 DEF Requests
<1>8. ASSUME found PROVE sent # {}
  <2>1. CASE Timed
    <3>1. stop # 0 /\ Answer(stop) # NoReply
      BY <1>8, <2>1
    <3>2. requests[stop] # NoValue /\ stop \in 1 .. last
      BY <1>3, <1>6, <3>1
    <3> QED BY <3>2
  <2>2. CASE ~Timed
    <3>1. stop = 0 /\ requests # <<>>
      BY <1>8, <2>2
    <3>2. 1 \in 1 .. n
      BY <1>2, <1>3, <3>1 DEF n
    <3>3. Answer(1) # NoReply
      BY <1>4, <1>6, <3>1, <3>2
    <3>4. requests[1] # NoValue /\ 1 \in 1 .. last
      BY <3>1, <3>2, <3>3
    <3> QED BY <3>4
  <2> QED BY <2>1, <2>2
<1> HIDE DEF sent, found
<1> QED BY <1>1, <1>7, <1>8

Count == Len(job.files)

Parsed(i) == job.files[i].kind \in {"http", "network"} /\ job.files[i].parses

IdOf(i) == job.files[i].rule.id

\* What a valid file has, as far as loading asks for it.
Accepted(i) ==
  /\ Parsed(i) /\ IdOf(i) # "" /\ job.files[i].rule.schema = Schema
  /\ job.files[i].kind = "network" => \A p \in Patterns(job.files[i].rule.matcher) : p.valid
  /\ \A k \in 1 .. i - 1 : Parsed(k) => IdOf(k) # IdOf(i)

ValidationOk(v) ==
  /\ v.risk # "safe" => v.ack
  /\ v.valid => \E i \in 1 .. Count : v.file = job.files[i] /\ Accepted(i)

AllLoaded(kind, k, ruleSet) ==
  \A i \in 1 .. k : Accepted(i) /\ job.files[i].kind = kind => job.files[i].rule \in ruleSet

OneEach(ruleSet) == \A r, s \in ruleSet : r.id = s.id => r = s

TakenBy(k) == {IdOf(i) : i \in {j \in 1 .. k : Parsed(j)}}

IdsOf(ruleSet) == {r.id : r \in ruleSet}

RuleInv ==
  /\ job \in RuleJobs
  /\ reading \in {"validate", "load", "network", "done"} /\ listed \in 0 .. Count
  /\ \A v \in validations : ValidationOk(v)
  /\ reading = "validate" => taken = TakenBy(listed) /\ httpRules = {}
  /\ reading \in {"validate", "load"} => networkRules = {} /\ executions = {}
  /\ reading = "load" => AllLoaded("http", listed, httpRules) /\ IdsOf(httpRules) \subseteq taken
  /\ reading = "network" =>
       AllLoaded("network", listed, networkRules) /\ IdsOf(networkRules) \subseteq taken
  /\ reading \in {"load", "network"} => taken \subseteq TakenBy(listed)
  /\ reading \in {"network", "done"} => AllLoaded("http", Count, httpRules)
  /\ reading = "done" => AllLoaded("network", Count, networkRules)
  /\ OneEach(httpRules) /\ OneEach(networkRules)
  /\ \A r \in httpRules : ShapedRule(r)
  /\ RequestsAllowed
  /\ \A f \in serviceFindings : f[1].risk # "safe" => job.allow

LEMMA FilesTyped ==
  ASSUME job \in RuleJobs
  PROVE  /\ Count \in Nat /\ DOMAIN job.files = 1 .. Count
         /\ \A i \in 1 .. Count : job.files[i].kind = "http" => ShapedRule(job.files[i].rule)
<1>1. PICK S : job.files \in Seq(S)
  BY RuleAssumption
<1>2. Count \in Nat /\ DOMAIN job.files = 1 .. Count
  BY <1>1 DEF Count
<1> QED BY <1>2, RuleAssumption DEF ShapedRule

LEMMA SameJob ==
  ASSUME job' = job
  PROVE  /\ Count' = Count
         /\ \A i : (Parsed(i)' <=> Parsed(i)) /\ IdOf(i)' = IdOf(i) /\ (Accepted(i)' <=> Accepted(i))
         /\ \A v : ValidationOk(v)' <=> ValidationOk(v)
         /\ \A kind, k, ruleSet : AllLoaded(kind, k, ruleSet)' <=> AllLoaded(kind, k, ruleSet)
         /\ \A k : TakenBy(k)' = TakenBy(k)
<1>1. Count' = Count
  BY DEF Count
<1>2. \A i : (Parsed(i)' <=> Parsed(i)) /\ IdOf(i)' = IdOf(i)
  BY DEF Parsed, IdOf
<1>3. \A i : Accepted(i)' <=> Accepted(i)
  BY <1>2 DEF Accepted
<1>4. \A v : ValidationOk(v)' <=> ValidationOk(v)
  BY <1>1, <1>3 DEF ValidationOk
<1>5. \A kind, k, ruleSet : AllLoaded(kind, k, ruleSet)' <=> AllLoaded(kind, k, ruleSet)
  BY <1>3 DEF AllLoaded
<1>6. \A k : TakenBy(k)' = TakenBy(k)
  BY <1>2 DEF TakenBy
<1> QED BY <1>1, <1>2, <1>3, <1>4, <1>5, <1>6

\* The identifiers of one more file.
LEMMA TakenMore ==
  ASSUME NEW k \in Nat
  PROVE  TakenBy(k + 1) = IF Parsed(k + 1) THEN TakenBy(k) \cup {IdOf(k + 1)} ELSE TakenBy(k)
<1>1. 1 .. k + 1 = (1 .. k) \cup {k + 1}
  OBVIOUS
<1> QED BY <1>1 DEF TakenBy

LEMMA AllLoadedMore ==
  ASSUME NEW k \in Nat, NEW kind, NEW old, NEW new, old \subseteq new,
         AllLoaded(kind, k, old),
         Accepted(k + 1) /\ job.files[k + 1].kind = kind => job.files[k + 1].rule \in new
  PROVE  AllLoaded(kind, k + 1, new)
<1>1. 1 .. k + 1 = (1 .. k) \cup {k + 1}
  OBVIOUS
<1> QED BY <1>1 DEF AllLoaded

\* An accepted file has an identifier that no earlier file has.
LEMMA AcceptedFree ==
  ASSUME NEW k \in Nat, Accepted(k + 1)
  PROVE  IdOf(k + 1) \notin TakenBy(k)
<1>1. 1 .. (k + 1) - 1 = 1 .. k
  OBVIOUS
<1> QED BY <1>1 DEF Accepted, TakenBy

LEMMA RuleInitial == RuleInit => RuleInv
<1> SUFFICES ASSUME RuleInit PROVE RuleInv
  OBVIOUS
<1>1. Count \in Nat /\ 1 .. 0 = {}
  BY FilesTyped DEF RuleInit
<1>2. TakenBy(0) = {}
  BY <1>1 DEF TakenBy
<1> QED BY <1>1, <1>2 DEF RuleInit, RuleInv, OneEach, RequestsAllowed

\* What every reading of one more file leaves alone.
LEMMA LookTyped ==
  ASSUME RuleInv, job' = job, NEW what, Look(what)
  PROVE  /\ listed \in Nat /\ listed + 1 \in 1 .. Count /\ listed' = listed + 1
         /\ listed' \in 0 .. Count' /\ reading = what
         /\ DOMAIN job.files = 1 .. Count
  BY FilesTyped, SameJob DEF RuleInv, Look, Count

LEMMA ValidateFileInv == RuleInv /\ ValidateFile => RuleInv'
<1> SUFFICES ASSUME RuleInv, ValidateFile PROVE RuleInv'
  OBVIOUS
<1>1. /\ UNCHANGED <<job, reading, httpRules, networkRules, executions, serviceFindings>>
      /\ Look("validate")
  BY DEF ValidateFile
<1>2. /\ listed \in Nat /\ listed + 1 \in 1 .. Count /\ listed' = listed + 1
      /\ listed' \in 0 .. Count' /\ reading = "validate"
  BY <1>1, LookTyped
<1>3. PICK this : this = listed + 1
  OBVIOUS
<1>4. File = job.files[this] /\ taken = TakenBy(listed)
      /\ \A v \in validations : ValidationOk(v)
  BY <1>2, <1>3 DEF File, RuleInv
<1>5. taken' = TakenBy(this)
  <2>1. TakenBy(this) = IF Parsed(this) THEN TakenBy(listed) \cup {IdOf(this)} ELSE TakenBy(listed)
    BY <1>2, <1>3, TakenMore
  <2> QED BY <1>4, <2>1 DEF ValidateFile, Parsed, IdOf
<1>6. ASSUME NEW v \in validations' PROVE ValidationOk(v)
  <2>1. CASE v \in validations
    BY <1>4, <2>1
  <2>2. CASE v \notin validations
    <3>1. /\ File.kind \in {"http", "network"}
          /\ v = Validation(File, File.rule.id \in taken)
      BY <1>6, <2>2 DEF ValidateFile
    <3>2. PICK duplicate \in BOOLEAN : duplicate = (File.rule.id \in taken)
      <4>1. CASE File.rule.id \in taken
        <5>1. TRUE = (File.rule.id \in taken)
          BY <4>1
        <5> QED BY <5>1
      <4>2. CASE File.rule.id \notin taken
        <5>1. FALSE = (File.rule.id \in taken)
          BY <4>2
        <5> QED BY <5>1
      <4> QED BY <4>1, <4>2
    <3>3. v = Validation(File, duplicate)
      BY <3>1, <3>2
    <3>4. v.file = File /\ (v.risk # "safe" => v.ack)
      BY <3>3 DEF Validation, NeedsAckNetwork, NeedsAck, EffectiveRisk
    <3>5. ASSUME v.valid PROVE Accepted(this)
      <4>1. File.parses /\ (File.kind = "network" => ~NetworkIssue(File.rule, duplicate))
            /\ (File.kind = "http" => ~RuleIssue(File.rule, duplicate))
        <5>1. CASE ~File.parses
          <6>1. v.valid = FALSE
            BY <3>3, <5>1 DEF Validation
          <6> QED BY <3>5, <6>1
        <5>2. CASE File.parses /\ File.kind = "network"
          <6>1. v.valid = (~NetworkIssue(File.rule, duplicate))
            BY <3>3, <5>2 DEF Validation
          <6>2. ~NetworkIssue(File.rule, duplicate)
            BY <3>5, <6>1, Zenon
          <6> QED BY <5>2, <6>2
        <5>3. CASE File.parses /\ File.kind # "network"
          <6>1. v.valid = (~RuleIssue(File.rule, duplicate))
            BY <3>3, <5>3 DEF Validation
          <6>2. ~RuleIssue(File.rule, duplicate)
            BY <3>5, <6>1, Zenon
          <6> QED BY <5>3, <6>2
        <5> QED BY <5>1, <5>2, <5>3
      <4>2. /\ ~duplicate /\ File.rule.schema = Schema /\ File.rule.id # ""
            /\ File.kind = "network" => \A p \in Patterns(File.rule.matcher) : p.valid
        BY <3>1, <4>1 DEF NetworkIssue, RuleIssue, CommonIssue
      <4>3. \A k \in 1 .. this - 1 : Parsed(k) => IdOf(k) # IdOf(this)
        <5>1. this - 1 = listed
          BY <1>2, <1>3
        <5> QED BY <1>4, <3>2, <4>2, <5>1 DEF TakenBy, IdOf
      <4> QED BY <1>4, <3>1, <4>1, <4>2, <4>3 DEF Accepted, Parsed, IdOf
    <3> QED BY <1>2, <1>3, <1>4, <3>4, <3>5 DEF ValidationOk
  <2> QED BY <2>1, <2>2
<1>7. RequestsAllowed'
  BY <1>1, <1>2 DEF RuleInv, RequestsAllowed
<1> QED BY <1>1, <1>2, <1>3, <1>5, <1>6, <1>7, SameJob DEF RuleInv

LEMMA ClosesTyped ==
  ASSUME RuleInv, job' = job, NEW what, NEW to, Closes(what, to)
  PROVE  /\ reading = what /\ reading' = to /\ listed = Count /\ listed' = 0 /\ taken' = {}
         /\ listed' \in 0 .. Count' /\ Count' = Count
         /\ TakenBy(0)' = {} /\ \A kind, ruleSet : AllLoaded(kind, 0, ruleSet)'
<1>1. Count \in Nat /\ Count' = Count /\ 1 .. 0 = {}
  BY FilesTyped, SameJob DEF RuleInv
<1> QED BY <1>1 DEF Closes, Count, TakenBy, AllLoaded

LEMMA ValidatedInv == RuleInv /\ Validated => RuleInv'
<1> SUFFICES ASSUME RuleInv, Validated PROVE RuleInv'
  OBVIOUS
<1>1. /\ UNCHANGED <<job, validations, httpRules, networkRules, executions, serviceFindings>>
      /\ Closes("validate", "load")
  BY DEF Validated
<1>2. /\ reading = "validate" /\ reading' = "load" /\ listed' = 0 /\ taken' = {}
      /\ listed' \in 0 .. Count' /\ \A kind, ruleSet : AllLoaded(kind, 0, ruleSet)'
  BY <1>1, ClosesTyped
<1>3. RequestsAllowed' /\ IdsOf(httpRules') = {}
  BY <1>1, <1>2 DEF RuleInv, RequestsAllowed, IdsOf
<1> QED BY <1>1, <1>2, <1>3, SameJob DEF RuleInv

\* A rule with a new identifier keeps the identifiers apart.
LEMMA OneEachMore ==
  ASSUME NEW ruleSet, OneEach(ruleSet), NEW rule, rule.id \notin IdsOf(ruleSet)
  PROVE  OneEach(ruleSet \cup {rule}) /\ IdsOf(ruleSet \cup {rule}) = IdsOf(ruleSet) \cup {rule.id}
  BY DEF OneEach, IdsOf

LEMMA LoadRuleInv == RuleInv /\ LoadRule => RuleInv'
<1> SUFFICES ASSUME RuleInv, LoadRule PROVE RuleInv'
  OBVIOUS
<1>1. /\ UNCHANGED <<job, reading, validations, networkRules, executions, serviceFindings>>
      /\ Look("load")
  BY DEF LoadRule
<1>2. /\ listed \in Nat /\ listed + 1 \in 1 .. Count /\ listed' = listed + 1
      /\ listed' \in 0 .. Count' /\ reading = "load"
  BY <1>1, LookTyped
<1>3. PICK this : this = listed + 1
  OBVIOUS
<1>4. File = job.files[this] /\ taken \subseteq TakenBy(listed)
      /\ AllLoaded("http", listed, httpRules) /\ IdsOf(httpRules) \subseteq taken
      /\ OneEach(httpRules) /\ \A r \in httpRules : ShapedRule(r)
  BY <1>2, <1>3 DEF File, RuleInv
<1>5. TakenBy(this) = IF Parsed(this) THEN TakenBy(listed) \cup {IdOf(this)} ELSE TakenBy(listed)
  BY <1>2, <1>3, TakenMore
<1>8. RequestsAllowed'
  BY <1>1, <1>2 DEF RuleInv, RequestsAllowed
<1>6. CASE Loadable(File, "http") /\ File.rule.id \notin taken
  <2>1. httpRules' = httpRules \cup {File.rule} /\ taken' = taken \cup {File.rule.id}
    BY <1>6 DEF LoadRule
  <2>2. taken' \subseteq TakenBy(this)
    BY <1>4, <1>5, <1>6, <2>1 DEF Loadable, Parsed, IdOf
  <2>3. OneEach(httpRules') /\ IdsOf(httpRules') \subseteq taken'
    <3>1. File.rule.id \notin IdsOf(httpRules)
      BY <1>4, <1>6
    <3>2. /\ OneEach(httpRules \cup {File.rule})
          /\ IdsOf(httpRules \cup {File.rule}) = IdsOf(httpRules) \cup {File.rule.id}
      BY <1>4, <3>1, OneEachMore, Zenon
    <3> QED BY <1>4, <2>1, <3>2
  <2>4. AllLoaded("http", this, httpRules')
    BY <1>2, <1>3, <1>4, <2>1, AllLoadedMore
  <2>5. ShapedRule(File.rule)
    BY <1>2, <1>3, <1>4, <1>6, FilesTyped DEF RuleInv, Loadable
  <2>6. \A r \in httpRules' : ShapedRule(r)
    BY <1>4, <2>1, <2>5
  <2> QED BY <1>1, <1>2, <1>3, <1>8, <2>2, <2>3, <2>4, <2>6, SameJob DEF RuleInv
<1>7. CASE ~(Loadable(File, "http") /\ File.rule.id \notin taken)
  <2>1. httpRules' = httpRules /\ taken' = taken
    BY <1>7 DEF LoadRule
  <2>2. taken' \subseteq TakenBy(this)
    BY <1>4, <1>5, <2>1
  <2>3. ~(Accepted(this) /\ job.files[this].kind = "http")
    <3>1. ASSUME Accepted(this), job.files[this].kind = "http" PROVE FALSE
      <4>1. Loadable(File, "http")
        BY <1>4, <3>1 DEF Loadable, Accepted, Parsed, IdOf
      <4>2. IdOf(this) \notin TakenBy(listed)
        BY <1>2, <1>3, <3>1, AcceptedFree
      <4> QED BY <1>4, <1>7, <4>1, <4>2 DEF IdOf
    <3> QED BY <3>1
  <2>4. AllLoaded("http", this, httpRules')
    BY <1>2, <1>3, <1>4, <2>1, <2>3, AllLoadedMore
  <2> QED BY <1>1, <1>2, <1>3, <1>4, <1>8, <2>1, <2>2, <2>4, SameJob DEF RuleInv
<1> QED BY <1>6, <1>7

\* What a rule that needs no opt-in can send: a dangerous marker only where nothing
\* looks for it.
LEMMA HarmlessMarks ==
  ASSUME NEW rule, ~NeedsAck(rule), NEW marks, marks \subseteq Marks(rule)
  PROVE  /\ "oast" \notin marks /\ rule.verify.match # "time"
         /\ "destructive" \in marks =>
              "destructive" \in rule.headers \cup rule.body
                                  \cup UNION {s.headers \cup s.body : s \in ToSet(rule.steps)}
<1>1. "oast" \notin marks
  <2>1. ASSUME "oast" \in marks PROVE FALSE
    <3>1. CASE "oast" \in rule.payload \cup rule.headers \cup rule.body
      BY <3>1 DEF NeedsAck, UsesOast
    <3>2. CASE \E s \in ToSet(rule.steps) : "oast" \in s.payload \cup s.headers \cup s.body
      BY <3>2 DEF NeedsAck, UsesOast
    <3> QED BY <2>1, <3>1, <3>2 DEF Marks
  <2> QED BY <2>1
<1>2. "destructive" \notin rule.payload
      /\ \A s \in ToSet(rule.steps) : "destructive" \notin s.payload
  BY DEF NeedsAck, Dangerous
<1>3. rule.verify.match # "time"
  BY DEF NeedsAck
<1> QED BY <1>1, <1>2, <1>3 DEF Marks

LEMMA RunRulesInv == RuleInv /\ RunRules => RuleInv'
<1> SUFFICES ASSUME RuleInv, RunRules PROVE RuleInv'
  OBVIOUS
<1>1. /\ UNCHANGED <<job, validations, httpRules, networkRules, serviceFindings>>
      /\ Closes("load", "network")
  BY DEF RunRules
<1>2. /\ reading = "load" /\ reading' = "network" /\ listed = Count /\ listed' = 0 /\ taken' = {}
      /\ listed' \in 0 .. Count' /\ Count' = Count
      /\ \A kind, ruleSet : AllLoaded(kind, 0, ruleSet)'
  BY <1>1, ClosesTyped
<1>3. /\ AllLoaded("http", Count, httpRules) /\ networkRules = {}
      /\ \A r \in httpRules : ShapedRule(r)
  BY <1>2 DEF RuleInv
<1>4. IdsOf(networkRules') = {}
  BY <1>1, <1>3 DEF IdsOf
<1>5. RequestsAllowed'
  <2> SUFFICES ASSUME NEW e \in executions'
               PROVE  /\ \A marks \in e.outcome.sent :
                           /\ "oast" \in marks => job.allow /\ job.oast
                           /\ e.rule.verify.match = "time" => job.allow
                           /\ "destructive" \in marks =>
                                \/ job.allow
                                \/ "destructive" \in e.rule.headers \cup e.rule.body
                                     \cup UNION {s.headers \cup s.body : s \in ToSet(e.rule.steps)}
                      /\ e.outcome.found => e.outcome.sent # {}
    BY <1>1 DEF RequestsAllowed
  <2>1. PICK world \in Worlds : executions' = ExecutionsFor(world)
    BY DEF RunRules
  <2>2. PICK r \in Runnable(Applicable(httpRules, job.tech), job.allow) :
          \E a, p : e = [rule |-> r, asset |-> a, parameter |-> p,
                         outcome |-> Execute(r, p, job.oast, world)]
    BY <2>1 DEF ExecutionsFor
  <2>7. PICK a, p : e = [rule |-> r, asset |-> a, parameter |-> p,
                         outcome |-> Execute(r, p, job.oast, world)]
    BY <2>2
  <2>3. e.rule = r /\ e.outcome = Execute(r, p, job.oast, world)
    BY <2>7
  <2>4. r \in httpRules /\ (job.allow \/ ~NeedsAck(r))
    BY DEF Runnable, Applicable
  <2>5. /\ \A m \in e.outcome.sent : m \subseteq Marks(r) /\ ("oast" \in m => job.oast)
        /\ e.outcome.found => e.outcome.sent # {}
    BY <1>3, <2>3, <2>4, ExecuteSends
  <2>6. ASSUME NEW marks \in e.outcome.sent, ~job.allow
        PROVE  /\ "oast" \notin marks /\ r.verify.match # "time"
               /\ "destructive" \in marks =>
                    "destructive" \in r.headers \cup r.body
                                        \cup UNION {s.headers \cup s.body : s \in ToSet(r.steps)}
    BY <2>4, <2>5, <2>6, HarmlessMarks
  <2> QED BY <2>3, <2>5, <2>6
<1> QED BY <1>1, <1>2, <1>3, <1>4, <1>5, SameJob DEF RuleInv

LEMMA LoadNetworkRuleInv == RuleInv /\ LoadNetworkRule => RuleInv'
<1> SUFFICES ASSUME RuleInv, LoadNetworkRule PROVE RuleInv'
  OBVIOUS
<1>1. /\ UNCHANGED <<job, reading, validations, httpRules, executions, serviceFindings>>
      /\ Look("network")
  BY DEF LoadNetworkRule
<1>2. /\ listed \in Nat /\ listed + 1 \in 1 .. Count /\ listed' = listed + 1
      /\ listed' \in 0 .. Count' /\ reading = "network"
  BY <1>1, LookTyped
<1>3. PICK this : this = listed + 1
  OBVIOUS
<1>4. File = job.files[this] /\ taken \subseteq TakenBy(listed)
      /\ AllLoaded("network", listed, networkRules) /\ IdsOf(networkRules) \subseteq taken
      /\ OneEach(networkRules)
  BY <1>2, <1>3 DEF File, RuleInv
<1>5. TakenBy(this) = IF Parsed(this) THEN TakenBy(listed) \cup {IdOf(this)} ELSE TakenBy(listed)
  BY <1>2, <1>3, TakenMore
<1>8. RequestsAllowed'
  BY <1>1, <1>2 DEF RuleInv, RequestsAllowed
<1>6. CASE Loadable(File, "network") /\ File.rule.id \notin taken
  <2>1. taken' = taken \cup {File.rule.id}
    BY <1>6 DEF LoadNetworkRule
  <2>2. taken' \subseteq TakenBy(this)
    BY <1>4, <1>5, <1>6, <2>1 DEF Loadable, Parsed, IdOf
  <2>3. CASE \A p \in Patterns(File.rule.matcher) : p.valid
    <3>1. networkRules' = networkRules \cup {File.rule}
      BY <1>6, <2>3 DEF LoadNetworkRule
    <3>2. File.rule.id \notin IdsOf(networkRules)
      BY <1>4, <1>6
    <3>3. /\ OneEach(networkRules \cup {File.rule})
          /\ IdsOf(networkRules \cup {File.rule}) = IdsOf(networkRules) \cup {File.rule.id}
      BY <1>4, <3>2, OneEachMore, Zenon
    <3>4. OneEach(networkRules') /\ IdsOf(networkRules') \subseteq taken'
      BY <1>4, <2>1, <3>1, <3>3
    <3>5. AllLoaded("network", this, networkRules')
      BY <1>2, <1>3, <1>4, <3>1, AllLoadedMore
    <3> QED BY <1>1, <1>2, <1>3, <1>8, <2>2, <3>4, <3>5, SameJob DEF RuleInv
  <2>4. CASE ~(\A p \in Patterns(File.rule.matcher) : p.valid)
    <3>1. networkRules' = networkRules
      BY <1>6, <2>4 DEF LoadNetworkRule
    <3>2. ~Accepted(this) \/ job.files[this].kind # "network"
      BY <1>4, <2>4 DEF Accepted
    <3>3. AllLoaded("network", this, networkRules')
      BY <1>2, <1>3, <1>4, <3>1, <3>2, AllLoadedMore
    <3>4. IdsOf(networkRules') \subseteq taken'
      BY <1>4, <2>1, <3>1
    <3> QED BY <1>1, <1>2, <1>3, <1>4, <1>8, <2>2, <3>1, <3>3, <3>4, SameJob DEF RuleInv
  <2> QED BY <2>3, <2>4
<1>7. CASE ~(Loadable(File, "network") /\ File.rule.id \notin taken)
  <2>1. networkRules' = networkRules /\ taken' = taken
    BY <1>7 DEF LoadNetworkRule
  <2>2. taken' \subseteq TakenBy(this)
    BY <1>4, <1>5, <2>1
  <2>3. ~(Accepted(this) /\ job.files[this].kind = "network")
    <3>1. ASSUME Accepted(this), job.files[this].kind = "network" PROVE FALSE
      <4>1. Loadable(File, "network")
        BY <1>4, <3>1 DEF Loadable, Accepted, Parsed, IdOf
      <4>2. IdOf(this) \notin TakenBy(listed)
        BY <1>2, <1>3, <3>1, AcceptedFree
      <4> QED BY <1>4, <1>7, <4>1, <4>2 DEF IdOf
    <3> QED BY <3>1
  <2>4. AllLoaded("network", this, networkRules')
    BY <1>2, <1>3, <1>4, <2>1, <2>3, AllLoadedMore
  <2> QED BY <1>1, <1>2, <1>3, <1>4, <1>8, <2>1, <2>2, <2>4, SameJob DEF RuleInv
<1> QED BY <1>6, <1>7

LEMMA RunNetworkRulesInv == RuleInv /\ RunNetworkRules => RuleInv'
<1> SUFFICES ASSUME RuleInv, RunNetworkRules PROVE RuleInv'
  OBVIOUS
<1>1. /\ UNCHANGED <<job, validations, httpRules, networkRules, executions>>
      /\ Closes("network", "done")
  BY DEF RunNetworkRules
<1>2. /\ reading = "network" /\ reading' = "done" /\ listed = Count /\ listed' = 0
      /\ listed' \in 0 .. Count' /\ Count' = Count
  BY <1>1, ClosesTyped
<1>3. AllLoaded("network", Count, networkRules)
  BY <1>2 DEF RuleInv
<1>4. ASSUME NEW f \in serviceFindings', f[1].risk # "safe" PROVE job.allow
  BY <1>4 DEF RunNetworkRules, NeedsAckNetwork
<1>5. RequestsAllowed'
  BY <1>1 DEF RuleInv, RequestsAllowed
<1> QED BY <1>1, <1>2, <1>3, <1>4, <1>5, SameJob DEF RuleInv

LEMMA RuleStutter == RuleInv /\ UNCHANGED ruleVars => RuleInv'
<1> SUFFICES ASSUME RuleInv, UNCHANGED ruleVars PROVE RuleInv'
  OBVIOUS
<1>1. UNCHANGED <<job, reading, listed, validations, taken, httpRules, networkRules, executions,
                  serviceFindings>>
  BY DEF ruleVars
<1>2. RequestsAllowed'
  BY <1>1 DEF RuleInv, RequestsAllowed
<1> QED BY <1>1, <1>2, SameJob DEF RuleInv

\* A file that validation accepts is found by the reading it belongs to.
LEMMA DirectoryLoaded == RuleInv /\ reading = "done" => DirectoryAgrees
<1> SUFFICES ASSUME RuleInv, reading = "done" PROVE DirectoryAgrees
  OBVIOUS
<1>1. ASSUME NEW v \in validations
      PROVE  /\ v.valid => v.file.rule \in httpRules \cup networkRules
             /\ v.risk # "safe" => v.ack
  <2>1. ValidationOk(v) /\ AllLoaded("http", Count, httpRules)
        /\ AllLoaded("network", Count, networkRules)
    BY DEF RuleInv
  <2>2. ASSUME v.valid PROVE v.file.rule \in httpRules \cup networkRules
    <3>1. PICK i \in 1 .. Count : v.file = job.files[i] /\ Accepted(i)
      BY <2>1, <2>2 DEF ValidationOk
    <3>2. job.files[i].kind \in {"http", "network"}
      BY <3>1 DEF Accepted, Parsed
    <3> QED BY <2>1, <3>1, <3>2 DEF AllLoaded
  <2> QED BY <2>1, <2>2 DEF ValidationOk
<1>2. OneEach(httpRules) /\ OneEach(networkRules)
  BY DEF RuleInv
<1> QED BY <1>1, <1>2 DEF DirectoryAgrees, OneEach

\* Whatever the directory holds and the target answers, a file that validation accepts
\* is loaded, one rule for each identifier, and without the opt-in no request carries
\* what the opt-in is for.
THEOREM RulesAlwaysAgree == RuleSpec => []RulesAgree
<1>1. RuleInv /\ [RuleNext]_ruleVars => RuleInv'
  BY ValidateFileInv, ValidatedInv, LoadRuleInv, RunRulesInv, LoadNetworkRuleInv,
     RunNetworkRulesInv, RuleStutter DEF RuleNext
<1>2. RuleInv => RulesAgree
  BY DirectoryLoaded DEF RuleInv, RulesAgree
<1> QED BY <1>1, <1>2, RuleInitial, PTL DEF RuleSpec

-----------------------------------------------------------------------------
(* Reports.                                                                  *)

LEMMA LeastNat ==
  ASSUME NEW S, S \subseteq Nat, S # {}
  PROVE  \E m \in S : \A y \in S : m <= y
<1>1. PICK m \in S : \A y \in S : ~(<<y, m>> \in OpToRel(<, Nat))
  BY NatLessThanWellFounded, WFMin
<1>2. \A y \in S : ~(y < m)
  BY <1>1 DEF OpToRel
<1> QED BY <1>2

LEMMA MaxIn ==
  ASSUME NEW n \in Nat, NEW S, S \subseteq 0 .. n, S # {}
  PROVE  Max(S) \in S /\ \A j \in S : j <= Max(S)
<1> DEFINE D == {n - j : j \in S}
<1>1. D \subseteq Nat /\ D # {}
  <2>1. \A j \in S : n - j \in Nat
    OBVIOUS
  <2> QED BY <2>1
<1>2. PICK m \in D : \A y \in D : m <= y
  <2> HIDE DEF D
  <2> QED BY <1>1, LeastNat
<1>4. PICK i \in S : m = n - i
  BY <1>2
<1>5. \A j \in S : i >= j
  <2> TAKE j \in S
  <2>1. m <= n - j
    BY <1>2
  <2> QED BY <1>4, <2>1
<1>6. Max(S) \in S /\ \A j \in S : Max(S) >= j
  BY <1>5 DEF Max
<1> QED BY <1>6

\* The facts about a list that the operators rely on.
Listed(s) == Len(s) \in Nat /\ DOMAIN s = 1 .. Len(s)

LEMMA LastWith ==
  ASSUME NEW s, Listed(s), NEW S, S \subseteq DOMAIN s, S # {}
  PROVE  Max(S) \in S /\ \A j \in S : j <= Max(S)
<1>1. S \subseteq 0 .. Len(s)
  BY DEF Listed
<1> QED BY <1>1, MaxIn DEF Listed

LEMMA FindingMapFacts ==
  ASSUME NEW s, Listed(s)
  PROVE  /\ DOMAIN FindingMap(s) = {FindingKey(s[i]) : i \in DOMAIN s}
         /\ \A k \in DOMAIN FindingMap(s) : \E i \in DOMAIN s :
              FindingKey(s[i]) = k /\ FindingMap(s)[k] = s[i]
<1>1. DOMAIN FindingMap(s) = {FindingKey(s[i]) : i \in DOMAIN s}
  BY DEF FindingMap
<1>2. ASSUME NEW k \in DOMAIN FindingMap(s)
      PROVE  \E i \in DOMAIN s : FindingKey(s[i]) = k /\ FindingMap(s)[k] = s[i]
  <2> DEFINE S == {i \in DOMAIN s : FindingKey(s[i]) = k}
  <2>1. S \subseteq DOMAIN s /\ S # {}
    BY <1>1, <1>2
  <2>2. Max(S) \in S
    BY <2>1, LastWith
  <2>3. FindingMap(s)[k] = s[Max(S)]
    BY <1>1, <1>2 DEF FindingMap
  <2> QED BY <2>2, <2>3
<1> QED BY <1>1, <1>2

LEMMA ListenerMapFacts ==
  ASSUME NEW s
  PROVE  DOMAIN ListenerMap(s) = {ListenerOf(s[i]) : i \in DOMAIN s}
BY DEF ListenerMap

LEMMA RiskBounded ==
  ASSUME NEW f, f.cvss \in Nat
  PROVE  RiskScore(f) \in 0 .. 1000
<1>1. SeverityScore(f) \in Nat
  BY DEF SeverityScore
<1>2. \A n \in Nat, k \in {85, 90, 110, 120, 125} : (n * k) \div 100 \in Nat
  OBVIOUS
<1> DEFINE base == 10 * (IF f.cvss > SeverityScore(f) THEN f.cvss ELSE SeverityScore(f))
           Times(n, on, k) == IF on THEN (n * k) \div 100 ELSE n
<1>3. base \in Nat
  BY <1>1
<1> DEFINE verified == Times(base, f.verified, 120)
           cve      == Times(verified, f.class = "cve", 120)
           kev      == Times(cve, "kev" \in f.proof, 125)
           epss     == Times(kev, "epss" \in f.proof, 110)
           auth     == Times(epss, "auth" \in f.proof, 85)
           exposed  == Times(auth, TRUE, IF f.url.host \in PublicHosts THEN 110 ELSE 90)
<1>4. /\ \A on : \A n \in Nat : /\ Times(n, on, 85) \in Nat /\ Times(n, on, 110) \in Nat
                                   /\ Times(n, on, 120) \in Nat /\ Times(n, on, 125) \in Nat
      /\ \A n \in Nat : Times(n, TRUE, 110) \in Nat /\ Times(n, TRUE, 90) \in Nat
  BY <1>2
<1>5. RiskScore(f) = IF exposed > 1000 THEN 1000 ELSE exposed
  BY DEF RiskScore
<1>6. exposed \in Nat
  <2> HIDE DEF base, Times
  <2>1. verified \in Nat
    BY <1>3, <1>4
  <2>2. cve \in Nat
    BY <1>4, <2>1
  <2>3. kev \in Nat
    BY <1>4, <2>2
  <2>4. epss \in Nat
    BY <1>4, <2>3
  <2>5. auth \in Nat
    BY <1>4, <2>4
  <2> HIDE DEF auth
  <2>6. exposed = Times(auth, TRUE, 110) \/ exposed = Times(auth, TRUE, 90)
    BY DEF Times
  <2>7. Times(auth, TRUE, 110) \in Nat /\ Times(auth, TRUE, 90) \in Nat
    BY <1>4, <2>5
  <2> HIDE DEF exposed
  <2> QED BY <2>6, <2>7
<1> HIDE DEF exposed
<1> QED BY <1>5, <1>6

FindingsRated(s) == Listed(s) /\ \A i \in DOMAIN s : IsFinding(s[i])

LEMMA RepresentativeFacts ==
  ASSUME NEW s, FindingsRated(s), NEW S, S \subseteq DOMAIN s, S # {}
  PROVE  \E i \in S : /\ Representative(s, S) = s[i]
                      /\ \A j \in S : RiskScore(s[j]) <= RiskScore(s[i])
<1> DEFINE T == {i \in S : \A j \in S : RiskScore(s[j]) <= RiskScore(s[i])}
           D == {1000 - RiskScore(s[j]) : j \in S}
<1>1. \A j \in S : RiskScore(s[j]) \in 0 .. 1000
  BY RiskBounded DEF FindingsRated, IsFinding
<1>2. \A j \in S : 1000 - RiskScore(s[j]) \in Nat
  BY <1>1
<1>3. D \subseteq Nat /\ D # {}
  BY <1>2
<1>4. PICK m \in D : \A y \in D : m <= y
  <2> HIDE DEF D
  <2> QED BY <1>3, LeastNat
<1>5. PICK i \in S : m = 1000 - RiskScore(s[i])
  BY <1>4
<1>6. \A j \in S : RiskScore(s[j]) <= RiskScore(s[i])
  <2> TAKE j \in S
  <2>1. m <= 1000 - RiskScore(s[j])
    BY <1>4
  <2>2. RiskScore(s[i]) \in 0 .. 1000 /\ RiskScore(s[j]) \in 0 .. 1000
    BY <1>1
  <2> DEFINE x == RiskScore(s[i])
             y == RiskScore(s[j])
  <2>3. 1000 - x <= 1000 - y /\ x \in 0 .. 1000 /\ y \in 0 .. 1000
    BY <1>5, <2>1, <2>2
  <2> HIDE DEF T, D, x, y
  <2>4. y <= x
    BY <2>3
  <2> QED BY <2>4 DEF x, y
<1>7. T \subseteq DOMAIN s /\ T # {}
  BY <1>5, <1>6
<1>8. Max(T) \in T
  <2> HIDE DEF T
  <2> QED BY <1>7, LastWith DEF FindingsRated, IsFinding
<1> QED BY <1>8 DEF Representative

LEMMA GroupFacts ==
  ASSUME NEW s, FindingsRated(s), NEW k \in CausesOf(s)
  PROVE  /\ GroupOf(s, k).key = k
         /\ \E i \in DOMAIN s : /\ RootCause(s[i]) = k /\ GroupOf(s, k).top = s[i]
                                /\ GroupOf(s, k).risk = RiskScore(s[i])
         /\ \A i \in DOMAIN s : RootCause(s[i]) = k => RiskScore(s[i]) <= GroupOf(s, k).risk
         /\ GroupOf(s, k).risk \in 0 .. 1000
         /\ GroupOf(s, k).occurrences = Cardinality(OfCause(s, k))
<1>1. OfCause(s, k) \subseteq DOMAIN s /\ OfCause(s, k) # {}
  BY DEF OfCause, CausesOf
<1>2. PICK i \in OfCause(s, k) : /\ Representative(s, OfCause(s, k)) = s[i]
                                 /\ \A j \in OfCause(s, k) : RiskScore(s[j]) <= RiskScore(s[i])
  BY <1>1, RepresentativeFacts
<1>3. RiskScore(s[i]) \in 0 .. 1000
  BY <1>1, <1>2, RiskBounded DEF FindingsRated, IsFinding
<1>4. i \in DOMAIN s /\ RootCause(s[i]) = k
  BY <1>2 DEF OfCause
<1>5. /\ GroupOf(s, k).key = k /\ GroupOf(s, k).top = s[i]
      /\ GroupOf(s, k).risk = RiskScore(s[i])
      /\ GroupOf(s, k).occurrences = Cardinality(OfCause(s, k))
  BY <1>2 DEF GroupOf
<1>6. \A j \in DOMAIN s : RootCause(s[j]) = k => RiskScore(s[j]) <= RiskScore(s[i])
  BY <1>2 DEF OfCause
<1> QED BY <1>3, <1>4, <1>5, <1>6

\* An order has each element once.
LEMMA OrderFacts ==
  ASSUME NEW S, IsFiniteSet(S), NEW s \in [1 .. Cardinality(S) -> S], AllOf(s, S)
  PROVE  /\ Cardinality(S) \in Nat /\ s \in Seq(S) /\ Len(s) = Cardinality(S)
         /\ DOMAIN s = 1 .. Len(s)
         /\ \A i, j \in DOMAIN s : s[i] = s[j] => i = j
<1>1. Cardinality(S) \in Nat
  BY FS_CardinalityType
<1>2. s \in Seq(S) /\ Len(s) = Cardinality(S) /\ DOMAIN s = 1 .. Cardinality(S)
  BY <1>1, SeqDef
<1>3. s \in Surjection(1 .. Cardinality(S), S)
  BY <1>2 DEF AllOf, Surjection
<1>4. IsFiniteSet(1 .. Cardinality(S)) /\ Cardinality(1 .. Cardinality(S)) = Cardinality(S)
  BY <1>1, FS_Interval
<1>5. s \in Injection(1 .. Cardinality(S), S)
  BY <1>3, <1>4, FS_SurjSameCardinalityImpliesInj
<1> QED BY <1>1, <1>2, <1>5 DEF Injection, IsInjective

\* A list that is cut keeps its first elements.
LEMMA FirstFewFacts ==
  ASSUME NEW S, NEW s \in Seq(S), NEW n \in Nat
  PROVE  /\ FirstFew(s, n) \in Seq(S) /\ Len(FirstFew(s, n)) = IF Len(s) < n THEN Len(s) ELSE n
         /\ DOMAIN FirstFew(s, n) = 1 .. Len(FirstFew(s, n))
         /\ DOMAIN FirstFew(s, n) \subseteq DOMAIN s
         /\ \A i \in DOMAIN FirstFew(s, n) : FirstFew(s, n)[i] = s[i]
<1> DEFINE m == IF Len(s) < n THEN Len(s) ELSE n
<1>1. Len(s) \in Nat /\ DOMAIN s = 1 .. Len(s)
  OBVIOUS
<1>2. m \in 0 .. Len(s)
  BY <1>1
<1>3. FirstFew(s, n) = SubSeq(s, 1, m)
  BY DEF FirstFew
<1> HIDE DEF m
<1>4. SubSeq(s, 1, m) \in Seq(S) /\ Len(SubSeq(s, 1, m)) = m
      /\ \A i \in 1 .. m : SubSeq(s, 1, m)[i] = s[i]
  <2>1. m \in Int /\ \A i \in 1 .. m : s[i] \in S
    BY <1>1, <1>2
  <2>2. /\ SubSeq(s, 1, m) \in Seq(S) /\ Len(SubSeq(s, 1, m)) = IF 1 <= m THEN m - 1 + 1 ELSE 0
        /\ \A i \in 1 .. m - 1 + 1 : SubSeq(s, 1, m)[i] = s[1 + i - 1]
    BY <2>1, SubSeqProperties
  <2> QED BY <1>2, <2>2
<1>5. DOMAIN SubSeq(s, 1, m) = 1 .. m
  BY <1>4
<1> QED BY <1>1, <1>2, <1>3, <1>4, <1>5 DEF m

KeysOf(s) == {FindingKey(s[i]) : i \in DOMAIN s}

LEMMA CompareFacts ==
  ASSUME NEW a, Listed(a), NEW b, Listed(b), NEW suppressions, NEW now
  PROVE  LET diff == CompareReports(a, b, suppressions, now)
         IN  /\ DOMAIN diff.status = (KeysOf(a) \cup KeysOf(b)) \ diff.suppressed
             /\ diff.suppressed = Suppressed(b, suppressions, now)
             /\ diff.suppressed \subseteq KeysOf(b)
             /\ \A k \in DOMAIN diff.status : diff.status[k] =
                  IF k \notin KeysOf(a) THEN "new"
                  ELSE IF k \notin KeysOf(b) THEN "fixed"
                  ELSE IF FindingMap(a)[k].severity # FindingMap(b)[k].severity THEN "severity_changed"
                  ELSE "unchanged"
<1> DEFINE suppressed == Suppressed(b, suppressions, now)
           before == Without(FindingMap(a), suppressed)
           after == Without(FindingMap(b), suppressed)
<1>1. DOMAIN FindingMap(a) = KeysOf(a) /\ DOMAIN FindingMap(b) = KeysOf(b)
  BY FindingMapFacts DEF KeysOf
<1>2. suppressed \subseteq KeysOf(b)
  BY <1>1 DEF Suppressed
<1>3. /\ DOMAIN before = KeysOf(a) \ suppressed /\ DOMAIN after = KeysOf(b) \ suppressed
      /\ \A k \in KeysOf(a) \ suppressed : before[k] = FindingMap(a)[k]
      /\ \A k \in KeysOf(b) \ suppressed : after[k] = FindingMap(b)[k]
  BY <1>1 DEF Without
<1>4. CompareReports(a, b, suppressions, now) =
        [suppressed |-> suppressed,
         status |-> [k \in DOMAIN before \cup DOMAIN after |-> DiffStatus(before, after, k)]]
  BY DEF CompareReports
<1> HIDE DEF suppressed, before, after
<1>5. \A k \in DOMAIN before \cup DOMAIN after : DiffStatus(before, after, k) =
        IF k \notin KeysOf(a) THEN "new"
        ELSE IF k \notin KeysOf(b) THEN "fixed"
        ELSE IF FindingMap(a)[k].severity # FindingMap(b)[k].severity THEN "severity_changed"
        ELSE "unchanged"
  BY <1>3 DEF DiffStatus
<1>6. DOMAIN before \cup DOMAIN after = (KeysOf(a) \cup KeysOf(b)) \ suppressed
  BY <1>3
<1> QED BY <1>2, <1>4, <1>5, <1>6 DEF suppressed

LEMMA ComparisonExact ==
  ASSUME NEW a, Listed(a), NEW b, Listed(b), NEW suppressions, NEW now
  PROVE  CompareExact(a, b, suppressions, now, CompareReports(a, b, suppressions, now))
<1> DEFINE diff == CompareReports(a, b, suppressions, now)
           back == CompareReports(b, a, {}, now)
           same == CompareReports(a, a, suppressions, now)
           With(d, status) == {k \in DOMAIN d.status : d.status[k] = status}
<1>1. /\ DOMAIN diff.status = (KeysOf(a) \cup KeysOf(b)) \ diff.suppressed
      /\ diff.suppressed = Suppressed(b, suppressions, now)
      /\ diff.suppressed \subseteq KeysOf(b)
      /\ \A k \in DOMAIN diff.status : diff.status[k] =
           IF k \notin KeysOf(a) THEN "new"
           ELSE IF k \notin KeysOf(b) THEN "fixed"
           ELSE IF FindingMap(a)[k].severity # FindingMap(b)[k].severity THEN "severity_changed"
           ELSE "unchanged"
  BY CompareFacts
<1>2. /\ DOMAIN back.status = (KeysOf(b) \cup KeysOf(a)) \ back.suppressed
      /\ back.suppressed = Suppressed(a, {}, now)
      /\ \A k \in DOMAIN back.status : back.status[k] =
           IF k \notin KeysOf(b) THEN "new"
           ELSE IF k \notin KeysOf(a) THEN "fixed"
           ELSE IF FindingMap(b)[k].severity # FindingMap(a)[k].severity THEN "severity_changed"
           ELSE "unchanged"
  BY CompareFacts
<1>3. /\ DOMAIN same.status \subseteq KeysOf(a)
      /\ \A k \in DOMAIN same.status : same.status[k] =
           IF k \notin KeysOf(a) THEN "new"
           ELSE IF k \notin KeysOf(a) THEN "fixed"
           ELSE IF FindingMap(a)[k].severity # FindingMap(a)[k].severity THEN "severity_changed"
           ELSE "unchanged"
  BY CompareFacts
<1>4. \A k \in diff.suppressed : \E i \in DOMAIN b, s \in suppressions :
        FindingKey(b[i]) = k /\ s.id = b[i].id /\ (s.expires = Forever \/ s.expires > now)
  <2> TAKE k \in diff.suppressed
  <2>1. PICK s \in suppressions : SuppressionMatches(s, FindingMap(b)[k], now)
    BY <1>1 DEF Suppressed
  <2>2. k \in DOMAIN FindingMap(b)
    BY <1>1 DEF Suppressed
  <2>3. PICK i \in DOMAIN b : FindingKey(b[i]) = k /\ FindingMap(b)[k] = b[i]
    BY <2>2, FindingMapFacts
  <2> QED BY <2>1, <2>3 DEF SuppressionMatches
<1>5. back.suppressed = {} /\ (suppressions = {} => diff.suppressed = {})
  BY <1>1, <1>2 DEF Suppressed
<1> HIDE DEF diff, back, same
<1>6. DOMAIN diff.status \cap diff.suppressed = {}
      /\ DOMAIN diff.status \cup diff.suppressed = KeysOf(a) \cup KeysOf(b)
  BY <1>1
<1>7. DOMAIN same.status = With(same, "unchanged")
  BY <1>3
<1>8. ASSUME suppressions = {}
      PROVE  /\ With(diff, "new") = With(back, "fixed") /\ With(diff, "fixed") = With(back, "new")
             /\ With(diff, "severity_changed") = With(back, "severity_changed")
  <2>1. DOMAIN diff.status = KeysOf(a) \cup KeysOf(b) /\ DOMAIN back.status = KeysOf(a) \cup KeysOf(b)
    BY <1>1, <1>2, <1>5, <1>8
  <2>2. \A k \in KeysOf(a) \cup KeysOf(b) :
          /\ diff.status[k] = "new" <=> back.status[k] = "fixed"
          /\ diff.status[k] = "fixed" <=> back.status[k] = "new"
          /\ diff.status[k] = "severity_changed" <=> back.status[k] = "severity_changed"
    BY <1>1, <1>2, <2>1
  <2> QED BY <2>1, <2>2
<1> QED BY <1>4, <1>6, <1>7, <1>8 DEF CompareExact, KeysOf, diff, back, same

LEMMA DriftingExact ==
  ASSUME NEW a, NEW b
  PROVE  DriftExact(a, b, Drift(a, b))
<1> DEFINE L(s) == {ListenerOf(s[i]) : i \in DOMAIN s}
<1>1. \A s : DOMAIN ListenerMap(s) = L(s)
  BY ListenerMapFacts
<1>2. ASSUME NEW p, NEW q
      PROVE  /\ DOMAIN Drift(p, q).new = {i \in DOMAIN q : ListenerOf(q[i]) \notin L(p)}
             /\ \A i \in DOMAIN Drift(p, q).new : Drift(p, q).new[i].listener = ListenerOf(q[i])
             /\ Drift(p, q).removed = L(p) \ L(q)
             /\ Drift(p, q).changed =
                  {k \in L(p) \cap L(q) : ProfileChanged(ListenerMap(p)[k], ListenerMap(q)[k])}
  BY <1>1 DEF Drift
<1>3. ASSUME NEW p, NEW q
      PROVE  {Drift(p, q).new[i].listener : i \in DOMAIN Drift(p, q).new} = L(q) \ L(p)
  BY <1>2
<1>4. \A x, y : ProfileChanged(x, y) <=> ProfileChanged(y, x)
  BY DEF ProfileChanged
<1>5. Drift(a, b).changed = Drift(b, a).changed
  <2> DEFINE Changed(p, q) == {k \in L(p) \cap L(q) : ProfileChanged(ListenerMap(p)[k], ListenerMap(q)[k])}
  <2>1. Drift(a, b).changed = Changed(a, b) /\ Drift(b, a).changed = Changed(b, a)
    BY <1>2
  <2> HIDE DEF L
  <2>2. Changed(a, b) = Changed(b, a)
    BY <1>4
  <2> QED BY <2>1, <2>2
<1>6. \A x : ~ProfileChanged(x, x)
  BY DEF ProfileChanged
<1>7. DOMAIN Drift(a, a).new = {} /\ Drift(a, a).removed = {} /\ Drift(a, a).changed = {}
  <2>1. /\ DOMAIN Drift(a, a).new = {i \in DOMAIN a : ListenerOf(a[i]) \notin L(a)}
        /\ Drift(a, a).removed = L(a) \ L(a)
        /\ Drift(a, a).changed =
             {k \in L(a) \cap L(a) : ProfileChanged(ListenerMap(a)[k], ListenerMap(a)[k])}
    BY <1>2
  <2>2. \A i \in DOMAIN a : ListenerOf(a[i]) \in L(a)
    OBVIOUS
  <2> HIDE DEF L
  <2>3. {k \in L(a) \cap L(a) : ProfileChanged(ListenerMap(a)[k], ListenerMap(a)[k])} = {}
    BY <1>6
  <2> QED BY <2>1, <2>2, <2>3
<1>8. Drift(a, b).removed = L(a) \ L(b) /\ Drift(b, a).removed = L(b) \ L(a)
  BY <1>2
<1>9. /\ {Drift(a, b).new[i].listener : i \in DOMAIN Drift(a, b).new} = L(b) \ L(a)
      /\ {Drift(b, a).new[i].listener : i \in DOMAIN Drift(b, a).new} = L(a) \ L(b)
  <2>1. {Drift(a, b).new[i].listener : i \in DOMAIN Drift(a, b).new} = L(b) \ L(a)
    <3> HIDE DEF L
    <3> QED BY <1>3
  <2>2. {Drift(b, a).new[i].listener : i \in DOMAIN Drift(b, a).new} = L(a) \ L(b)
    <3> HIDE DEF L
    <3> QED BY <1>3
  <2> QED BY <2>1, <2>2
<1> HIDE DEF L
<1>10. /\ {Drift(a, b).new[i].listener : i \in DOMAIN Drift(a, b).new} = Drift(b, a).removed
       /\ Drift(a, b).removed = {Drift(b, a).new[i].listener : i \in DOMAIN Drift(b, a).new}
  BY <1>8, <1>9
<1> QED BY <1>5, <1>7, <1>10 DEF DriftExact

LEMMA ListIsListed ==
  ASSUME NEW s, IsList(s)
  PROVE  Listed(s)
BY DEF IsList, Listed

LEMMA RedactionExact ==
  ASSUME NEW scan, IsScan(scan)
  PROVE  JsonExact(scan, Redacted(scan))
<1> DEFINE findings == [i \in DOMAIN scan.findings |-> RedactedFinding(scan.findings[i])]
           services == [i \in DOMAIN scan.services |-> RedactedService(scan.services[i])]
           shown == Redacted(scan)
<1>1. shown.findings = findings /\ shown.services = services
  <2>1. shown = [scan EXCEPT !.findings = findings, !.services = services]
    BY DEF Redacted
  <2>2. "findings" \in DOMAIN scan /\ "services" \in DOMAIN scan
    BY DEF IsScan
  <2> HIDE DEF findings, services, shown
  <2> QED BY <2>1, <2>2
<1>2. Listed(scan.findings)
  BY ListIsListed DEF IsScan
<1> HIDE DEF shown
<1>3. /\ DOMAIN findings = 1 .. Len(scan.findings) /\ Len(findings) = Len(scan.findings)
      /\ DOMAIN services = DOMAIN scan.services
  <2>1. DOMAIN findings = 1 .. Len(scan.findings) /\ DOMAIN services = DOMAIN scan.services
    BY <1>2 DEF Listed
  <2> DEFINE n == Len(scan.findings)
             F == {RedactedFinding(scan.findings[i]) : i \in 1 .. n}
  <2>2. n \in Nat
    BY <1>2 DEF Listed
  <2>3. findings \in [1 .. n -> F]
    BY <1>2 DEF Listed
  <2> HIDE DEF findings, F, n
  <2>4. findings \in Seq(F) /\ Len(findings) = n
    BY <2>2, <2>3, SeqDef
  <2> QED BY <2>1, <2>4 DEF n
<1>4. ASSUME NEW i \in DOMAIN scan.findings
      PROVE  /\ findings[i].proof = scan.findings[i].proof \ SensitiveMarks
             /\ findings[i].id = scan.findings[i].id /\ findings[i].url = scan.findings[i].url
             /\ findings[i].parameter = scan.findings[i].parameter
             /\ findings[i].severity = scan.findings[i].severity
  <2> DEFINE f == scan.findings[i]
  <2>1. {"id", "url", "parameter", "severity", "proof"} \subseteq DOMAIN f
    BY <1>4 DEF IsScan, IsFinding
  <2>2. findings[i] = [f EXCEPT !.proof = f.proof \ SensitiveMarks]
    BY <1>4 DEF RedactedFinding
  <2> HIDE DEF f, findings
  <2>3. /\ findings[i].proof = f.proof \ SensitiveMarks /\ findings[i].id = f.id
        /\ findings[i].url = f.url /\ findings[i].parameter = f.parameter
        /\ findings[i].severity = f.severity
    BY <2>1, <2>2
  <2> QED BY <2>3 DEF f
<1>5. ASSUME NEW i \in DOMAIN scan.services
      PROVE  (services[i].banner \cup services[i].handshake) \cap SensitiveMarks = {}
  <2> DEFINE s == scan.services[i]
             hidden == s.banner \ SensitiveMarks
             signed == s.handshake \ SensitiveMarks
  <2>1. "banner" \in DOMAIN s /\ "handshake" \in DOMAIN s
    BY <1>5 DEF IsScan, IsService
  <2>2. services[i] = [s EXCEPT !.banner = hidden, !.handshake = signed]
    BY <1>5 DEF RedactedService
  <2> HIDE DEF s, services, hidden, signed
  <2>3. services[i].banner = hidden /\ services[i].handshake = signed
    BY <2>1, <2>2
  <2> QED BY <2>3 DEF hidden, signed
<1> HIDE DEF findings, services
<1>6. \A i \in DOMAIN scan.findings : /\ shown.findings[i].proof = scan.findings[i].proof \ SensitiveMarks
                                      /\ FindingKey(shown.findings[i]) = FindingKey(scan.findings[i])
                                      /\ shown.findings[i].severity = scan.findings[i].severity
  BY <1>1, <1>4 DEF FindingKey
<1>7. DOMAIN shown.findings = DOMAIN scan.findings
  BY <1>1, <1>2, <1>3 DEF Listed
<1>8. \A i \in DOMAIN shown.services :
        (shown.services[i].banner \cup shown.services[i].handshake) \cap SensitiveMarks = {}
  BY <1>1, <1>3, <1>5
<1> QED BY <1>1, <1>3, <1>6, <1>7, <1>8 DEF JsonExact, shown

LEMMA FormatsExact ==
  ASSUME NEW scan, IsScan(scan)
  PROVE  SarifExact(scan, Summary(scan.findings), Sarif(scan.findings))
<1> DEFINE s == scan.findings
           errors == {i \in DOMAIN s : SarifLevel(s[i]) = "error"}
           critical == OfSeverity(s, "critical")
           high == OfSeverity(s, "high")
<1>1. Listed(s) /\ \A i \in DOMAIN s : s[i].severity \in Severities
  BY ListIsListed DEF IsScan, IsFinding
<1>2. errors = critical \cup high /\ critical \cap high = {}
  BY DEF SarifLevel, OfSeverity
<1>3. IsFiniteSet(critical) /\ IsFiniteSet(high)
  <2>1. IsFiniteSet(DOMAIN s)
    BY <1>1, FS_Interval DEF Listed
  <2> QED BY <2>1, FS_Subset DEF OfSeverity
<1>4. Cardinality(errors) = Cardinality(critical) + Cardinality(high)
  <2>1. Cardinality(critical) \in Nat /\ Cardinality(high) \in Nat /\ Cardinality({}) = 0
    BY <1>3, FS_CardinalityType, FS_EmptySet
  <2>2. Cardinality(critical \cup high)
          = Cardinality(critical) + Cardinality(high) - Cardinality(critical \cap high)
    BY <1>3, FS_Union
  <2>3. Cardinality(critical \cap high) = 0
    BY <1>2, <2>1
  <2>4. Cardinality(errors) = Cardinality(critical) + Cardinality(high) - 0
    BY <1>2, <2>2, <2>3
  <2> HIDE DEF critical, high, errors
  <2> QED BY <2>1, <2>4
<1>5. /\ Summary(s).counts["critical"] = Cardinality(critical)
      /\ Summary(s).counts["high"] = Cardinality(high)
  BY DEF Summary, Severities
<1>6. Summary(s).rating \in {"critical", "high"} <=> critical \cup high # {}
  BY DEF Summary
<1>7. /\ DOMAIN Sarif(s).results = DOMAIN s
      /\ \A i \in DOMAIN s : /\ Sarif(s).results[i].level = SarifLevel(s[i])
                             /\ Sarif(s).results[i].rule = s[i].id
      /\ Sarif(s).rules = {s[i].id : i \in DOMAIN s}
  BY DEF Sarif
<1>8. {i \in DOMAIN Sarif(s).results : Sarif(s).results[i].level = "error"} = errors
  BY <1>7
<1>9. \A i \in DOMAIN s : \E r \in Sarif(s).rules : Sarif(s).results[i].rule = r
  BY <1>7
<1> HIDE DEF errors, critical, high
<1> QED BY <1>2, <1>4, <1>5, <1>6, <1>8, <1>9 DEF SarifExact

LEMMA ImageFinite ==
  ASSUME NEW f, IsFiniteSet(DOMAIN f)
  PROVE  IsFiniteSet({f[x] : x \in DOMAIN f})
<1> DEFINE T == {f[x] : x \in DOMAIN f}
           g == [x \in DOMAIN f |-> f[x]]
<1>1. g \in Surjection(DOMAIN f, T)
  BY DEF Surjection
<1> QED BY <1>1, FS_Surjection

AllGroups(s) == {GroupOf(s, k) : k \in CausesOf(s)}

LEMMA GroupsFinite ==
  ASSUME NEW s, Listed(s)
  PROVE  IsFiniteSet(AllGroups(s))
<1>1. IsFiniteSet(DOMAIN s)
  BY FS_Interval DEF Listed
<1> DEFINE f == [i \in DOMAIN s |-> GroupOf(s, RootCause(s[i]))]
<1>2. IsFiniteSet({f[i] : i \in DOMAIN f})
  <2>1. DOMAIN f = DOMAIN s
    OBVIOUS
  <2> HIDE DEF f
  <2> QED BY <1>1, <2>1, ImageFinite
<1>3. {f[i] : i \in DOMAIN f} = AllGroups(s)
  BY DEF AllGroups, CausesOf
<1> QED BY <1>2, <1>3

\* One group of each cause, the riskiest first.
InOrder(s, order) ==
  /\ Listed(order)
  /\ \A p, q \in DOMAIN order : p < q => order[q].risk <= order[p].risk
  /\ \A p \in DOMAIN order : /\ order[p].risk \in 0 .. 1000
                               /\ order[p].occurrences = Cardinality(OfCause(s, order[p].key))
  /\ \A p, q \in DOMAIN order : order[p].key = order[q].key => p = q
  /\ \A i \in DOMAIN s : \E p \in DOMAIN order :
       order[p].key = RootCause(s[i]) /\ RiskScore(s[i]) <= order[p].risk
  /\ \A p \in DOMAIN order : \E i \in DOMAIN s :
       order[p].key = RootCause(s[i]) /\ order[p].risk = RiskScore(s[i])

LEMMA GroupOrder ==
  ASSUME NEW s, FindingsRated(s), NEW order \in ByRisk(AllGroups(s))
  PROVE  InOrder(s, order)
<1> DEFINE S == AllGroups(s)
<1>1. IsFiniteSet(S)
  BY GroupsFinite DEF FindingsRated
<1>2. /\ order \in [1 .. Cardinality(S) -> S] /\ AllOf(order, S)
      /\ \A p, q \in DOMAIN order : p < q => order[q].risk <= order[p].risk
  BY DEF ByRisk
<1>3. /\ Cardinality(S) \in Nat /\ Len(order) = Cardinality(S) /\ DOMAIN order = 1 .. Len(order)
      /\ \A p, q \in DOMAIN order : order[p] = order[q] => p = q
  <2> HIDE DEF S
  <2> QED BY <1>1, <1>2, OrderFacts
<1>4. \A p \in DOMAIN order : \E k \in CausesOf(s) : order[p] = GroupOf(s, k)
  BY <1>2 DEF AllGroups
<1>5. ASSUME NEW p \in DOMAIN order
      PROVE  /\ order[p].key \in CausesOf(s) /\ order[p] = GroupOf(s, order[p].key)
             /\ order[p].risk \in 0 .. 1000
             /\ order[p].occurrences = Cardinality(OfCause(s, order[p].key))
             /\ \E i \in DOMAIN s : order[p].key = RootCause(s[i]) /\ order[p].risk = RiskScore(s[i])
  <2>1. PICK k \in CausesOf(s) : order[p] = GroupOf(s, k)
    BY <1>4
  <2>2. /\ GroupOf(s, k).key = k
        /\ \E i \in DOMAIN s : RootCause(s[i]) = k /\ GroupOf(s, k).risk = RiskScore(s[i])
        /\ GroupOf(s, k).risk \in 0 .. 1000
        /\ GroupOf(s, k).occurrences = Cardinality(OfCause(s, k))
    BY GroupFacts
  <2> QED BY <2>1, <2>2
<1>6. \A p, q \in DOMAIN order : order[p].key = order[q].key => p = q
  <2> TAKE p, q \in DOMAIN order
  <2> HAVE order[p].key = order[q].key
  <2>1. order[p] = order[q]
    BY <1>5
  <2> QED BY <1>3, <2>1
<1>7. ASSUME NEW i \in DOMAIN s
      PROVE  \E p \in DOMAIN order : order[p].key = RootCause(s[i]) /\ RiskScore(s[i]) <= order[p].risk
  <2> DEFINE k == RootCause(s[i])
  <2>1. k \in CausesOf(s)
    BY DEF CausesOf
  <2>2. GroupOf(s, k) \in S
    BY <2>1 DEF AllGroups
  <2>3. PICK p \in DOMAIN order : order[p] = GroupOf(s, k)
    BY <1>2, <2>2 DEF AllOf
  <2>4. GroupOf(s, k).key = k /\ RiskScore(s[i]) <= GroupOf(s, k).risk
    <3> HIDE DEF k
    <3>1. /\ GroupOf(s, k).key = k
          /\ \A j \in DOMAIN s : RootCause(s[j]) = k => RiskScore(s[j]) <= GroupOf(s, k).risk
      BY <2>1, GroupFacts
    <3> QED BY <1>7, <3>1 DEF k
  <2> QED BY <2>3, <2>4
<1>8. Listed(order)
  BY <1>3 DEF Listed
<1> QED BY <1>2, <1>5, <1>6, <1>7, <1>8 DEF InOrder

IsNode(n) == n = GraphNode(n.id, n.risk) /\ n.risk \in 0 .. 1000

LEMMA MadeNodes ==
  /\ \A id : \A risk \in 0 .. 1000 : IsNode(GraphNode(id, risk))
  /\ \A id, risk : GraphNode(id, risk).id = id /\ GraphNode(id, risk).risk = risk
BY DEF IsNode, GraphNode

\* Of the nodes with one identity the riskiest stays.
LEMMA KeptNodes ==
  ASSUME NEW scan, \A n \in AddedNodes(scan) : IsNode(n)
  PROVE  /\ \A n \in AddedNodes(scan) : \E m \in Nodes(scan) : m.id = n.id /\ n.risk <= m.risk
         /\ \A n, m \in Nodes(scan) : n.id = m.id => n = m
         /\ Nodes(scan) \subseteq AddedNodes(scan)
<1> DEFINE added == AddedNodes(scan)
<1>1. Nodes(scan) = {n \in added : \A m \in added : m.id = n.id => m.risk <= n.risk}
  BY DEF Nodes
<1>2. \A n \in added : IsNode(n)
  OBVIOUS
<1> HIDE DEF added
<1>3. ASSUME NEW n \in added
      PROVE  \E m \in Nodes(scan) : m.id = n.id /\ n.risk <= m.risk
  <2> DEFINE D == {1000 - m.risk : m \in {x \in added : x.id = n.id}}
  <2>1. \A m \in added : m.risk \in 0 .. 1000
    BY <1>2 DEF IsNode
  <2>2. D \subseteq Nat /\ D # {}
    <3>2. ASSUME NEW m \in added
          PROVE  1000 - m.risk \in Nat
      <4> DEFINE z == m.risk
      <4>1. z \in 0 .. 1000
        BY <2>1
      <4> HIDE DEF z
      <4>2. 1000 - z \in Nat
        BY <4>1
      <4> QED BY <4>2 DEF z
    <3>3. \E x \in added : x.id = n.id
      BY <1>3
    <3> HIDE DEF added
    <3> QED BY <3>2, <3>3
  <2>3. PICK d \in D : \A y \in D : d <= y
    <3> HIDE DEF D
    <3> QED BY <2>2, LeastNat
  <2>4. PICK m \in added : m.id = n.id /\ d = 1000 - m.risk
    BY <2>3
  <2>5. ASSUME NEW x \in added, x.id = n.id
        PROVE  x.risk <= m.risk
    <3>1. d <= 1000 - x.risk
      BY <2>3, <2>5
    <3> DEFINE y == x.risk
               z == m.risk
    <3>2. y \in 0 .. 1000 /\ z \in 0 .. 1000 /\ 1000 - z <= 1000 - y
      BY <2>1, <2>4, <3>1
    <3> HIDE DEF D, y, z
    <3>3. y <= z
      BY <3>2
    <3> QED BY <3>3 DEF y, z
  <2> QED BY <1>1, <2>4, <2>5
<1>4. ASSUME NEW n \in Nodes(scan), NEW m \in Nodes(scan), n.id = m.id
      PROVE  n = m
  <2>1. n.risk <= m.risk /\ m.risk <= n.risk
    BY <1>1, <1>4
  <2>2. IsNode(n) /\ IsNode(m)
    BY <1>1, <1>2
  <2>3. n.risk = m.risk
    <3> DEFINE y == n.risk
               z == m.risk
    <3>1. y \in 0 .. 1000 /\ z \in 0 .. 1000 /\ y <= z /\ z <= y
      BY <2>1, <2>2 DEF IsNode
    <3> HIDE DEF y, z
    <3>2. y = z
      BY <3>1
    <3> QED BY <3>2 DEF y, z
  <2> QED BY <1>4, <2>2, <2>3 DEF IsNode
<1>5. Nodes(scan) \subseteq added
  BY <1>1
<1> QED BY <1>3, <1>4, <1>5 DEF added

\* The risk of a service is one of a few.
LEMMA PartNodes ==
  /\ \A a : \A n \in AssetNodes(a) : IsNode(n)
  /\ \A s : \A n \in ServiceNodes(s) : IsNode(n)
  /\ \A k : \A n \in StackNodes(k) : IsNode(n)
  /\ \A services : \A g : g.risk \in 0 .. 1000 => \A n \in GroupNodes(services, g) : IsNode(n)
<1>1. \A a : \A n \in AssetNodes(a) : IsNode(n)
  BY MadeNodes DEF AssetNodes
<1>2. ASSUME NEW s
      PROVE  \A n \in ServiceNodes(s) : IsNode(n)
  <2>1. ServiceRisk(s) \in 0 .. 1000
    BY DEF ServiceRisk
  <2>2. IsNode(GraphNode(UrlId("service", s.endpoint), ServiceRisk(s)))
    BY <2>1, MadeNodes
  <2>3. \A id : IsNode(GraphNode(id, 0)) /\ IsNode(GraphNode(id, 100)) /\ IsNode(GraphNode(id, 550))
    BY MadeNodes
  <2> QED BY <2>2, <2>3 DEF ServiceNodes
<1>3. \A k : \A n \in StackNodes(k) : IsNode(n)
  BY MadeNodes DEF StackNodes
<1>4. ASSUME NEW services, NEW g, g.risk \in 0 .. 1000
      PROVE  \A n \in GroupNodes(services, g) : IsNode(n)
  <2>1. \A id : IsNode(GraphNode(id, 0)) /\ IsNode(GraphNode(id, g.risk))
    BY <1>4, MadeNodes
  <2> QED BY <2>1 DEF GroupNodes
<1> QED BY <1>1, <1>2, <1>3, <1>4

NodeIds(N) == {n.id : n \in N}

Inside(e, ids) == e[1] \in ids /\ e[2] \in ids

LEMMA PartEdges ==
  ASSUME NEW target
  PROVE  /\ \A a : \A e \in AssetEdges(target, a) : Inside(e, {target} \cup NodeIds(AssetNodes(a)))
         /\ \A s : \A e \in ServiceEdges(target, s) : Inside(e, {target} \cup NodeIds(ServiceNodes(s)))
         /\ \A k : \A e \in StackEdges(target, k) : Inside(e, {target} \cup NodeIds(StackNodes(k)))
         /\ \A services, g : \A e \in GroupEdges(services, g) : Inside(e, NodeIds(GroupNodes(services, g)))
<1>1. \A N, id, risk : GraphNode(id, risk) \in N => id \in NodeIds(N)
  BY MadeNodes DEF NodeIds
<1>2. ASSUME NEW a
      PROVE  \A e \in AssetEdges(target, a) : Inside(e, {target} \cup NodeIds(AssetNodes(a)))
  <2>1. AssetId(a) \in NodeIds(AssetNodes(a))
    BY <1>1 DEF AssetNodes
  <2>2. a.url.port # NoPort =>
          UrlId("service", a.url) \in NodeIds(AssetNodes(a)) /\ <<"port", a.url.port>> \in NodeIds(AssetNodes(a))
    BY <1>1 DEF AssetNodes, ListensOn
  <2> QED BY <2>1, <2>2 DEF AssetEdges, Inside
<1>3. ASSUME NEW s
      PROVE  \A e \in ServiceEdges(target, s) : Inside(e, {target} \cup NodeIds(ServiceNodes(s)))
  <2> DEFINE ids == NodeIds(ServiceNodes(s))
  <2>1. /\ NodeId("ip", s.endpoint.host) \in ids /\ UrlId("service", s.endpoint) \in ids
        /\ <<"port", s.endpoint.port>> \in ids
        /\ <<"exposure", HasSignal(s, "publicly_routable")>> \in ids
    BY <1>1 DEF ServiceNodes
  <2>2. s.product # NoText => Tech(s.product, s.version) \in ids
    BY <1>1 DEF ServiceNodes
  <2> HIDE DEF ids
  <2>3. \A e \in ServiceEdges(target, s) : Inside(e, {target} \cup ids)
    BY <2>1, <2>2 DEF ServiceEdges, Inside
  <2> QED BY <2>3 DEF ids
<1>4. ASSUME NEW k
      PROVE  \A e \in StackEdges(target, k) : Inside(e, {target} \cup NodeIds(StackNodes(k)))
  <2>1. UrlId("endpoint", k.url) \in NodeIds(StackNodes(k))
    BY <1>1 DEF StackNodes
  <2>2. \A t \in k.techs : Tech(t[1], t[2]) \in NodeIds(StackNodes(k))
    BY <1>1 DEF StackNodes
  <2> QED BY <2>1, <2>2 DEF StackEdges, Inside
<1>5. ASSUME NEW services, NEW g
      PROVE  \A e \in GroupEdges(services, g) : Inside(e, NodeIds(GroupNodes(services, g)))
  <2> DEFINE ids == NodeIds(GroupNodes(services, g))
  <2>1. CauseId(g.key) \in ids /\ UrlId("endpoint", g.top.url) \in ids
    BY <1>1 DEF GroupNodes
  <2>2. g.top.url.tcp => UrlId("service", g.top.url) \in ids
    BY <1>1 DEF GroupNodes
  <2>3. g.top.class = "cve" => /\ NodeId("cve", g.top.id) \in ids
                               /\ \A t \in AffectedTechs(services, g.top.url) : t \in ids
    BY <1>1 DEF GroupNodes
  <2> HIDE DEF ids
  <2>4. \A e \in GroupEdges(services, g) : Inside(e, ids)
    BY <2>1, <2>2, <2>3 DEF GroupEdges, Inside
  <2> QED BY <2>4 DEF ids
<1> QED BY <1>2, <1>3, <1>4, <1>5

\* Only a group is a finding of the graph.
LEMMA FindingNodes ==
  /\ \A a : \A n \in AssetNodes(a) : \A k : n.id # CauseId(k)
  /\ \A s : \A n \in ServiceNodes(s) : \A k : n.id # CauseId(k)
  /\ \A k : \A n \in StackNodes(k) : \A key : n.id # CauseId(key)
  /\ \A services, g : \A n \in GroupNodes(services, g) : \A k :
       n.id = CauseId(k) => CauseId(k) = CauseId(g.key) /\ n.risk = g.risk
<1>1. \A x, y, z, k : Tech(x, y) # CauseId(k) /\ TargetId(z) # CauseId(k)
  BY DEF Tech, TargetId, CauseId, NodeId
<1>4. \A x, k : \A kind \in {"subdomain", "ip", "service", "endpoint", "cve"} :
        /\ NodeId(kind, x) # CauseId(k) /\ UrlId(kind, x) # CauseId(k)
        /\ <<"port", x>> # CauseId(k) /\ <<"exposure", x>> # CauseId(k)
  BY DEF NodeId, UrlId, CauseId
<1>2. \A a, k : AssetId(a) # CauseId(k)
  BY <1>4 DEF AssetId
<1>3. \A id, risk : GraphNode(id, risk).id = id /\ GraphNode(id, risk).risk = risk
  BY MadeNodes
<1>5. \A a : \A n \in AssetNodes(a) : \A k : n.id # CauseId(k)
  <2> SUFFICES ASSUME NEW a, NEW n \in AssetNodes(a), NEW k
               PROVE  n.id # CauseId(k)
    OBVIOUS
  <2>1. PICK id \in {AssetId(a)} \cup ListensOn(a.url) : n = GraphNode(id, 0)
    BY DEF AssetNodes
  <2>2. n.id = id
    BY <1>3, <2>1
  <2>3. id = AssetId(a) \/ id = UrlId("service", a.url) \/ id = <<"port", a.url.port>>
    BY <2>1 DEF ListensOn
  <2> QED BY <1>2, <1>4, <2>2, <2>3
<1>6. ASSUME NEW s
      PROVE  \A n \in ServiceNodes(s) : \A k : n.id # CauseId(k)
  <2> DEFINE public == HasSignal(s, "publicly_routable")
  <2> SUFFICES ASSUME NEW n \in ServiceNodes(s), NEW k
               PROVE  n.id # CauseId(k)
    OBVIOUS
  <2>1. n.id \in {NodeId("ip", s.endpoint.host), UrlId("service", s.endpoint),
                  <<"port", s.endpoint.port>>, <<"exposure", public>>, Tech(s.product, s.version)}
    BY <1>3 DEF ServiceNodes
  <2>2. <<"exposure", public>> # CauseId(k)
    BY DEF CauseId
  <2> HIDE DEF public
  <2> QED BY <1>1, <1>4, <2>1, <2>2
<1>7. \A s : \A n \in StackNodes(s) : \A k : n.id # CauseId(k)
  BY <1>1, <1>3, <1>4 DEF StackNodes
<1>8. ASSUME NEW services, NEW g, NEW n \in GroupNodes(services, g), NEW k, n.id = CauseId(k)
      PROVE  CauseId(k) = CauseId(g.key) /\ n.risk = g.risk
  <2>1. \A t \in AffectedTechs(services, g.top.url) : t # CauseId(k)
    BY <1>1 DEF AffectedTechs
  <2>2. n = GraphNode(CauseId(g.key), g.risk)
    BY <1>3, <1>4, <1>8, <2>1 DEF GroupNodes
  <2>3. n.id = CauseId(g.key) /\ n.risk = g.risk
    BY <1>3, <2>2
  <2> QED BY <1>8, <2>3
<1> QED BY <1>5, <1>6, <1>7, <1>8

\* The graph of a scan whose findings are grouped.
LEMMA GraphExact ==
  ASSUME NEW scan, IsScan(scan), groups \in ByRisk(AllGroups(scan.findings)),
         NEW graph, graph.nodes = Nodes(scan), graph.edges = Edges(scan), graph.groups = groups
  PROVE  GroupsExact(scan, graph)
<1> DEFINE s == scan.findings
           services == scan.services
           stay == Nodes(scan)
           ids == {n.id : n \in stay}
<1>1. FindingsRated(s)
  BY ListIsListed DEF IsScan, FindingsRated
<1>2. InOrder(s, groups)
  BY <1>1, GroupOrder
<1>3. /\ \A g \in ToSet(groups) : g.risk \in 0 .. 1000
      /\ \A p \in DOMAIN groups : groups[p] \in ToSet(groups)
      /\ \A g \in ToSet(groups) : \E p \in DOMAIN groups : g = groups[p]
  BY <1>2 DEF ToSet, InOrder
<1> HIDE DEF s
<1>4. /\ {GraphNode(TargetId(scan), 0)} \subseteq AddedNodes(scan)
      /\ \A a \in scan.assets : AssetNodes(a) \subseteq AddedNodes(scan)
      /\ \A x \in ToSet(services) : ServiceNodes(x) \subseteq AddedNodes(scan)
      /\ \A k \in scan.stacks : StackNodes(k) \subseteq AddedNodes(scan)
      /\ \A g \in ToSet(groups) : GroupNodes(services, g) \subseteq AddedNodes(scan)
      /\ \A n \in AddedNodes(scan) :
           \/ n = GraphNode(TargetId(scan), 0)
           \/ \E a \in scan.assets : n \in AssetNodes(a)
           \/ \E x \in ToSet(services) : n \in ServiceNodes(x)
           \/ \E k \in scan.stacks : n \in StackNodes(k)
           \/ \E g \in ToSet(groups) : n \in GroupNodes(services, g)
  BY DEF AddedNodes
<1>5. /\ \A n \in AddedNodes(scan) : \E m \in stay : m.id = n.id /\ n.risk <= m.risk
      /\ \A n, m \in stay : n.id = m.id => n = m
      /\ stay \subseteq AddedNodes(scan)
  <2>1. IsNode(GraphNode(TargetId(scan), 0))
    BY MadeNodes
  <2>2. \A g \in ToSet(groups) : \A n \in GroupNodes(services, g) : IsNode(n)
    BY <1>3, PartNodes
  <2>3. \A n \in AddedNodes(scan) : IsNode(n)
    BY <1>4, <2>1, <2>2, PartNodes
  <2> QED BY <2>3, KeptNodes
<1>6. \A N : N \subseteq AddedNodes(scan) => NodeIds(N) \subseteq ids
  BY <1>5 DEF NodeIds
<1> HIDE DEF stay, ids
<1>7. TargetId(scan) \in ids
  <2>2. TargetId(scan) \in NodeIds({GraphNode(TargetId(scan), 0)})
    BY MadeNodes DEF NodeIds
  <2> QED BY <1>4, <1>6, <2>2
<1>8. \A e \in Edges(scan) : e[1] \in ids /\ e[2] \in ids
  <2> SUFFICES ASSUME NEW e \in Edges(scan)
               PROVE  Inside(e, ids)
    BY DEF Inside
  <2>1. CASE \E a \in scan.assets : e \in AssetEdges(TargetId(scan), a)
    <3>1. PICK a \in scan.assets : e \in AssetEdges(TargetId(scan), a)
      BY <2>1
    <3>2. NodeIds(AssetNodes(a)) \subseteq ids
      BY <1>4, <1>6
    <3>3. Inside(e, {TargetId(scan)} \cup NodeIds(AssetNodes(a)))
      BY <3>1, PartEdges
    <3> QED BY <1>7, <3>2, <3>3 DEF Inside
  <2>2. CASE \E x \in ToSet(services) : e \in ServiceEdges(TargetId(scan), x)
    <3>1. PICK x \in ToSet(services) : e \in ServiceEdges(TargetId(scan), x)
      BY <2>2
    <3>2. NodeIds(ServiceNodes(x)) \subseteq ids
      BY <1>4, <1>6
    <3>3. Inside(e, {TargetId(scan)} \cup NodeIds(ServiceNodes(x)))
      BY <3>1, PartEdges
    <3> QED BY <1>7, <3>2, <3>3 DEF Inside
  <2>3. CASE \E k \in scan.stacks : e \in StackEdges(TargetId(scan), k)
    <3>1. PICK k \in scan.stacks : e \in StackEdges(TargetId(scan), k)
      BY <2>3
    <3>2. NodeIds(StackNodes(k)) \subseteq ids
      BY <1>4, <1>6
    <3>3. Inside(e, {TargetId(scan)} \cup NodeIds(StackNodes(k)))
      BY <3>1, PartEdges
    <3> QED BY <1>7, <3>2, <3>3 DEF Inside
  <2>4. CASE \E g \in ToSet(groups) : e \in GroupEdges(services, g)
    <3>1. PICK g \in ToSet(groups) : e \in GroupEdges(services, g)
      BY <2>4
    <3>2. NodeIds(GroupNodes(services, g)) \subseteq ids
      BY <1>4, <1>6
    <3>3. Inside(e, NodeIds(GroupNodes(services, g)))
      BY <3>1, PartEdges
    <3> QED BY <3>2, <3>3 DEF Inside
  <2>5. \/ \E a \in scan.assets : e \in AssetEdges(TargetId(scan), a)
        \/ \E x \in ToSet(services) : e \in ServiceEdges(TargetId(scan), x)
        \/ \E k \in scan.stacks : e \in StackEdges(TargetId(scan), k)
        \/ \E g \in ToSet(groups) : e \in GroupEdges(services, g)
    BY DEF Edges
  <2> QED BY <2>1, <2>2, <2>3, <2>4, <2>5
<1>9. ASSUME NEW p \in DOMAIN groups
      PROVE  \E n \in stay : /\ n.id = CauseId(groups[p].key) /\ groups[p].risk <= n.risk
                             /\ \E q \in DOMAIN groups :
                                  CauseId(groups[q].key) = n.id /\ groups[q].risk = n.risk
  <2> DEFINE g == groups[p]
             id == CauseId(g.key)
  <2>1. GraphNode(id, g.risk) \in AddedNodes(scan)
    <3>1. GraphNode(id, g.risk) \in GroupNodes(services, g)
      BY DEF GroupNodes
    <3> HIDE DEF id
    <3> QED BY <1>3, <1>4, <3>1
  <2>2. GraphNode(id, g.risk).id = id /\ GraphNode(id, g.risk).risk = g.risk
    BY MadeNodes
  <2>3. PICK n \in stay : n.id = id /\ g.risk <= n.risk
    <3> HIDE DEF id, g
    <3> QED BY <1>5, <2>1, <2>2
  <2>4. n \in AddedNodes(scan)
    BY <1>5
  <2>5. n # GraphNode(TargetId(scan), 0)
    <3>1. GraphNode(TargetId(scan), 0).id = TargetId(scan)
      BY MadeNodes
    <3>2. TargetId(scan) # id
      BY DEF TargetId, NodeId, CauseId
    <3> QED BY <2>3, <3>1, <3>2
  <2>6. PICK h \in ToSet(groups) : n \in GroupNodes(services, h)
    <3>1. \A a : n \notin AssetNodes(a)
      BY <2>3, FindingNodes
    <3>2. \A x : n \notin ServiceNodes(x)
      BY <2>3, FindingNodes
    <3>3. \A k : n \notin StackNodes(k)
      BY <2>3, FindingNodes
    <3> HIDE DEF id, g
    <3> QED BY <1>4, <2>4, <2>5, <3>1, <3>2, <3>3
  <2>7. CauseId(h.key) = n.id /\ n.risk = h.risk
    BY <2>3, <2>6, FindingNodes
  <2>8. \E q \in DOMAIN groups : groups[q] = h
    BY <1>3
  <2> QED BY <2>3, <2>7, <2>8
<1>10. ids = {n.id : n \in graph.nodes} /\ graph.nodes = stay
  BY DEF ids, stay
<1>11. ASSUME NEW i \in DOMAIN s
       PROVE  \E p \in {q \in DOMAIN graph.groups : graph.groups[q].key = RootCause(s[i])} :
                /\ {q \in DOMAIN graph.groups : graph.groups[q].key = RootCause(s[i])} = {p}
                /\ graph.groups[p].risk >= RiskScore(s[i])
                /\ graph.groups[p].occurrences = Cardinality(OfCause(s, graph.groups[p].key))
                /\ \E n \in graph.nodes : /\ n.id = CauseId(graph.groups[p].key)
                                          /\ n.risk >= graph.groups[p].risk
                                          /\ \E q \in DOMAIN graph.groups :
                                               CauseId(graph.groups[q].key) = n.id /\ graph.groups[q].risk = n.risk
  <2>1. PICK p \in DOMAIN groups : groups[p].key = RootCause(s[i]) /\ RiskScore(s[i]) <= groups[p].risk
    BY <1>2, <1>11 DEF InOrder
  <2>2. {q \in DOMAIN groups : groups[q].key = RootCause(s[i])} = {p}
    BY <1>2, <2>1 DEF InOrder
  <2>3. groups[p].occurrences = Cardinality(OfCause(s, groups[p].key))
    BY <1>2 DEF InOrder
  <2>4. groups[p].risk >= RiskScore(s[i])
    BY <2>1
  <2>5. \E n \in graph.nodes : /\ n.id = CauseId(groups[p].key) /\ n.risk >= groups[p].risk
                               /\ \E q \in DOMAIN groups :
                                    CauseId(groups[q].key) = n.id /\ groups[q].risk = n.risk
    BY <1>9, <1>10
  <2> QED BY <2>2, <2>3, <2>4, <2>5
<1>12. /\ \A e \in graph.edges : e[1] \in ids /\ e[2] \in ids
       /\ \A n, m \in graph.nodes : n.id = m.id => n = m
  BY <1>5, <1>8, <1>10
<1>13. /\ \A p \in DOMAIN graph.groups : \E i \in DOMAIN s :
            graph.groups[p].key = RootCause(s[i]) /\ graph.groups[p].risk = RiskScore(s[i])
       /\ \A p, q \in DOMAIN graph.groups : p < q => graph.groups[q].risk <= graph.groups[p].risk
  BY <1>2 DEF InOrder
<1> QED BY <1>10, <1>11, <1>12, <1>13 DEF GroupsExact, s

\* No hint speaks of a service that is no finding.
LEMMA HintsFollow ==
  ASSUME NEW scan
  PROVE  LET services == scan.services
             Says(what) == \E i \in DOMAIN services : ExposureOf(services[i]) \in what
         IN  /\ "database" \in Hints(scan) => Says({"database"})
             /\ "redis" \in Hints(scan) <=> Says({"redis"})
             /\ "management" \in Hints(scan) => Says({"database", "redis", "rdp", "management"})
<1> DEFINE services == scan.services
           public == {i \in DOMAIN services : HasSignal(services[i], "publicly_routable")}
<1>1. /\ "database" \in Hints(scan) =>
           \E i \in public : services[i].protocol \in Databases /\ services[i].tls # TRUE
      /\ "redis" \in Hints(scan) <=>
           \E i \in public : services[i].protocol = "redis" /\ services[i].auth = FALSE
      /\ "management" \in Hints(scan) =>
           \E i \in public : HasSignal(services[i], "remote_management_service")
  BY DEF Hints
<1>2. ASSUME NEW i \in public
      PROVE  /\ services[i].protocol \in Databases /\ services[i].tls # TRUE =>
                  ExposureOf(services[i]) = "database"
             /\ services[i].protocol = "redis" /\ services[i].auth = FALSE =>
                  ExposureOf(services[i]) = "redis"
             /\ HasSignal(services[i], "remote_management_service") =>
                  ExposureOf(services[i]) \in {"database", "redis", "rdp", "management"}
  BY DEF ExposureOf, NotEncrypted, Databases
<1>3. ASSUME NEW i \in DOMAIN services, ExposureOf(services[i]) = "redis"
      PROVE  i \in public /\ services[i].protocol = "redis" /\ services[i].auth = FALSE
  BY <1>3 DEF ExposureOf
<1>4. public \subseteq DOMAIN services
  OBVIOUS
<1> HIDE DEF public, services
<1>5. "database" \in Hints(scan) => \E i \in DOMAIN services : ExposureOf(services[i]) \in {"database"}
  BY <1>1, <1>2, <1>4
<1>6. "redis" \in Hints(scan) <=> \E i \in DOMAIN services : ExposureOf(services[i]) \in {"redis"}
  BY <1>1, <1>2, <1>3, <1>4
<1>7. "management" \in Hints(scan) =>
        \E i \in DOMAIN services : ExposureOf(services[i]) \in {"database", "redis", "rdp", "management"}
  BY <1>1, <1>2, <1>4
<1> QED BY <1>5, <1>6, <1>7 DEF services

\* Every group is in an action that is at least as urgent.
Advised(n) ==
  /\ IsFiniteSet(DOMAIN advice) /\ \A a \in DOMAIN advice : advice[a].risk \in Nat
  /\ \A p \in 1 .. n : /\ AdviceOf(groups[p]) \in DOMAIN advice
                       /\ groups[p].risk <= advice[AdviceOf(groups[p])].risk

LEMMA UrgentActions ==
  ASSUME NEW scan, IsScan(scan), groups \in ByRisk(AllGroups(scan.findings)), Advised(Len(groups)),
         NEW order \in ByRisk(AllActions(scan.services)),
         NEW graph, graph.groups = groups, graph.hints = Hints(scan),
         graph.actions = FirstFew(order, MaxActions),
         NEW exposures, exposures = [i \in DOMAIN scan.services |-> ExposureOf(scan.services[i])]
  PROVE  ActionsExact(graph, exposures)
<1> DEFINE S == AllActions(scan.services)
           few == FirstFew(order, MaxActions)
<1>1. Listed(groups) /\ \A p \in DOMAIN groups : groups[p].risk \in 0 .. 1000
  <2>1. FindingsRated(scan.findings)
    BY ListIsListed DEF IsScan, FindingsRated
  <2>2. InOrder(scan.findings, groups)
    BY <2>1, GroupOrder
  <2> QED BY <2>2 DEF InOrder
<1>2. IsFiniteSet(S)
  <2> DEFINE f == [a \in DOMAIN advice |->
                     [advice |-> a, risk |-> advice[a].risk, findings |-> advice[a].findings]]
  <2>1. IsFiniteSet({f[a] : a \in DOMAIN f})
    <3>1. IsFiniteSet(DOMAIN f)
      BY DEF Advised
    <3> HIDE DEF f
    <3> QED BY <3>1, ImageFinite
  <2>2. IsFiniteSet(Segmentation(scan.services))
    <3> DEFINE sensitive == {i \in DOMAIN scan.services : scan.services[i].signals \cap Segmented # {}}
               public == {i \in sensitive : HasSignal(scan.services[i], "publicly_routable")}
               segment == [advice |-> <<"segment", NoText>>, risk |-> IF public = {} THEN 550 ELSE 950,
                           findings |-> Cardinality(public)]
    <3>1. Segmentation(scan.services) = IF sensitive = {} THEN {} ELSE {segment}
      BY DEF Segmentation
    <3> HIDE DEF segment, sensitive
    <3>2. \A x : IsFiniteSet({x})
      BY FS_Singleton
    <3> QED BY <3>1, <3>2, FS_EmptySet
  <2>3. S = {f[a] : a \in DOMAIN f} \cup Segmentation(scan.services)
    BY DEF AllActions
  <2> HIDE DEF S, f
  <2> QED BY <2>1, <2>2, <2>3, FS_Union
<1>3. \A x \in S : x.risk \in Nat
  BY DEF AllActions, Segmentation, Advised
<1>4. \A p \in DOMAIN groups : \E x \in S : x.advice = AdviceOf(groups[p]) /\ groups[p].risk <= x.risk
  <2> TAKE p \in DOMAIN groups
  <2> DEFINE a == AdviceOf(groups[p])
  <2>1. a \in DOMAIN advice /\ groups[p].risk <= advice[a].risk
    BY <1>1 DEF Advised, Listed
  <2> HIDE DEF a
  <2>2. [advice |-> a, risk |-> advice[a].risk, findings |-> advice[a].findings] \in S
    BY <2>1 DEF AllActions
  <2> QED BY <2>1, <2>2 DEF a
<1>5. /\ order \in [1 .. Cardinality(S) -> S] /\ AllOf(order, S)
      /\ \A i, j \in DOMAIN order : i < j => order[j].risk <= order[i].risk
  BY DEF ByRisk
<1> HIDE DEF S
<1>6. order \in Seq(S) /\ DOMAIN order = 1 .. Len(order) /\ Len(order) \in Nat
  BY <1>2, <1>5, OrderFacts
<1>7. MaxActions \in Nat
  BY ReportAssumption
<1>8. /\ Len(few) = IF Len(order) < MaxActions THEN Len(order) ELSE MaxActions
      /\ DOMAIN few = 1 .. Len(few) /\ DOMAIN few \subseteq DOMAIN order
      /\ \A i \in DOMAIN few : few[i] = order[i]
  BY <1>6, <1>7, FirstFewFacts
<1> HIDE DEF few
<1>9. Len(few) <= MaxActions
  BY <1>6, <1>7, <1>8
<1>10. ASSUME NEW p \in DOMAIN groups
       PROVE  \/ \E i \in DOMAIN few : few[i].advice = AdviceOf(groups[p]) /\ few[i].risk >= groups[p].risk
              \/ Len(few) = MaxActions /\ \A i \in DOMAIN few : few[i].risk >= groups[p].risk
  <2>1. PICK x \in S : x.advice = AdviceOf(groups[p]) /\ groups[p].risk <= x.risk
    BY <1>4
  <2>2. PICK i \in DOMAIN order : order[i] = x
    BY <1>5 DEF AllOf
  <2>3. CASE i \in DOMAIN few
    <3>1. few[i].advice = AdviceOf(groups[p]) /\ few[i].risk >= groups[p].risk
      BY <1>8, <2>1, <2>2, <2>3
    <3> QED BY <2>3, <3>1
  <2>4. CASE i \notin DOMAIN few
    <3>1. Len(few) = MaxActions /\ \A j \in DOMAIN few : j < i
      BY <1>6, <1>7, <1>8, <2>2, <2>4
    <3>2. ASSUME NEW j \in DOMAIN few
          PROVE  few[j].risk >= groups[p].risk
      <4>1. order[i].risk <= order[j].risk
        BY <1>5, <1>8, <2>2, <3>1
      <4> DEFINE top == order[j].risk
                 middle == order[i].risk
                 low == groups[p].risk
      <4>2. top \in Nat /\ middle \in Nat /\ low \in Nat
        <5>1. order[i] \in S /\ order[j] \in S
          BY <1>5, <1>8
        <5>2. order[i].risk \in Nat /\ order[j].risk \in Nat
          BY <1>3, <5>1
        <5>3. groups[p].risk \in 0 .. 1000
          BY <1>1
        <5>4. low \in 0 .. 1000
          BY <5>3
        <5> HIDE DEF low
        <5>5. low \in Nat
          BY <5>4
        <5> QED BY <5>2, <5>5
      <4>3. low <= middle /\ middle <= top
        BY <2>1, <2>2, <4>1
      <4> HIDE DEF top, middle, low
      <4>4. top >= low
        BY <4>2, <4>3
      <4> QED BY <1>8, <4>4 DEF top, low
    <3> QED BY <3>1, <3>2
  <2> QED BY <2>3, <2>4
<1>11. /\ "database" \in graph.hints => \E i \in DOMAIN exposures : exposures[i] \in {"database"}
       /\ "redis" \in graph.hints <=> \E i \in DOMAIN exposures : exposures[i] \in {"redis"}
       /\ "management" \in graph.hints =>
            \E i \in DOMAIN exposures : exposures[i] \in {"database", "redis", "rdp", "management"}
  BY HintsFollow
<1>12. graph.actions = few /\ graph.groups = groups
  BY DEF few
<1> QED BY <1>9, <1>10, <1>11, <1>12 DEF ActionsExact

EarlySteps == {"exposures", "drift", "history", "json", "html"}
LateSteps  == {"trend", "sarif", "diff", "done"}

SeriesOk ==
  /\ series \in ScanLists /\ at \in 1 .. Len(series)
  /\ writing \in EarlySteps \cup {"groups", "actions"} \cup LateSteps

HistoryInv == IsFiniteSet(rows) /\ HistoryExact(Recorded)

\* The loop over the groups.
AdviceInv ==
  writing = "actions" => /\ groups \in ByRisk(AllGroups(Scan.findings))
                         /\ merged \in 0 .. Len(groups) /\ Advised(merged)

\* What is there of the files that have one content only.
FilesInv ==
  LET Shows(name, there, content) == output[name] = IF there THEN content ELSE Unwritten
      before == series[at - 1]
  IN  /\ DOMAIN output = FileNames
      /\ Shows("exposures", writing # "exposures",
              [i \in DOMAIN Scan.services |-> ExposureOf(Scan.services[i])])
      /\ Shows("drift", at > 1 /\ writing \notin {"exposures", "drift"},
              Drift(before.services, Scan.services))
      /\ Shows("json", writing \notin {"exposures", "drift", "history", "json"}, Redacted(Scan))
      /\ Shows("html", writing \notin EarlySteps, Summary(Scan.findings))
      /\ Shows("sarif", writing \in {"diff", "done"}, Sarif(Scan.findings))
      /\ Shows("diff", at > 1 /\ writing = "done",
              CompareReports(before.findings, Scan.findings, review.suppressions, review.now))

\* What is there of the graph and the trend.
GraphInv ==
  output["graph"] # Unwritten => /\ writing \in LateSteps
                                 /\ GroupsExact(Scan, output["graph"])
                                 /\ ActionsExact(output["graph"], output["exposures"])

TrendInv ==
  output["trend"] # Unwritten => /\ writing \in LateSteps \ {"trend"}
                                 /\ TrendExact(Scan, at, output["trend"])

\* The strengthening of ReportsExact.
ReportInv == SeriesOk /\ HistoryInv /\ AdviceInv /\ FilesInv /\ GraphInv /\ TrendInv

LEMMA ScanFacts ==
  ASSUME SeriesOk
  PROVE  /\ IsScan(Scan) /\ FindingsRated(Scan.findings)
         /\ Len(series) \in Nat /\ (at > 1 => IsScan(series[at - 1]))
<1>1. IsList(series) /\ \A i \in DOMAIN series : IsScan(series[i])
  BY ReportAssumption DEF SeriesOk
<1>2. Len(series) \in Nat /\ DOMAIN series = 1 .. Len(series)
  BY <1>1, ListIsListed DEF Listed
<1>3. IsScan(Scan)
  BY <1>1, <1>2 DEF SeriesOk, Scan
<1>4. at > 1 => at - 1 \in 1 .. Len(series)
  BY <1>2 DEF SeriesOk
<1>5. FindingsRated(Scan.findings)
  BY <1>3, ListIsListed DEF IsScan, FindingsRated
<1> QED BY <1>1, <1>2, <1>3, <1>4, <1>5

LEMMA AssessmentStep ==
  ASSUME ReportInv, AssessServices
  PROVE  ReportInv'
<1>1. /\ writing = "exposures" /\ writing' = "drift"
      /\ UNCHANGED <<series, review, at, rows, groups, merged, advice>>
  BY DEF AssessServices
<1>2. Scan' = Scan /\ (series[at - 1])' = series[at - 1]
  BY <1>1 DEF Scan
<1>3. SeriesOk'
  BY <1>1 DEF ReportInv, SeriesOk, EarlySteps, LateSteps
<1>4. HistoryInv'
  <2>1. Recorded' = Recorded
    BY <1>1 DEF Recorded
  <2> QED BY <1>1, <2>1 DEF ReportInv, HistoryInv, HistoryExact
<1>5. AdviceInv'
  BY <1>1 DEF AdviceInv
<1>6. DOMAIN output = FileNames
  BY DEF ReportInv, FilesInv
<1>7. /\ DOMAIN output' = FileNames /\ output'["exposures"] = [i \in DOMAIN Scan.services |-> ExposureOf(Scan.services[i])]
      /\ \A n \in FileNames \ {"exposures"} : output'[n] = output[n]
  BY <1>6 DEF AssessServices, Write, FileNames
<1>8. FilesInv'
  BY <1>1, <1>2, <1>7 DEF ReportInv, FilesInv, SeriesOk, EarlySteps, FileNames
<1>9. GraphInv'
  BY <1>1, <1>2, <1>7 DEF ReportInv, GraphInv, LateSteps, FileNames
<1>10. TrendInv'
  BY <1>1, <1>2, <1>7 DEF ReportInv, TrendInv, TrendExact, LateSteps, FileNames
<1> QED BY <1>3, <1>4, <1>5, <1>8, <1>9, <1>10 DEF ReportInv

LEMMA DriftStep ==
  ASSUME ReportInv, DetectDrift
  PROVE  ReportInv'
<1>1. /\ writing = "drift" /\ writing' = "history"
      /\ UNCHANGED <<series, review, at, rows, groups, merged, advice>>
  BY DEF DetectDrift
<1>2. Scan' = Scan /\ (series[at - 1])' = series[at - 1]
  BY <1>1 DEF Scan
<1>3. SeriesOk'
  BY <1>1 DEF ReportInv, SeriesOk, EarlySteps, LateSteps
<1>4. HistoryInv'
  <2>1. Recorded' = Recorded
    BY <1>1 DEF Recorded
  <2> QED BY <1>1, <2>1 DEF ReportInv, HistoryInv, HistoryExact
<1>5. AdviceInv'
  BY <1>1 DEF AdviceInv
<1>6. DOMAIN output = FileNames
  BY DEF ReportInv, FilesInv
<1>7. /\ DOMAIN output' = FileNames
      /\ output'["drift"] = IF at = 1 THEN output["drift"]
                            ELSE Drift(series[at - 1].services, Scan.services)
      /\ \A n \in FileNames \ {"drift"} : output'[n] = output[n]
  BY <1>6 DEF DetectDrift, Write, FileNames
<1>8. FilesInv'
  BY <1>1, <1>2, <1>7 DEF ReportInv, FilesInv, SeriesOk, EarlySteps, FileNames
<1>9. GraphInv'
  BY <1>1, <1>2, <1>7 DEF ReportInv, GraphInv, LateSteps, FileNames
<1>10. TrendInv'
  BY <1>1, <1>2, <1>7 DEF ReportInv, TrendInv, TrendExact, LateSteps, FileNames
<1> QED BY <1>3, <1>4, <1>5, <1>8, <1>9, <1>10 DEF ReportInv

LEMMA JsonStep ==
  ASSUME ReportInv, WriteJson
  PROVE  ReportInv'
<1>1. /\ writing = "json" /\ writing' = "html"
      /\ UNCHANGED <<series, review, at, rows, groups, merged, advice>>
  BY DEF WriteJson
<1>2. Scan' = Scan /\ (series[at - 1])' = series[at - 1]
  BY <1>1 DEF Scan
<1>3. SeriesOk'
  BY <1>1 DEF ReportInv, SeriesOk, EarlySteps, LateSteps
<1>4. HistoryInv'
  <2>1. Recorded' = Recorded
    BY <1>1 DEF Recorded
  <2> QED BY <1>1, <2>1 DEF ReportInv, HistoryInv, HistoryExact
<1>5. AdviceInv'
  BY <1>1 DEF AdviceInv
<1>6. DOMAIN output = FileNames
  BY DEF ReportInv, FilesInv
<1>7. /\ DOMAIN output' = FileNames /\ output'["json"] = Redacted(Scan)
      /\ \A n \in FileNames \ {"json"} : output'[n] = output[n]
  BY <1>6 DEF WriteJson, Write, FileNames
<1>8. FilesInv'
  BY <1>1, <1>2, <1>7 DEF ReportInv, FilesInv, SeriesOk, EarlySteps, FileNames
<1>9. GraphInv'
  BY <1>1, <1>2, <1>7 DEF ReportInv, GraphInv, LateSteps, FileNames
<1>10. TrendInv'
  BY <1>1, <1>2, <1>7 DEF ReportInv, TrendInv, TrendExact, LateSteps, FileNames
<1> QED BY <1>3, <1>4, <1>5, <1>8, <1>9, <1>10 DEF ReportInv

LEMMA HtmlStep ==
  ASSUME ReportInv, WriteHtml
  PROVE  ReportInv'
<1>1. /\ writing = "html" /\ writing' = "groups"
      /\ UNCHANGED <<series, review, at, rows, groups, merged, advice>>
  BY DEF WriteHtml
<1>2. Scan' = Scan /\ (series[at - 1])' = series[at - 1]
  BY <1>1 DEF Scan
<1>3. SeriesOk'
  BY <1>1 DEF ReportInv, SeriesOk, EarlySteps, LateSteps
<1>4. HistoryInv'
  <2>1. Recorded' = Recorded
    BY <1>1 DEF Recorded
  <2> QED BY <1>1, <2>1 DEF ReportInv, HistoryInv, HistoryExact
<1>5. AdviceInv'
  BY <1>1 DEF AdviceInv
<1>6. DOMAIN output = FileNames
  BY DEF ReportInv, FilesInv
<1>7. /\ DOMAIN output' = FileNames /\ output'["html"] = Summary(Scan.findings)
      /\ \A n \in FileNames \ {"html"} : output'[n] = output[n]
  BY <1>6 DEF WriteHtml, Write, FileNames
<1>8. FilesInv'
  BY <1>1, <1>2, <1>7 DEF ReportInv, FilesInv, SeriesOk, EarlySteps, FileNames
<1>9. GraphInv'
  BY <1>1, <1>2, <1>7 DEF ReportInv, GraphInv, LateSteps, FileNames
<1>10. TrendInv'
  BY <1>1, <1>2, <1>7 DEF ReportInv, TrendInv, TrendExact, LateSteps, FileNames
<1> QED BY <1>3, <1>4, <1>5, <1>8, <1>9, <1>10 DEF ReportInv

LEMMA SarifStep ==
  ASSUME ReportInv, WriteSarif
  PROVE  ReportInv'
<1>1. /\ writing = "sarif" /\ writing' = "diff"
      /\ UNCHANGED <<series, review, at, rows, groups, merged, advice>>
  BY DEF WriteSarif
<1>2. Scan' = Scan /\ (series[at - 1])' = series[at - 1]
  BY <1>1 DEF Scan
<1>3. SeriesOk'
  BY <1>1 DEF ReportInv, SeriesOk, EarlySteps, LateSteps
<1>4. HistoryInv'
  <2>1. Recorded' = Recorded
    BY <1>1 DEF Recorded
  <2> QED BY <1>1, <2>1 DEF ReportInv, HistoryInv, HistoryExact
<1>5. AdviceInv'
  BY <1>1 DEF AdviceInv
<1>6. DOMAIN output = FileNames
  BY DEF ReportInv, FilesInv
<1>7. /\ DOMAIN output' = FileNames /\ output'["sarif"] = Sarif(Scan.findings)
      /\ \A n \in FileNames \ {"sarif"} : output'[n] = output[n]
  BY <1>6 DEF WriteSarif, Write, FileNames
<1>8. FilesInv'
  BY <1>1, <1>2, <1>7 DEF ReportInv, FilesInv, SeriesOk, EarlySteps, FileNames
<1>9. GraphInv'
  BY <1>1, <1>2, <1>7 DEF ReportInv, GraphInv, LateSteps, FileNames
<1>10. TrendInv'
  BY <1>1, <1>2, <1>7 DEF ReportInv, TrendInv, TrendExact, LateSteps, FileNames
<1> QED BY <1>3, <1>4, <1>5, <1>8, <1>9, <1>10 DEF ReportInv

LEMMA DiffStep ==
  ASSUME ReportInv, WriteDiff
  PROVE  ReportInv'
<1>1. /\ writing = "diff" /\ writing' = "done"
      /\ UNCHANGED <<series, review, at, rows, groups, merged, advice>>
  BY DEF WriteDiff
<1>2. Scan' = Scan /\ (series[at - 1])' = series[at - 1]
  BY <1>1 DEF Scan
<1>3. SeriesOk'
  BY <1>1 DEF ReportInv, SeriesOk, EarlySteps, LateSteps
<1>4. HistoryInv'
  <2>1. Recorded' = Recorded
    BY <1>1 DEF Recorded
  <2> QED BY <1>1, <2>1 DEF ReportInv, HistoryInv, HistoryExact
<1>5. AdviceInv'
  BY <1>1 DEF AdviceInv
<1>6. DOMAIN output = FileNames
  BY DEF ReportInv, FilesInv
<1>7. /\ DOMAIN output' = FileNames
      /\ output'["diff"] = IF at = 1 THEN output["diff"]
                            ELSE CompareReports(series[at - 1].findings, Scan.findings, review.suppressions, review.now)
      /\ \A n \in FileNames \ {"diff"} : output'[n] = output[n]
  BY <1>6 DEF WriteDiff, Write, FileNames
<1>8. FilesInv'
  BY <1>1, <1>2, <1>7 DEF ReportInv, FilesInv, SeriesOk, EarlySteps, FileNames
<1>9. GraphInv'
  BY <1>1, <1>2, <1>7 DEF ReportInv, GraphInv, LateSteps, FileNames
<1>10. TrendInv'
  BY <1>1, <1>2, <1>7 DEF ReportInv, TrendInv, TrendExact, LateSteps, FileNames
<1> QED BY <1>3, <1>4, <1>5, <1>8, <1>9, <1>10 DEF ReportInv

LEMMA HistoryStep ==
  ASSUME ReportInv, UpdateHistory
  PROVE  ReportInv'
<1>1. /\ writing = "history" /\ writing' = "json" /\ rows' = RecordHistory(Scan)
      /\ UNCHANGED <<series, review, at, groups, merged, advice, output>>
  BY DEF UpdateHistory
<1>2. Scan' = Scan /\ (series[at - 1])' = series[at - 1]
  BY <1>1 DEF Scan
<1>3. SeriesOk'
  BY <1>1 DEF ReportInv, SeriesOk, EarlySteps, LateSteps
<1>4. HistoryInv'
  <2> DEFINE new == [target |-> Scan.target, started |-> Scan.started, findings |-> Len(Scan.findings)]
             old == {r \in rows : <<r.target, r.started>> # <<Scan.target, Scan.started>>}
  <2>1. rows' = old \cup {new} /\ old \subseteq rows
    BY <1>1 DEF RecordHistory
  <2>2. Recorded = at - 1 /\ Recorded' = at /\ at \in Nat /\ at >= 1 /\ Scan = series[at]
    BY <1>1 DEF Recorded, ReportInv, SeriesOk, Scan
  <2>3. IsFiniteSet(rows) /\ HistoryExact(at - 1)
    BY <2>2 DEF ReportInv, HistoryInv
  <2>4. new.target = Scan.target /\ new.started = Scan.started /\ new.findings = Len(Scan.findings)
    OBVIOUS
  <2>5. \A r \in old : r.target # Scan.target \/ r.started # Scan.started
    OBVIOUS
  <2>6. \A r \in rows : r.target # Scan.target \/ r.started # Scan.started => r \in old
    OBVIOUS
  <2> HIDE DEF new, old
  <2>7. IsFiniteSet(rows')
    BY <2>1, <2>3, FS_Subset, FS_AddElement
  <2>8. \A r, q \in rows' : r.target = q.target /\ r.started = q.started => r = q
    BY <2>1, <2>3, <2>4, <2>5 DEF HistoryExact
  <2>9. \A r \in rows' : \E i \in 1 .. at :
          r.target = series[i].target /\ r.started = series[i].started /\ r.findings = Len(series[i].findings)
    <3> SUFFICES ASSUME NEW r \in rows'
                 PROVE  \E i \in 1 .. at : /\ r.target = series[i].target /\ r.started = series[i].started
                                           /\ r.findings = Len(series[i].findings)
      OBVIOUS
    <3>1. CASE r = new
      BY <2>2, <2>4, <3>1
    <3>2. CASE r \in rows
      <4>1. PICK i \in 1 .. at - 1 : /\ r.target = series[i].target /\ r.started = series[i].started
                                     /\ r.findings = Len(series[i].findings)
        BY <2>3, <3>2 DEF HistoryExact
      <4> QED BY <2>2, <4>1
    <3> QED BY <2>1, <3>1, <3>2
  <2>10. ASSUME NEW i \in 1 .. at
         PROVE  \E r \in rows' :
                  /\ r.target = series[i].target /\ r.started = series[i].started
                  /\ (\A j \in i + 1 .. at : series[j].target # r.target \/ series[j].started # r.started)
                     => r.findings = Len(series[i].findings)
    <3>1. CASE i = at
      BY <2>1, <2>2, <2>4, <3>1
    <3>2. CASE i # at
      <4>1. i \in 1 .. at - 1
        BY <2>2, <3>2
      <4>2. PICK r \in rows :
              /\ r.target = series[i].target /\ r.started = series[i].started
              /\ (\A j \in i + 1 .. at - 1 : series[j].target # r.target \/ series[j].started # r.started)
                 => r.findings = Len(series[i].findings)
        BY <2>3, <4>1 DEF HistoryExact
      <4>3. CASE r \in old
        <5>1. \A j \in i + 1 .. at - 1 : j \in i + 1 .. at
          BY <2>2
        <5> QED BY <2>1, <4>2, <4>3, <5>1
      <4>4. CASE r \notin old
        <5>1. r.target = Scan.target /\ r.started = Scan.started
          BY <2>6, <4>4
        <5>2. new.target = series[i].target /\ new.started = series[i].started
          BY <2>4, <4>2, <5>1
        <5>3. at \in i + 1 .. at /\ series[at].target = new.target /\ series[at].started = new.started
          BY <2>2, <2>4, <4>1
        <5> QED BY <2>1, <5>2, <5>3
      <4> QED BY <4>3, <4>4
    <3> QED BY <3>1, <3>2
  <2>11. HistoryExact(at)'
    BY <1>1, <2>8, <2>9, <2>10 DEF HistoryExact
  <2> QED BY <2>2, <2>7, <2>11, <1>1 DEF HistoryInv
<1>5. AdviceInv'
  BY <1>1 DEF AdviceInv
<1>6. FilesInv'
  BY <1>1, <1>2 DEF ReportInv, FilesInv, SeriesOk, EarlySteps
<1>7. GraphInv'
  BY <1>1, <1>2 DEF ReportInv, GraphInv, LateSteps
<1>8. TrendInv'
  BY <1>1, <1>2 DEF ReportInv, TrendInv, LateSteps
<1> QED BY <1>3, <1>4, <1>5, <1>6, <1>7, <1>8 DEF ReportInv

LEMMA GroupStep ==
  ASSUME ReportInv, GroupFindings
  PROVE  ReportInv'
<1>1. /\ writing = "groups" /\ writing' = "actions" /\ merged' = 0 /\ advice' = <<>>
      /\ groups' \in ByRisk(AllGroups(Scan.findings))
      /\ UNCHANGED <<series, review, at, rows, output>>
  BY DEF GroupFindings, AllGroups
<1>2. Scan' = Scan /\ (series[at - 1])' = series[at - 1]
  BY <1>1 DEF Scan
<1>3. SeriesOk'
  BY <1>1 DEF ReportInv, SeriesOk, EarlySteps, LateSteps
<1>4. HistoryInv'
  <2>1. Recorded' = Recorded
    BY <1>1 DEF Recorded
  <2> QED BY <1>1, <2>1 DEF ReportInv, HistoryInv, HistoryExact
<1>5. AdviceInv'
  <2>1. groups' \in ByRisk(AllGroups(Scan.findings))'
    BY <1>1, <1>2
  <2>2. Len(groups') \in Nat
    <3>2. FindingsRated(Scan.findings)
      BY ScanFacts DEF ReportInv
    <3>3. InOrder(Scan.findings, groups')
      BY <1>1, <3>2, GroupOrder
    <3> QED BY <3>3 DEF InOrder, Listed
  <2>3. DOMAIN (advice') = {}
    BY <1>1
  <2>4. Advised(0)'
    BY <2>3, FS_EmptySet DEF Advised
  <2> QED BY <1>1, <2>1, <2>2, <2>4 DEF AdviceInv
<1>6. FilesInv'
  BY <1>1, <1>2 DEF ReportInv, FilesInv, SeriesOk, EarlySteps
<1>7. GraphInv'
  BY <1>1, <1>2 DEF ReportInv, GraphInv, LateSteps
<1>8. TrendInv'
  BY <1>1, <1>2 DEF ReportInv, TrendInv, LateSteps
<1> QED BY <1>3, <1>4, <1>5, <1>6, <1>7, <1>8 DEF ReportInv

LEMMA AdviceStep ==
  ASSUME ReportInv, AdviseGroup
  PROVE  ReportInv'
<1>1. /\ writing = "actions" /\ merged < Len(groups) /\ merged' = merged + 1
      /\ UNCHANGED <<series, review, at, writing, rows, groups, output>>
  BY DEF AdviseGroup
<1>2. Scan' = Scan /\ (series[at - 1])' = series[at - 1]
  BY <1>1 DEF Scan
<1>3. SeriesOk'
  BY <1>1 DEF ReportInv, SeriesOk, EarlySteps, LateSteps
<1>4. HistoryInv'
  <2>1. Recorded' = Recorded
    BY <1>1 DEF Recorded
  <2> QED BY <1>1, <2>1 DEF ReportInv, HistoryInv, HistoryExact
<1>5. AdviceInv'
  <2> DEFINE g == groups[merged + 1]
             a == AdviceOf(g)
             new == IF a \in DOMAIN advice
                    THEN [risk |-> advice[a].risk + g.risk, findings |-> advice[a].findings + 1]
                    ELSE [risk |-> g.risk, findings |-> 1]
  <2>1. InOrder(Scan.findings, groups)
    BY <1>1, ScanFacts, GroupOrder DEF ReportInv, AdviceInv
  <2>2. /\ Len(groups) \in Nat /\ DOMAIN groups = 1 .. Len(groups)
        /\ \A p \in DOMAIN groups : groups[p].risk \in 0 .. 1000
    BY <2>1 DEF InOrder, Listed
  <2>3. groups \in ByRisk(AllGroups(Scan.findings)) /\ merged \in 0 .. Len(groups) /\ Advised(merged)
    BY <1>1 DEF ReportInv, AdviceInv
  <2>4. merged' \in 0 .. Len(groups) /\ merged + 1 \in DOMAIN groups
    BY <1>1, <2>2, <2>3
  <2>5. advice' = [x \in DOMAIN advice \cup {a} |-> IF x # a THEN advice[x] ELSE new]
    BY DEF AdviseGroup
  <2>6. g.risk \in Nat
    <3> DEFINE y == g.risk
    <3>1. y \in 0 .. 1000
      BY <2>2, <2>4
    <3> HIDE DEF y
    <3>2. y \in Nat
      BY <3>1
    <3> QED BY <3>2 DEF y
  <2>7. new.risk \in Nat /\ g.risk <= new.risk /\ (a \in DOMAIN advice => advice[a].risk <= new.risk)
    <3>1. CASE a \in DOMAIN advice
      <4> DEFINE x == advice[a].risk
                 y == g.risk
      <4>1. x \in Nat /\ y \in Nat
        BY <2>3, <2>6, <3>1 DEF Advised
      <4>2. new = [risk |-> x + y, findings |-> advice[a].findings + 1]
        BY <3>1
      <4> HIDE DEF x, y, new
      <4>3. new.risk = x + y
        BY <4>2
      <4>4. new.risk \in Nat /\ x <= new.risk /\ y <= new.risk
        BY <4>1, <4>3
      <4> QED BY <4>4 DEF x, y
    <3>2. CASE a \notin DOMAIN advice
      <4> DEFINE y == g.risk
      <4>1. new = [risk |-> y, findings |-> 1]
        BY <3>2
      <4> HIDE DEF y, new
      <4>2. new.risk = y
        BY <4>1
      <4>3. new.risk \in Nat /\ y <= new.risk
        BY <2>6, <4>2 DEF y
      <4> QED BY <3>2, <4>3 DEF y
    <3> QED BY <3>1, <3>2
  <2> HIDE DEF new, a, g
  <2>8. /\ DOMAIN advice' = DOMAIN advice \cup {a} /\ advice'[a] = new
        /\ \A x \in DOMAIN advice \ {a} : advice'[x] = advice[x]
    BY <2>5
  <2>9. IsFiniteSet(DOMAIN advice')
    BY <2>3, <2>8, FS_AddElement DEF Advised
  <2>10. \A x \in DOMAIN advice' : advice'[x].risk \in Nat
    BY <2>3, <2>7, <2>8 DEF Advised
  <2>11. ASSUME NEW p \in 1 .. merged + 1
         PROVE  AdviceOf(groups[p]) \in DOMAIN advice' /\ groups[p].risk <= advice'[AdviceOf(groups[p])].risk
    <3>1. CASE p = merged + 1
      BY <2>7, <2>8, <3>1 DEF g, a
    <3>2. CASE p # merged + 1
      <4> DEFINE b == AdviceOf(groups[p])
                 low == groups[p].risk
      <4>1. p \in 1 .. merged
        BY <2>2, <2>3, <3>2
      <4>2. b \in DOMAIN advice /\ low <= advice[b].risk /\ advice[b].risk \in Nat
        BY <2>3, <4>1 DEF Advised
      <4>3. low \in Nat
        <5>1. p \in DOMAIN groups
          BY <2>2, <2>3, <4>1
        <5>2. low \in 0 .. 1000
          BY <2>2, <5>1
        <5> HIDE DEF low
        <5> QED BY <5>2
      <4> HIDE DEF b, low
      <4>4. b \in DOMAIN advice' /\ low <= advice'[b].risk
        <5>1. CASE b = a
          <6> DEFINE x == advice[a].risk
                     y == new.risk
          <6>1. x \in Nat /\ y \in Nat /\ x <= y /\ low <= x
            BY <2>7, <4>2, <5>1
          <6> HIDE DEF x, y
          <6>2. low <= y
            BY <4>3, <6>1
          <6> QED BY <2>8, <5>1, <6>2 DEF y
        <5>2. CASE b # a
          BY <2>8, <4>2, <5>2
        <5> QED BY <5>1, <5>2
      <4> QED BY <4>4 DEF b, low
    <3> QED BY <3>1, <3>2
  <2>12. Advised(merged)'
    BY <1>1, <2>9, <2>10, <2>11 DEF Advised
  <2>13. (groups \in ByRisk(AllGroups(Scan.findings)))'
    BY <1>1, <1>2, <2>3
  <2> QED BY <1>1, <2>4, <2>12, <2>13 DEF AdviceInv
<1>6. FilesInv'
  BY <1>1, <1>2 DEF ReportInv, FilesInv, SeriesOk, EarlySteps
<1>7. GraphInv'
  BY <1>1, <1>2 DEF ReportInv, GraphInv, LateSteps
<1>8. TrendInv'
  BY <1>1, <1>2 DEF ReportInv, TrendInv, LateSteps
<1> QED BY <1>3, <1>4, <1>5, <1>6, <1>7, <1>8 DEF ReportInv

LEMMA GraphStep ==
  ASSUME ReportInv, WriteGraph
  PROVE  ReportInv'
<1>1. /\ writing = "actions" /\ merged = Len(groups) /\ writing' = "trend"
      /\ UNCHANGED <<series, review, at, rows, groups, merged, advice>>
  BY DEF WriteGraph
<1>2. Scan' = Scan /\ (series[at - 1])' = series[at - 1]
  BY <1>1 DEF Scan
<1>3. SeriesOk'
  BY <1>1 DEF ReportInv, SeriesOk, EarlySteps, LateSteps
<1>4. HistoryInv'
  <2>1. Recorded' = Recorded
    BY <1>1 DEF Recorded
  <2> QED BY <1>1, <2>1 DEF ReportInv, HistoryInv, HistoryExact
<1>5. AdviceInv'
  BY <1>1 DEF AdviceInv
<1>6. DOMAIN output = FileNames
  BY DEF ReportInv, FilesInv
<1>7. PICK order \in ByRisk(AllActions(Scan.services)) :
        Write("graph", [nodes |-> Nodes(Scan), edges |-> Edges(Scan), groups |-> groups,
                        hints |-> Hints(Scan), actions |-> FirstFew(order, MaxActions)])
  BY DEF WriteGraph
<1> DEFINE graph == [nodes |-> Nodes(Scan), edges |-> Edges(Scan), groups |-> groups,
                     hints |-> Hints(Scan), actions |-> FirstFew(order, MaxActions)]
<1>8. /\ DOMAIN output' = FileNames /\ output'["graph"] = graph
      /\ \A n \in FileNames \ {"graph"} : output'[n] = output[n]
  BY <1>6, <1>7 DEF Write, FileNames
<1>9. /\ graph.nodes = Nodes(Scan) /\ graph.edges = Edges(Scan) /\ graph.groups = groups
      /\ graph.hints = Hints(Scan) /\ graph.actions = FirstFew(order, MaxActions)
  OBVIOUS
<1>10. IsScan(Scan) /\ groups \in ByRisk(AllGroups(Scan.findings)) /\ Advised(Len(groups))
  BY <1>1, ScanFacts DEF ReportInv, AdviceInv
<1> HIDE DEF graph
<1>11. GroupsExact(Scan, graph)
  BY <1>9, <1>10, GraphExact
<1>12. ActionsExact(graph, output["exposures"])
  <2>1. output["exposures"] = [i \in DOMAIN Scan.services |-> ExposureOf(Scan.services[i])]
    BY <1>1 DEF ReportInv, FilesInv
  <2> QED BY <1>9, <1>10, <2>1, UrgentActions
<1>13. FilesInv'
  BY <1>1, <1>2, <1>8 DEF ReportInv, FilesInv, SeriesOk, EarlySteps, FileNames
<1>14. GraphInv'
  BY <1>1, <1>2, <1>8, <1>11, <1>12 DEF GraphInv, LateSteps, FileNames
<1>15. TrendInv'
  BY <1>1, <1>2, <1>8 DEF ReportInv, TrendInv, LateSteps, FileNames
<1> QED BY <1>3, <1>4, <1>5, <1>13, <1>14, <1>15 DEF ReportInv

\* The first rows of a target, oldest first.
LEMMA TrendFollows ==
  ASSUME NEW scan, NEW count, IsFiniteSet(rows), HistoryExact(count),
         NEW order \in ByAge({r \in rows : r.target = scan.target})
  PROVE  TrendExact(scan, count, FirstFew(order, MaxPoints))
<1> DEFINE S == {r \in rows : r.target = scan.target}
           points == FirstFew(order, MaxPoints)
<1>1. IsFiniteSet(S)
  BY FS_Subset
<1>2. /\ order \in [1 .. Cardinality(S) -> S] /\ AllOf(order, S)
      /\ \A i, j \in DOMAIN order : i < j => order[i].started < order[j].started
  BY DEF ByAge
<1>3. \A r \in rows : r.target = scan.target => r \in S
  OBVIOUS
<1>4. S \subseteq rows /\ \A r \in S : r.target = scan.target
  OBVIOUS
<1> HIDE DEF S
<1>5. order \in Seq(S) /\ DOMAIN order = 1 .. Len(order) /\ Len(order) \in Nat
  BY <1>1, <1>2, OrderFacts
<1>6. MaxPoints \in Nat
  BY ReportAssumption
<1>7. /\ Len(points) = IF Len(order) < MaxPoints THEN Len(order) ELSE MaxPoints
      /\ DOMAIN points = 1 .. Len(points) /\ DOMAIN points \subseteq DOMAIN order
      /\ \A i \in DOMAIN points : points[i] = order[i]
  BY <1>5, <1>6, FirstFewFacts
<1> HIDE DEF points
<1>8. \A i, j \in DOMAIN points : i < j => points[i].started < points[j].started
  BY <1>2, <1>7
<1>9. \A i \in DOMAIN points : points[i] \in rows /\ points[i].target = scan.target
  BY <1>2, <1>4, <1>7
<1>10. ASSUME NEW k \in 1 .. count, series[k].target = scan.target
       PROVE  \/ \E i \in DOMAIN points : points[i].started = series[k].started
              \/ Len(points) = MaxPoints
  <2>1. PICK r \in rows : r.target = series[k].target /\ r.started = series[k].started
    BY DEF HistoryExact
  <2>2. r \in S
    BY <1>3, <1>10, <2>1
  <2>3. PICK i \in DOMAIN order : order[i] = r
    BY <1>2, <2>2 DEF AllOf
  <2>4. CASE i \in DOMAIN points
    BY <1>7, <2>1, <2>3, <2>4
  <2>5. CASE i \notin DOMAIN points
    <3>1. i \in 1 .. Len(order) /\ i \notin 1 .. Len(points) /\ Len(order) \in Nat
      BY <1>5, <1>7, <2>3, <2>5
    <3> QED BY <1>6, <1>7, <3>1
  <2> QED BY <2>4, <2>5
<1>11. Len(points) <= MaxPoints
  BY <1>5, <1>6, <1>7
<1>12. TrendExact(scan, count, points)
  BY <1>8, <1>9, <1>10, <1>11 DEF TrendExact
<1> QED BY <1>12 DEF points

LEMMA TrendStep ==
  ASSUME ReportInv, WriteTrend
  PROVE  ReportInv'
<1>1. /\ writing = "trend" /\ writing' = "sarif"
      /\ UNCHANGED <<series, review, at, rows, groups, merged, advice>>
  BY DEF WriteTrend
<1>2. Scan' = Scan /\ (series[at - 1])' = series[at - 1]
  BY <1>1 DEF Scan
<1>3. SeriesOk'
  BY <1>1 DEF ReportInv, SeriesOk, EarlySteps, LateSteps
<1>4. HistoryInv'
  <2>1. Recorded' = Recorded
    BY <1>1 DEF Recorded
  <2> QED BY <1>1, <2>1 DEF ReportInv, HistoryInv, HistoryExact
<1>5. AdviceInv'
  BY <1>1 DEF AdviceInv
<1>6. DOMAIN output = FileNames
  BY DEF ReportInv, FilesInv
<1>7. PICK order \in ByAge({r \in rows : r.target = Scan.target}) :
        Write("trend", FirstFew(order, MaxPoints))
  BY DEF WriteTrend
<1>8. /\ DOMAIN output' = FileNames /\ output'["trend"] = FirstFew(order, MaxPoints)
      /\ \A n \in FileNames \ {"trend"} : output'[n] = output[n]
  BY <1>6, <1>7 DEF Write, FileNames
<1>9. TrendExact(Scan, at, FirstFew(order, MaxPoints))
  <2>1. IsFiniteSet(rows) /\ HistoryExact(at)
    BY <1>1 DEF ReportInv, HistoryInv, Recorded
  <2> QED BY <2>1, TrendFollows
<1>10. FilesInv'
  BY <1>1, <1>2, <1>8 DEF ReportInv, FilesInv, SeriesOk, EarlySteps, FileNames
<1>11. GraphInv'
  BY <1>1, <1>2, <1>8 DEF ReportInv, GraphInv, LateSteps, FileNames
<1>12. TrendInv'
  <2>1. TrendExact(Scan, at, FirstFew(order, MaxPoints))'
    BY <1>1, <1>2, <1>9 DEF TrendExact
  <2>2. (TrendExact(Scan, at, output["trend"]))'
    BY <1>1, <1>2, <1>8, <1>9 DEF TrendExact
  <2> QED BY <1>1, <2>2 DEF TrendInv, LateSteps
<1> QED BY <1>3, <1>4, <1>5, <1>10, <1>11, <1>12 DEF ReportInv

LEMMA NextScanStep ==
  ASSUME ReportInv, NextScan
  PROVE  ReportInv'
<1>1. /\ writing = "done" /\ at < Len(series) /\ at' = at + 1 /\ writing' = "exposures"
      /\ output' = [name \in FileNames |-> Unwritten]
      /\ UNCHANGED <<series, review, rows>>
  BY DEF NextScan
<1>2. at \in Nat /\ Len(series) \in Nat
  BY ScanFacts DEF ReportInv, SeriesOk
<1>3. SeriesOk'
  BY <1>1, <1>2 DEF ReportInv, SeriesOk, EarlySteps, LateSteps
<1>4. HistoryInv'
  <2>1. Recorded' = Recorded
    BY <1>1, <1>2 DEF Recorded
  <2> QED BY <1>1, <2>1 DEF ReportInv, HistoryInv, HistoryExact
<1>5. AdviceInv'
  BY <1>1 DEF AdviceInv
<1>6. FilesInv'
  BY <1>1 DEF FilesInv, EarlySteps, FileNames
<1>7. GraphInv' /\ TrendInv'
  BY <1>1 DEF GraphInv, TrendInv, FileNames
<1> QED BY <1>3, <1>4, <1>5, <1>6, <1>7 DEF ReportInv

LEMMA FirstReports == ReportInit => ReportInv
<1> SUFFICES ASSUME ReportInit
             PROVE  ReportInv
  OBVIOUS
<1>1. /\ series \in ScanLists /\ at = 1 /\ writing = "exposures" /\ rows = {}
      /\ output = [name \in FileNames |-> Unwritten]
  BY DEF ReportInit, ReportStart
<1>2. SeriesOk
  <2>1. IsList(series) /\ series # <<>>
    BY <1>1, ReportAssumption
  <2>2. Len(series) \in Nat /\ Len(series) >= 1
    BY <2>1 DEF IsList
  <2> QED BY <1>1, <2>2 DEF SeriesOk, EarlySteps
<1>3. HistoryInv
  <2>1. Recorded = 0
    BY <1>1 DEF Recorded
  <2>2. HistoryExact(0)
    BY <1>1 DEF HistoryExact
  <2> QED BY <1>1, <2>1, <2>2, FS_EmptySet DEF HistoryInv
<1>4. AdviceInv
  BY <1>1 DEF AdviceInv
<1>5. FilesInv
  BY <1>1 DEF FilesInv, EarlySteps, FileNames
<1>6. GraphInv /\ TrendInv
  BY <1>1 DEF GraphInv, TrendInv, FileNames
<1> QED BY <1>2, <1>3, <1>4, <1>5, <1>6 DEF ReportInv

LEMMA StepReports == ReportInv /\ [ReportNext]_reportVars => ReportInv'
<1> SUFFICES ASSUME ReportInv, [ReportNext]_reportVars
             PROVE  ReportInv'
  OBVIOUS
<1>1. CASE ReportNext
  BY <1>1, AssessmentStep, DriftStep, HistoryStep, JsonStep, HtmlStep, GroupStep, AdviceStep,
     GraphStep, TrendStep, SarifStep, DiffStep, NextScanStep DEF ReportNext
<1>2. CASE UNCHANGED reportVars
  <2>1. UNCHANGED <<series, review, at, writing, rows, groups, merged, advice, output>>
    BY <1>2 DEF reportVars
  <2>2. Scan' = Scan /\ (series[at - 1])' = series[at - 1] /\ Recorded' = Recorded
    BY <2>1 DEF Scan, Recorded
  <2>3. SeriesOk'
    BY <2>1 DEF ReportInv, SeriesOk
  <2>4. HistoryInv'
    BY <2>1, <2>2 DEF ReportInv, HistoryInv, HistoryExact
  <2>5. AdviceInv'
    BY <2>1, <2>2 DEF ReportInv, AdviceInv, Advised
  <2>6. FilesInv'
    BY <2>1, <2>2 DEF ReportInv, FilesInv
  <2>7. GraphInv'
    BY <2>1, <2>2 DEF ReportInv, GraphInv
  <2>8. TrendInv'
    BY <2>1, <2>2 DEF ReportInv, TrendInv, TrendExact
  <2> QED BY <2>3, <2>4, <2>5, <2>6, <2>7, <2>8 DEF ReportInv
<1> QED BY <1>1, <1>2

LEMMA ReportsFollow == ReportInv => ReportsExact
<1> SUFFICES ASSUME ReportInv
             PROVE  ReportsExact
  OBVIOUS
<1> DEFINE before == series[at - 1]
<1>1. IsScan(Scan) /\ (at > 1 => IsScan(before))
  BY ScanFacts DEF ReportInv
<1>2. HistoryExact(Recorded)
  BY DEF ReportInv, HistoryInv
<1>3. output["exposures"] # Unwritten => \A i \in DOMAIN Scan.services :
        output["exposures"][i] # "none" => HasSignal(Scan.services[i], "publicly_routable")
  <2>1. output["exposures"] = IF writing # "exposures"
                              THEN [i \in DOMAIN Scan.services |-> ExposureOf(Scan.services[i])]
                              ELSE Unwritten
    BY DEF ReportInv, FilesInv
  <2>2. \A s : ExposureOf(s) # "none" => HasSignal(s, "publicly_routable")
    BY DEF ExposureOf
  <2> QED BY <2>1, <2>2
<1>4. output["drift"] # Unwritten => DriftExact(before.services, Scan.services, output["drift"])
  <2>1. output["drift"] # Unwritten => output["drift"] = Drift(before.services, Scan.services)
    BY DEF ReportInv, FilesInv
  <2> QED BY <2>1, DriftingExact
<1>5. output["json"] # Unwritten => JsonExact(Scan, output["json"])
  <2>1. output["json"] # Unwritten => output["json"] = Redacted(Scan)
    BY DEF ReportInv, FilesInv
  <2> QED BY <1>1, <2>1, RedactionExact
<1>6. output["graph"] # Unwritten => /\ GroupsExact(Scan, output["graph"])
                                     /\ ActionsExact(output["graph"], output["exposures"])
  BY DEF ReportInv, GraphInv
<1>7. output["trend"] # Unwritten => TrendExact(Scan, at, output["trend"])
  BY DEF ReportInv, TrendInv
<1>8. output["sarif"] # Unwritten => SarifExact(Scan, output["html"], output["sarif"])
  <2>1. output["sarif"] # Unwritten => /\ output["sarif"] = Sarif(Scan.findings)
                                       /\ output["html"] = Summary(Scan.findings)
    BY DEF ReportInv, FilesInv, EarlySteps
  <2> QED BY <1>1, <2>1, FormatsExact
<1>9. output["diff"] # Unwritten =>
        CompareExact(before.findings, Scan.findings, review.suppressions, review.now, output["diff"])
  <2>1. output["diff"] # Unwritten =>
          /\ at > 1
          /\ output["diff"] = CompareReports(before.findings, Scan.findings, review.suppressions, review.now)
    BY DEF ReportInv, FilesInv
  <2>2. at > 1 => Listed(before.findings) /\ Listed(Scan.findings)
    BY <1>1, ListIsListed DEF IsScan
  <2> QED BY <2>1, <2>2, ComparisonExact
<1> QED BY <1>2, <1>3, <1>4, <1>5, <1>6, <1>7, <1>8, <1>9 DEF ReportsExact

\* Whatever the scans and the suppressions are, every report file tells what the scan
\* found and the files agree: of write_report_set and what it calls.
THEOREM ReportsAlwaysExact == ReportSpec => []ReportsExact
<1>1. ReportInit => ReportInv
  BY FirstReports
<1>2. ReportInv /\ [ReportNext]_reportVars => ReportInv'
  BY StepReports
<1>3. ReportInv => ReportsExact
  BY ReportsFollow
<1> QED BY <1>1, <1>2, <1>3, PTL DEF ReportSpec

=============================================================================
