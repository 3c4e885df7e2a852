------------------------------ MODULE CveCache ------------------------------
(***************************************************************************)
(* The CVE cache (cve_client): `cve update` refreshes it from the catalogue *)
(* of known exploited CVEs (KEV) and from NVD while a scan reads it and     *)
(* fills it on a miss.  The two are processes of their own that share one   *)
(* SQLite file; every statement is atomic, nothing else is.                 *)
(*                                                                         *)
(* Severities are 0 (Info) to 4 (Critical).                                 *)
(***************************************************************************)
EXTENDS Naturals, Sequences

CONSTANTS
  Nvd,          \* CPE -> the CVEs that NVD lists for it
  Rating,       \* CVE -> its severity in NVD
  Catalogue,    \* the CVEs of the KEV catalogue
  NoEntry,
  Techs,        \* the technologies of the scans: [cpe]
  NoCpe,        \* a technology without a version or an alias
  MaxUpdates,   \* bound on the number of updates
  PageAttempts  \* attempts per page of NVD: 3

Cpes == DOMAIN Nvd
Cves == Catalogue \cup UNION {Nvd[c] : c \in Cpes}

\* A row of the table; a CVE that no NVD list has no rating.
Rows ==
  [cpes : SUBSET Cpes, severity : 0 .. 4, kev : BOOLEAN, source : SUBSET {"nvd", "cisa_kev"}]

ASSUME CacheAssumption ==
  /\ \A cpe \in Cpes : \A cve \in Nvd[cpe] : Rating[cve] \in 0 .. 4
  /\ NoEntry \notin Rows /\ NoCpe \notin Cpes
  /\ Techs \subseteq Seq(Cpes \cup {NoCpe})
  /\ MaxUpdates \in Nat /\ PageAttempts \in Nat

VARIABLES
  db,        \* CVE -> NoEntry or [cpes, severity, kev, source]
  updater,   \* [pc, cpes, todo]: the running update; todo is what is left of a
             \* list, in any order
  updates,   \* updates started
  scanner,   \* [pc, techs, todo, tries]: the running scan
  reported   \* findings of the scan: [cve, cpe, kev, severity]

cveVars == <<db, updater, updates, scanner, reported>>

-----------------------------------------------------------------------------
(* The statements of db.rs.                                                 *)

FromNvd(cve, cpe) == [cpes |-> {cpe}, severity |-> Rating[cve], kev |-> FALSE, source |-> {"nvd"}]

\* Faulty variant: the upsert takes the exploitability of the new record.
UpsertForgetting(cve, new) == [db EXCEPT ![cve] = new]

\* cache_cve_entries: a known exploited CVE stays one, everything else is
\* overwritten, the CPEs it matches included.
Upsert(cve, new) ==
  [db EXCEPT ![cve] =
     IF @ # NoEntry /\ db[cve].kev THEN [new EXCEPT !.kev = TRUE, !.source = @ \cup {"cisa_kev"}]
     ELSE new]

\* cache_kev_entries: INSERT OR IGNORE.
Seed(cve) ==
  [db EXCEPT ![cve] = IF @ # NoEntry THEN @
                      ELSE [cpes |-> {}, severity |-> 3, kev |-> TRUE, source |-> {"cisa_kev"}]]

\* mark_known_exploited: one level up, every time.
Mark(cve) ==
  LET row == db[cve]
  IN  IF row = NoEntry THEN db
      ELSE [db EXCEPT ![cve] =
              [cpes |-> row.cpes, kev |-> TRUE,
               severity |-> IF row.severity < 4 THEN row.severity + 1 ELSE row.severity,
               source |-> IF row.source = {"nvd"} THEN {"nvd", "cisa_kev"} ELSE row.source]]

\* query_cves_by_cpe.
Cached(cpe) == {c \in Cves : db[c] # NoEntry /\ cpe \in db[c].cpes}

-----------------------------------------------------------------------------
(* update_cve_cache_for_cpes.                                               *)

CacheInit ==
  /\ db = [c \in Cves |-> NoEntry]
  /\ updater = [pc |-> "idle", cpes |-> <<>>, todo |-> {}] /\ updates = 0
  /\ \E techs \in Techs : scanner = [pc |-> "query", techs |-> techs, todo |-> {}, tries |-> 0]
  /\ reported = {}

scanning == <<scanner, reported>>

StartUpdate(cpes) ==
  /\ updater.pc \in {"idle", "done", "failed"} /\ updates < MaxUpdates
  /\ updates' = updates + 1
  /\ updater' = [pc |-> "kev", cpes |-> cpes, todo |-> {}]
  /\ UNCHANGED <<db, scanning>>

\* fetch_cisa_kev, then fetch_cves_from_nvd for each CPE; a failure ends the update.
FetchFails ==
  /\ updater.pc \in {"kev", "nvd"}
  /\ updater' = [updater EXCEPT !.pc = "failed"]
  /\ UNCHANGED <<db, updates, scanning>>

FetchKev ==
  /\ updater.pc = "kev"
  /\ updater' = [updater EXCEPT !.pc = "seed", !.todo = Catalogue]
  /\ UNCHANGED <<db, updates, scanning>>

SeedOne ==
  /\ updater.pc = "seed"
  /\ \/ /\ updater.todo = {}
        /\ updater' = [updater EXCEPT !.pc = "nvd"]
        /\ UNCHANGED db
     \/ \E cve \in updater.todo :
          /\ db' = Seed(cve)
          /\ updater' = [updater EXCEPT !.todo = @ \ {cve}]
  /\ UNCHANGED <<updates, scanning>>

FetchNvd ==
  /\ updater.pc = "nvd" /\ updater.cpes # <<>>
  /\ updater' = [updater EXCEPT !.pc = "store", !.todo = Nvd[Head(updater.cpes)]]
  /\ UNCHANGED <<db, updates, scanning>>

StoreOne ==
  /\ updater.pc = "store"
  /\ \/ /\ updater.todo = {}
        /\ updater' = [updater EXCEPT !.pc = "nvd", !.cpes = Tail(@)]
        /\ UNCHANGED db
     \/ \E cve \in updater.todo :
          /\ db' = Upsert(cve, FromNvd(cve, Head(updater.cpes)))
          /\ updater' = [updater EXCEPT !.todo = @ \ {cve}]
  /\ UNCHANGED <<updates, scanning>>

StartMarking ==
  /\ updater.pc = "nvd" /\ updater.cpes = <<>>
  /\ updater' = [updater EXCEPT !.pc = "mark", !.todo = Catalogue]
  /\ UNCHANGED <<db, updates, scanning>>

MarkOne ==
  /\ updater.pc = "mark"
  /\ \/ /\ updater.todo = {}
        /\ updater' = [updater EXCEPT !.pc = "done"]
        /\ UNCHANGED db
     \/ \E cve \in updater.todo :
          /\ db' = Mark(cve)
          /\ updater' = [updater EXCEPT !.todo = @ \ {cve}]
  /\ UNCHANGED <<updates, scanning>>

\* The process of the update is killed.
KillUpdate ==
  /\ updater.pc \in {"seed", "store", "mark"}
  /\ updater' = [updater EXCEPT !.pc = "failed"]
  /\ UNCHANGED <<db, updates, scanning>>

-----------------------------------------------------------------------------
(* check_cves.                                                              *)

updating == <<updater, updates>>

Finding(cve, cpe, entry) == [cve |-> cve, cpe |-> cpe, kev |-> entry.kev, severity |-> entry.severity]

NextTech == [pc |-> "query", techs |-> Tail(scanner.techs), todo |-> {}, tries |-> 0]

\* explain_cpe_applicability: no version, or no alias.
SkipTech ==
  /\ scanner.pc = "query" /\ scanner.techs # <<>> /\ Head(scanner.techs) = NoCpe
  /\ scanner' = NextTech
  /\ UNCHANGED <<db, updating, reported>>

Query ==
  /\ scanner.pc = "query" /\ scanner.techs # <<>> /\ Head(scanner.techs) # NoCpe
  /\ LET cpe == Head(scanner.techs)
     IN  IF Cached(cpe) = {}
         THEN /\ scanner' = [scanner EXCEPT !.pc = "fetch"]
              /\ UNCHANGED reported
         ELSE /\ reported' = reported \cup {Finding(c, cpe, db[c]) : c \in Cached(cpe)}
              /\ scanner' = NextTech
  /\ UNCHANGED <<db, updating>>

\* fetch_page: at most three attempts; a miss that cannot be fetched reports nothing.
FailFetch ==
  /\ scanner.pc = "fetch"
  /\ scanner' = IF scanner.tries + 1 < PageAttempts THEN [scanner EXCEPT !.tries = @ + 1]
                ELSE NextTech
  /\ UNCHANGED <<db, updating, reported>>

\* The findings are made of the answer, not of the rows it is merged into.
Fetch ==
  /\ scanner.pc = "fetch"
  /\ LET cpe == Head(scanner.techs)
     IN  /\ scanner' = [scanner EXCEPT !.pc = "store", !.todo = Nvd[cpe]]
         /\ reported' = reported \cup {Finding(c, cpe, FromNvd(c, cpe)) : c \in Nvd[cpe]}
  /\ UNCHANGED <<db, updating>>

Store ==
  /\ scanner.pc = "store"
  /\ \/ /\ scanner.todo = {}
        /\ scanner' = NextTech
        /\ UNCHANGED db
     \/ \E cve \in scanner.todo :
          /\ db' = Upsert(cve, FromNvd(cve, Head(scanner.techs)))
          /\ scanner' = [scanner EXCEPT !.todo = @ \ {cve}]
  /\ UNCHANGED <<updating, reported>>

Update == FetchFails \/ FetchKev \/ SeedOne \/ FetchNvd \/ StoreOne \/ StartMarking \/ MarkOne
CheckCves == SkipTech \/ Query \/ FailFetch \/ Fetch \/ Store

CacheNext ==
  \/ \E cpes \in Techs : cpes \in Seq(Cpes) /\ StartUpdate(cpes)
  \/ Update \/ KillUpdate \/ CheckCves

CacheSpec == CacheInit /\ [][CacheNext]_cveVars

-----------------------------------------------------------------------------

\* Whatever a scan writes in between, an update that came to its end leaves every
\* cached CVE of the catalogue marked, even if earlier updates were killed; a scan
\* reports a CVE only for a CPE that NVD lists it for, and a CVE is reported as
\* exploited only if the catalogue has it; and no severity falls below NVD's.
CveConsistent ==
  /\ updater.pc = "done" => \A c \in Catalogue : db[c] # NoEntry /\ db[c].kev
  /\ \A c \in Cves : db[c] # NoEntry =>
       /\ db[c].kev => c \in Catalogue
       /\ \A cpe \in db[c].cpes : c \in Nvd[cpe]
       /\ db[c].cpes # {} => db[c].severity >= Rating[c]
       /\ "cisa_kev" \in db[c].source => db[c].kev
  /\ \A f \in reported : f.cve \in Nvd[f.cpe] /\ (f.kev => f.cve \in Catalogue)

=============================================================================
