--------------------------------- MODULE Start ---------------------------------
(***************************************************************************)
(* The start of the indexer's database: Db::Open, Db::init up to its       *)
(* threads, and the version part of db::migration.  The process may crash  *)
(* between any two queries and be started again, in another version; a     *)
(* query may fail, which most of these functions swallow.                  *)
(*                                                                         *)
(* (The flush of the stream at the end of migration is TxIndex's Migrate.) *)
(***************************************************************************)
EXTENDS Integers, Sequences, FiniteSets, SequencesExt

CONSTANTS
    Names,          \* table::get_names(), in order
    Indices,        \* table::get_indices(): <<table, field>> in order
    Versions,       \* versions of the indexer that may be started
    LegacyVersions, \* numbers that the row of an old version may hold
    MaxCrashes,     \* bound on crashes
    MaxFaults       \* bound on failing queries

ASSUME StartAssumption ==
    /\ Names \in Seq(STRING) /\ "meta" \in ToSet(Names)
    /\ Indices \in Seq(ToSet(Names) \X STRING) /\ Indices # <<>>
    /\ Versions \subseteq Nat \ {0} /\ LegacyVersions \subseteq Nat
    /\ {MaxCrashes, MaxFaults} \subseteq Nat

VARIABLES
    exists,         \* whether the database is there
    tables,         \* its tables
    indices,        \* its indices
    meta,           \* rows of the table meta: [id, version]
    legacy,         \* its row with the id "version" of old versions: none or one number
    start,          \* [pc, step, version, failed] of the running process
    crashes,        \* crashes so far
    faults          \* failed queries so far

schema    == <<exists, tables, indices>>
startVars == <<schema, meta, legacy, start, crashes, faults>>

-------------------------------------------------------------------------------
Down == [pc |-> "down", step |-> 0, version |-> 0, failed |-> FALSE]

(***************************************************************************)
(* Db::get_version: the version in the row with the largest id.  A string  *)
(* is larger than every number, and the legacy row has no "version": then, *)
(* and when there is no row, the answer is 0.                              *)
(***************************************************************************)
Newer(r) == \E s \in meta : s.id > r.id

GetVersion ==
    IF legacy # <<>> \/ meta = {} THEN 0 ELSE (CHOOSE r \in meta : ~Newer(r)).version

(* restart_number of update_version: the largest id and one, a string counting as 0. *)
RestartNumber ==
    IF legacy # <<>> \/ meta = {} THEN 1 ELSE (CHOOSE r \in meta : ~Newer(r)).id + 1

StartInit ==
    /\ start = Down
    /\ crashes = 0 /\ faults = 0
    /\ \/ exists = FALSE /\ tables = {} /\ indices = {} /\ meta = {} /\ legacy = <<>>
       \/ /\ exists = TRUE /\ tables = {"meta"} /\ indices = {} /\ meta = {}
          /\ \E n \in LegacyVersions : legacy = <<n>>

(* A query fails. *)
Fault == faults < MaxFaults /\ faults' = faults + 1

(* The process goes on at `pc`. *)
Goto(pc, step) == start' = [start EXCEPT !.pc = pc, !.step = step]

(* The same after a query that failed in this start. *)
GotoFailed(pc, step) == start' = [start EXCEPT !.pc = pc, !.step = step, !.failed = TRUE]

-------------------------------------------------------------------------------
(* Slip: tables and indices are made with a new database only. *)
OpenSkips ==
    /\ start.pc = "down"
    /\ \E v \in Versions :
         start' = [pc |-> IF exists THEN "legacy" ELSE "create", step |-> 1, version |-> v, failed |-> FALSE]
    /\ UNCHANGED <<schema, meta, legacy, crashes, faults>>

(* Db::Open: without a connection the process exits at once, else it learns if the database exists. *)
Open ==
    /\ start.pc = "down"
    /\ \E v \in Versions :
         start' = [pc |-> IF exists THEN "tables" ELSE "create", step |-> 1, version |-> v, failed |-> FALSE]
    /\ UNCHANGED <<schema, meta, legacy, crashes, faults>>

OpenFails ==
    /\ start.pc = "down"
    /\ Fault
    /\ UNCHANGED <<schema, meta, legacy, start, crashes>>

(* init of a new database; an error ends init before it has started a thread. *)
CreateDb ==
    /\ start.pc = "create"
    /\ \/ exists' = TRUE /\ Goto("tables", 1) /\ UNCHANGED faults
       \/ Fault /\ GotoFailed("idle", 0) /\ UNCHANGED exists
    /\ UNCHANGED <<tables, indices, meta, legacy, crashes>>

(* has_table, and create_table of a missing one; errors are swallowed. *)
EnsureTable ==
    /\ start.pc = "tables"
    /\ LET n == Names[start.step]
           next(goto(_, _)) == IF start.step < Len(Names) THEN goto("tables", start.step + 1)
                               ELSE goto("indices", 1)
       IN  \/ tables' = tables \cup {n} /\ next(Goto) /\ UNCHANGED faults
           \/ n \notin tables /\ Fault /\ next(GotoFailed) /\ UNCHANGED tables
    /\ UNCHANGED <<exists, indices, meta, legacy, crashes>>

(* has_index, and create_index of a missing one; errors, a missing table too, are swallowed. *)
EnsureIndex ==
    /\ start.pc = "indices"
    /\ LET i == Indices[start.step]
           next(goto(_, _)) == IF start.step < Len(Indices) THEN goto("indices", start.step + 1)
                               ELSE goto("legacy", 0)
       IN  \/ /\ indices' = IF i[1] \in tables THEN indices \cup {i} ELSE indices
              /\ next(Goto)
              /\ UNCHANGED faults
           \/ i \notin indices /\ Fault /\ next(GotoFailed) /\ UNCHANGED indices
    /\ UNCHANGED <<exists, tables, meta, legacy, crashes>>

(***************************************************************************)
(* migration: the number in the legacy row, 0 when there is no such row or *)
(* the read fails, decides if the row is removed: a failed read lets it be *)
(* removed whatever it holds.  The removal is a query of its own; without  *)
(* a row it does nothing.                                                  *)
(***************************************************************************)
LastLegacy == 122

ReadLegacy ==
    /\ start.pc = "legacy"
    /\ \/ /\ IF legacy # <<>> /\ legacy[1] > LastLegacy THEN Goto("version", 0) ELSE Goto("drop", 0)
          /\ UNCHANGED faults
       \/ Fault /\ GotoFailed("drop", 0)
    /\ UNCHANGED <<schema, meta, legacy, crashes>>

RemoveLegacy ==
    /\ start.pc = "drop"
    /\ \/ legacy' = <<>> /\ Goto("version", 0) /\ UNCHANGED faults
       \/ Fault /\ GotoFailed("version", 0) /\ UNCHANGED legacy
    /\ UNCHANGED <<schema, meta, crashes>>

(* Slip: another version is recorded whichever is newer. *)
ReadVersionDiffers ==
    /\ start.pc = "version"
    /\ IF start.version # GetVersion THEN Goto("record", 0) ELSE Goto("threads", 0)
    /\ UNCHANGED <<schema, meta, legacy, crashes, faults>>

ReadVersion ==
    /\ start.pc = "version"
    /\ \/ /\ IF start.version > GetVersion THEN Goto("record", 0) ELSE Goto("threads", 0)
          /\ UNCHANGED faults
       \/ Fault /\ GotoFailed("record", 0)
    /\ UNCHANGED <<schema, meta, legacy, crashes>>

(* Table::insert into meta: nothing is written if the id is taken or the table is missing. *)
InsertMeta(id) ==
    meta' = IF "meta" \in tables /\ \A r \in meta : r.id # id
            THEN meta \cup {[id |-> id, version |-> start.version]} ELSE meta

(* update_version: a failed read of the last id gives restart number 1. *)
UpdateVersion ==
    /\ start.pc = "record"
    /\ \/ InsertMeta(RestartNumber) /\ Goto("threads", 0) /\ UNCHANGED faults
       \/ Fault /\ InsertMeta(1) /\ GotoFailed("threads", 0)
       \/ Fault /\ GotoFailed("threads", 0) /\ UNCHANGED meta
    /\ UNCHANGED <<schema, legacy, crashes>>

(* The end of init: blocks_processing, transactions_processing and the statistics worker start. *)
StartThreads ==
    /\ start.pc = "threads"
    /\ Goto("running", 0)
    /\ UNCHANGED <<schema, meta, legacy, crashes, faults>>

CrashStart ==
    /\ start.pc # "down" /\ crashes < MaxCrashes
    /\ start' = Down
    /\ crashes' = crashes + 1
    /\ UNCHANGED <<schema, meta, legacy, faults>>

StartNext ==
    \/ Open \/ OpenFails \/ CreateDb \/ EnsureTable \/ EnsureIndex
    \/ ReadLegacy \/ RemoveLegacy \/ ReadVersion \/ UpdateVersion \/ StartThreads

-------------------------------------------------------------------------------
(***************************************************************************)
(* When the indexer runs after a start in which no query failed, every     *)
(* table and every index of names.cpp is there: whatever an earlier start  *)
(* left undone when it crashed or when its errors were swallowed.          *)
(***************************************************************************)
SchemaComplete ==
    (start.pc = "running" /\ ~start.failed)
      => exists /\ ToSet(Names) \subseteq tables /\ ToSet(Indices) \subseteq indices

(* A legacy row that no migration removes: it hides every version recorded beside it. *)
LegacyStays == legacy # <<>> /\ legacy[1] > LastLegacy

(***************************************************************************)
(* A start in which no query failed never lowers the version that          *)
(* get_version answers, not even one of an older indexer; and the indexer  *)
(* runs with a version no older than itself, unless the database came with *)
(* a legacy row above 122, beside which get_version answers 0 for ever.    *)
(***************************************************************************)
VersionNeverGoesBack ==
    [][~start'.failed => /\ GetVersion' >= GetVersion
                         /\ start'.pc = "running" => GetVersion' >= start'.version \/ LegacyStays']_startVars
===============================================================================
