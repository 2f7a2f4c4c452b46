------------------------------ MODULE StartProofs ------------------------------
(***************************************************************************)
(* What every step of the start of the indexer's database preserves, for   *)
(* every list of tables and indices, every set of versions, and however    *)
(* often the start crashes or its queries fail.  The theorems about the    *)
(* behaviours are in StatisticsProofs, where the rest of the process and   *)
(* the crash of it are steps too.                                          *)
(***************************************************************************)
EXTENDS Start, TLAPS

Pcs == {"down", "create", "idle", "tables", "indices", "legacy", "drop",
        "version", "record", "threads", "running"}

(* The places of init behind the loop over the tables, and behind both loops. *)
PastIndices == {"legacy", "drop", "version", "record", "threads", "running"}
PastTables  == PastIndices \cup {"indices"}

(* The newest row of meta, if there is a row. *)
HasNewest(m) == m # {} => \E r \in m : \A s \in m : ~(s.id > r.id)

(* The row of an old version: none, or one that holds a number. *)
LegacyRow(l) == l = <<>> \/ \E n \in Nat : l = << n >>

StartTypeOK ==
    /\ exists \in BOOLEAN
    /\ tables \subseteq ToSet(Names) \cup {"wallets_top"}
    /\ indices \subseteq ToSet(Indices) \cup {<<"wallets_top", "position">>}
    /\ meta \subseteq [id : Nat \ {0}, version : Nat]
    /\ LegacyRow(legacy)
    /\ start \in [pc : Pcs, step : Nat, version : Nat, failed : BOOLEAN]
    /\ start.pc = "tables" => start.step \in 1 .. Len(Names)
    /\ start.pc = "indices" => start.step \in 1 .. Len(Indices)
    /\ crashes \in 0 .. MaxCrashes /\ faults \in 0 .. MaxFaults

(* What a start in which no query failed has left behind it, step by step. *)
SchemaSoFar ==
    ~start.failed =>
      /\ start.pc # "idle"
      /\ start.pc \in PastTables \cup {"tables"} => exists
      /\ start.pc = "tables" => \A k \in 1 .. start.step - 1 : Names[k] \in tables
      /\ start.pc \in PastTables => ToSet(Names) \subseteq tables
      /\ start.pc = "indices" => \A k \in 1 .. start.step - 1 : Indices[k] \in indices
      /\ start.pc \in PastIndices => ToSet(Indices) \subseteq indices

(* The rows of meta have a newest one; what is known of the version at each place of migration. *)
VersionSoFar ==
    /\ HasNewest(meta)
    /\ ~start.failed =>
         /\ start.pc \in {"version", "record", "threads", "running"} => legacy = <<>> \/ LegacyStays
         /\ start.pc = "record" => start.version > GetVersion
         /\ start.pc \in {"threads", "running"} => GetVersion >= start.version \/ LegacyStays

StartInv == StartTypeOK /\ SchemaSoFar /\ VersionSoFar

-------------------------------------------------------------------------------
LEMMA ListFacts ==
    /\ Names \in Seq(STRING) /\ Len(Names) \in Nat /\ Len(Names) >= 1
    /\ Indices \in Seq(ToSet(Names) \X STRING) /\ Len(Indices) \in Nat /\ Len(Indices) >= 1
    /\ ToSet(Names) = {Names[k] : k \in 1 .. Len(Names)}
    /\ ToSet(Indices) = {Indices[k] : k \in 1 .. Len(Indices)}
    /\ "meta" \in ToSet(Names)
    /\ \A k \in 1 .. Len(Indices) : Indices[k][1] \in ToSet(Names)
<1>1. Names \in Seq(STRING) /\ Len(Names) \in Nat /\ DOMAIN Names = 1 .. Len(Names) /\ "meta" \in ToSet(Names)
  BY StartAssumption
<1>2. Indices \in Seq(ToSet(Names) \X STRING) /\ Len(Indices) \in Nat /\ DOMAIN Indices = 1 .. Len(Indices)
  BY StartAssumption
<1>3. Len(Names) >= 1
  BY <1>1 DEF ToSet
<1>4. Len(Indices) >= 1
  BY <1>2, StartAssumption
<1>5. \A k \in 1 .. Len(Indices) : Indices[k] \in ToSet(Names) \X STRING
  BY <1>2
<1> QED
  BY <1>1, <1>2, <1>3, <1>4, <1>5 DEF ToSet

(* The version get_version answers is a natural number, the restart number is larger than every id. *)
VersionFacts ==
    meta \subseteq [id : Nat \ {0}, version : Nat] /\ HasNewest(meta) =>
      /\ GetVersion \in Nat
      /\ RestartNumber \in Nat \ {0}
      /\ legacy = <<>> => \A r \in meta : r.id < RestartNumber

LEMMA VersionIsNat == VersionFacts
<1> SUFFICES ASSUME meta \subseteq [id : Nat \ {0}, version : Nat], HasNewest(meta)
             PROVE  /\ GetVersion \in Nat
                    /\ RestartNumber \in Nat \ {0}
                    /\ legacy = <<>> => \A r \in meta : r.id < RestartNumber
  BY DEF VersionFacts
<1>1. CASE legacy # <<>> \/ meta = {}
  BY <1>1 DEF GetVersion, RestartNumber
<1>2. CASE legacy = <<>> /\ meta # {}
  <2> DEFINE m == CHOOSE r \in meta : ~Newer(r)
  <2>1. \E r \in meta : ~Newer(r)
    BY <1>2 DEF HasNewest, Newer
  <2>2. m \in meta /\ ~Newer(m)
    BY <2>1
  <2>3. GetVersion = m.version /\ RestartNumber = m.id + 1
    BY <1>2 DEF GetVersion, RestartNumber
  <2> HIDE DEF m
  <2>4. m.id \in Nat \ {0} /\ m.version \in Nat
    BY <2>2, StartAssumption
  <2>5. \A s \in meta : s.id \in Nat /\ ~(s.id > m.id)
    BY <2>2 DEF Newer
  <2> QED
    BY <2>3, <2>4, <2>5
<1> QED
  BY <1>1, <1>2

LEMMA VersionIsNatNext == VersionFacts'
BY VersionIsNat, PTL

-------------------------------------------------------------------------------
(* Every start begins with an empty database, or with one of the old versions. *)
LEMMA StartInitially == StartInit => StartInv
<1> SUFFICES ASSUME StartInit PROVE StartInv
  OBVIOUS
<1>1. meta = {} /\ start = Down /\ crashes = 0 /\ faults = 0 /\ LegacyRow(legacy)
  BY StartAssumption DEF StartInit, LegacyRow
<1>2. exists \in BOOLEAN /\ tables \subseteq ToSet(Names) /\ indices = {}
  BY ListFacts DEF StartInit
<1>3. start \in [pc : Pcs, step : Nat, version : Nat, failed : BOOLEAN] /\ start.pc = "down"
  BY <1>1 DEF Down, Pcs
<1>4. StartTypeOK
  BY <1>1, <1>2, <1>3, StartAssumption DEF StartTypeOK
<1>5. SchemaSoFar
  BY <1>3 DEF SchemaSoFar, PastTables, PastIndices
<1>6. VersionSoFar
  BY <1>1, <1>3 DEF VersionSoFar, HasNewest
<1> QED
  BY <1>4, <1>5, <1>6 DEF StartInv

(* What a step does to the version, the action of VersionNeverGoesBack. *)
VersionStep ==
    ~start'.failed => /\ GetVersion' >= GetVersion
                      /\ start'.pc = "running" => GetVersion' >= start'.version \/ LegacyStays'

(* A step that leaves the rows of meta alone leaves the version. *)
LEMMA SameVersion == ASSUME UNCHANGED <<meta, legacy>> PROVE GetVersion' = GetVersion
BY DEF GetVersion, Newer

(* A failing query is counted within its bound. *)
LEMMA StartFault == ASSUME faults \in 0 .. MaxFaults, Fault PROVE faults' \in 0 .. MaxFaults
BY StartAssumption DEF Fault

(***************************************************************************)
(* A step that leaves meta alone and goes on at another place: what is     *)
(* left of the invariants.                                                 *)
(***************************************************************************)
LEMMA StartMoves ==
    ASSUME StartInv, UNCHANGED <<meta, legacy>>,
           NEW pc, NEW step, Goto(pc, step) \/ GotoFailed(pc, step),
           pc \in Pcs, step \in Nat, pc \notin {"record", "threads", "running"},
           pc = "version" /\ ~start'.failed => legacy = <<>> \/ LegacyStays
    PROVE  /\ start' \in [pc : Pcs, step : Nat, version : Nat, failed : BOOLEAN]
           /\ start'.pc = pc /\ start'.step = step /\ (~start'.failed => ~start.failed)
           /\ VersionSoFar' /\ VersionStep
<1>1. start \in [pc : Pcs, step : Nat, version : Nat, failed : BOOLEAN]
  BY DEF StartInv, StartTypeOK
<1>2. start' \in [pc : Pcs, step : Nat, version : Nat, failed : BOOLEAN]
  BY <1>1 DEF Goto, GotoFailed
<1>3. start'.pc = pc /\ start'.step = step /\ (~start'.failed => ~start.failed)
  BY <1>1 DEF Goto, GotoFailed
<1>4. GetVersion' = GetVersion /\ GetVersion \in Nat
  BY SameVersion, VersionIsNat DEF VersionFacts, StartInv, StartTypeOK, VersionSoFar
<1>5. VersionSoFar'
  BY <1>3 DEF StartInv, VersionSoFar, LegacyStays
<1>6. VersionStep
  BY <1>3, <1>4 DEF VersionStep
<1> QED
  BY <1>2, <1>3, <1>5, <1>6

(* A list that is there up to its last place is there. *)
LEMMA ListDone ==
    ASSUME NEW list, NEW len \in Nat, NEW step \in 1 .. len, NEW have, NEW now,
           \A k \in 1 .. step - 1 : list[k] \in have, have \subseteq now, list[step] \in now
    PROVE  /\ \A k \in 1 .. (step + 1) - 1 : list[k] \in now
           /\ ~(step < len) => {list[k] : k \in 1 .. len} \subseteq now
<1>1. \A k \in 1 .. step : list[k] \in now
  <2> SUFFICES ASSUME NEW k \in 1 .. step PROVE list[k] \in now
    OBVIOUS
  <2>1. CASE k = step
    BY <2>1
  <2>2. CASE k \in 1 .. step - 1
    BY <2>2
  <2> QED
    BY <2>1, <2>2
<1> QED
  BY <1>1

LEMMA StepOpen == ASSUME StartInv, Open PROVE StartInv' /\ VersionStep
<1>1. PICK v \in Versions :
        start' = [pc |-> IF exists THEN "tables" ELSE "create", step |-> 1, version |-> v, failed |-> FALSE]
  BY DEF Open
<1>2. UNCHANGED <<exists, tables, indices, meta, legacy, crashes, faults>>
  BY DEF Open, schema
<1>3. /\ start' \in [pc : Pcs, step : Nat, version : Nat, failed : BOOLEAN]
      /\ start'.pc = (IF exists THEN "tables" ELSE "create") /\ start'.step = 1
  BY <1>1, StartAssumption DEF Pcs
<1>4. GetVersion' = GetVersion /\ GetVersion \in Nat
  BY <1>2, SameVersion, VersionIsNat DEF VersionFacts, StartInv, StartTypeOK, VersionSoFar
<1>5. StartTypeOK'
  BY <1>2, <1>3, ListFacts DEF StartInv, StartTypeOK
<1>6. SchemaSoFar'
  BY <1>2, <1>3 DEF StartInv, SchemaSoFar, PastTables, PastIndices
<1>7. VersionSoFar' /\ VersionStep
  BY <1>2, <1>3, <1>4 DEF StartInv, VersionSoFar, VersionStep
<1> QED
  BY <1>5, <1>6, <1>7 DEF StartInv

LEMMA StepOpenFails == ASSUME StartInv, OpenFails PROVE StartInv' /\ VersionStep
<1>1. UNCHANGED <<exists, tables, indices, meta, legacy, start, crashes>> /\ start.pc = "down"
  BY DEF OpenFails, schema
<1>2. faults' \in 0 .. MaxFaults
  BY StartFault DEF OpenFails, StartInv, StartTypeOK
<1>3. GetVersion' = GetVersion /\ GetVersion \in Nat
  BY <1>1, SameVersion, VersionIsNat DEF VersionFacts, StartInv, StartTypeOK, VersionSoFar
<1> QED
  BY <1>1, <1>2, <1>3 DEF StartInv, StartTypeOK, SchemaSoFar, VersionSoFar, VersionStep

LEMMA StepCreateDb == ASSUME StartInv, CreateDb PROVE StartInv' /\ VersionStep
<1>1. UNCHANGED <<tables, indices, meta, legacy, crashes>> /\ faults' \in 0 .. MaxFaults
  BY StartFault DEF CreateDb, StartInv, StartTypeOK
<1>2. CASE exists' = TRUE /\ Goto("tables", 1)
  <2>1. /\ start' \in [pc : Pcs, step : Nat, version : Nat, failed : BOOLEAN]
        /\ start'.pc = "tables" /\ start'.step = 1 /\ VersionSoFar' /\ VersionStep
    BY <1>1, <1>2, StartMoves DEF Pcs
  <2>2. StartTypeOK'
    BY <1>1, <1>2, <2>1, ListFacts DEF StartInv, StartTypeOK
  <2>3. SchemaSoFar'
    BY <1>2, <2>1 DEF SchemaSoFar, PastTables, PastIndices
  <2> QED
    BY <2>1, <2>2, <2>3 DEF StartInv
<1>3. CASE GotoFailed("idle", 0) /\ UNCHANGED exists
  <2>1. /\ start' \in [pc : Pcs, step : Nat, version : Nat, failed : BOOLEAN]
        /\ start'.pc = "idle" /\ VersionSoFar' /\ VersionStep
    BY <1>1, <1>3, StartMoves DEF Pcs
  <2>2. start'.failed
    BY <1>3 DEF GotoFailed, StartInv, StartTypeOK
  <2>3. StartTypeOK' /\ SchemaSoFar'
    BY <1>1, <1>3, <2>1, <2>2 DEF StartInv, StartTypeOK, SchemaSoFar
  <2> QED
    BY <2>1, <2>3 DEF StartInv
<1> QED
  BY <1>2, <1>3 DEF CreateDb

LEMMA StepEnsureTable == ASSUME StartInv, EnsureTable PROVE StartInv' /\ VersionStep
<1> DEFINE n == Names[start.step]
           more == start.step < Len(Names)
<1>1. UNCHANGED <<exists, indices, meta, legacy, crashes>> /\ start.pc = "tables"
  BY DEF EnsureTable
<1>2. start.step \in 1 .. Len(Names) /\ n \in ToSet(Names)
  BY <1>1, ListFacts DEF StartInv, StartTypeOK
<1>3. \/ /\ tables' = tables \cup {n} /\ UNCHANGED faults
         /\ IF more THEN Goto("tables", start.step + 1) ELSE Goto("indices", 1)
      \/ /\ UNCHANGED tables /\ Fault
         /\ IF more THEN GotoFailed("tables", start.step + 1) ELSE GotoFailed("indices", 1)
  BY DEF EnsureTable
<1>4. /\ start' \in [pc : Pcs, step : Nat, version : Nat, failed : BOOLEAN]
      /\ start'.pc = (IF more THEN "tables" ELSE "indices")
      /\ start'.step = (IF more THEN start.step + 1 ELSE 1)
      /\ ~start'.failed => ~start.failed
      /\ VersionSoFar' /\ VersionStep
  <2>1. CASE more
    <3>1. Goto("tables", start.step + 1) \/ GotoFailed("tables", start.step + 1)
      BY <1>3, <2>1
    <3>2. start.step + 1 \in Nat
      BY <1>2
    <3> QED
      BY <1>1, <2>1, <3>1, <3>2, StartMoves DEF Pcs
  <2>2. CASE ~more
    <3>1. Goto("indices", 1) \/ GotoFailed("indices", 1)
      BY <1>3, <2>2
    <3> QED
      BY <1>1, <2>2, <3>1, StartMoves DEF Pcs
  <2> QED
    BY <2>1, <2>2
<1>5. StartTypeOK'
  <2>1. faults' \in 0 .. MaxFaults
    BY <1>3, StartFault DEF StartInv, StartTypeOK
  <2>2. tables' \subseteq ToSet(Names) \cup {"wallets_top"}
    BY <1>2, <1>3 DEF StartInv, StartTypeOK
  <2>3. /\ start'.pc = "tables" => start'.step \in 1 .. Len(Names)
        /\ start'.pc = "indices" => start'.step \in 1 .. Len(Indices)
    BY <1>2, <1>4, ListFacts
  <2> QED
    BY <1>1, <1>4, <2>1, <2>2, <2>3 DEF StartInv, StartTypeOK
<1>6. SchemaSoFar'
  <2> SUFFICES ASSUME ~start'.failed PROVE SchemaSoFar'
    BY DEF SchemaSoFar
  <2>1. tables' = tables \cup {n}
    BY <1>3 DEF GotoFailed, StartInv, StartTypeOK
  <2>2. exists /\ \A k \in 1 .. start.step - 1 : Names[k] \in tables
    BY <1>1, <1>4 DEF StartInv, SchemaSoFar
  <2>3. /\ \A k \in 1 .. (start.step + 1) - 1 : Names[k] \in tables'
        /\ ~more => {Names[k] : k \in 1 .. Len(Names)} \subseteq tables'
    BY <1>2, <2>1, <2>2, ListDone, ListFacts
  <2>4. CASE more
    BY <1>1, <1>4, <2>2, <2>3, <2>4 DEF SchemaSoFar, PastTables, PastIndices
  <2>5. CASE ~more
    BY <1>1, <1>4, <2>2, <2>3, <2>5, ListFacts DEF SchemaSoFar, PastTables, PastIndices
  <2> QED
    BY <2>4, <2>5
<1> QED
  BY <1>4, <1>5, <1>6 DEF StartInv

LEMMA StepEnsureIndex == ASSUME StartInv, EnsureIndex PROVE StartInv' /\ VersionStep
<1> DEFINE i == Indices[start.step]
           more == start.step < Len(Indices)
<1>1. UNCHANGED <<exists, tables, meta, legacy, crashes>> /\ start.pc = "indices"
  BY DEF EnsureIndex
<1>2. start.step \in 1 .. Len(Indices)
  BY <1>1 DEF StartInv, StartTypeOK
<1>i. i \in ToSet(Indices) /\ i[1] \in ToSet(Names)
  BY <1>2, ListFacts
<1> HIDE DEF i
<1>3. \/ /\ indices' = (IF i[1] \in tables THEN indices \cup {i} ELSE indices) /\ UNCHANGED faults
         /\ IF more THEN Goto("indices", start.step + 1) ELSE Goto("legacy", 0)
      \/ /\ UNCHANGED indices /\ Fault
         /\ IF more THEN GotoFailed("indices", start.step + 1) ELSE GotoFailed("legacy", 0)
  BY DEF EnsureIndex, i
<1>4. /\ start' \in [pc : Pcs, step : Nat, version : Nat, failed : BOOLEAN]
      /\ start'.pc = (IF more THEN "indices" ELSE "legacy")
      /\ start'.step = (IF more THEN start.step + 1 ELSE 0)
      /\ ~start'.failed => ~start.failed
      /\ VersionSoFar' /\ VersionStep
  <2>1. CASE more
    <3>1. Goto("indices", start.step + 1) \/ GotoFailed("indices", start.step + 1)
      BY <1>3, <2>1
    <3>2. start.step + 1 \in Nat
      BY <1>2
    <3> QED
      BY <1>1, <2>1, <3>1, <3>2, StartMoves DEF Pcs
  <2>2. CASE ~more
    <3>1. Goto("legacy", 0) \/ GotoFailed("legacy", 0)
      BY <1>3, <2>2
    <3> QED
      BY <1>1, <2>2, <3>1, StartMoves DEF Pcs
  <2> QED
    BY <2>1, <2>2
<1>5. StartTypeOK'
  <2>1. faults' \in 0 .. MaxFaults
    BY <1>3, StartFault DEF StartInv, StartTypeOK
  <2>2. indices' \subseteq ToSet(Indices) \cup {<<"wallets_top", "position">>}
    BY <1>i, <1>3 DEF StartInv, StartTypeOK
  <2>3. start'.pc # "tables" /\ (start'.pc = "indices" => start'.step \in 1 .. Len(Indices))
    <3>1. CASE more
      <4>1. start.step + 1 \in 1 .. Len(Indices)
        BY <1>2, <3>1
      <4> QED
        BY <1>4, <3>1, <4>1
    <3>2. CASE ~more
      BY <1>4, <3>2
    <3> QED
      BY <3>1, <3>2
  <2> QED
    BY <1>1, <1>4, <2>1, <2>2, <2>3 DEF StartInv, StartTypeOK
<1>6. SchemaSoFar'
  <2> SUFFICES ASSUME ~start'.failed PROVE SchemaSoFar'
    BY DEF SchemaSoFar
  <2>1. /\ exists /\ ToSet(Names) \subseteq tables
        /\ \A k \in 1 .. start.step - 1 : Indices[k] \in indices
    BY <1>1, <1>4 DEF StartInv, SchemaSoFar, PastTables
  <2>2. indices' = indices \cup {i}
    BY <1>i, <1>3, <2>1 DEF GotoFailed, StartInv, StartTypeOK
  <2>3. /\ \A k \in 1 .. (start.step + 1) - 1 : Indices[k] \in indices'
        /\ ~more => {Indices[k] : k \in 1 .. Len(Indices)} \subseteq indices'
    BY <1>2, <2>1, <2>2, ListDone, ListFacts DEF i
  <2>4. CASE more
    BY <1>1, <1>4, <2>1, <2>3, <2>4 DEF SchemaSoFar, PastTables, PastIndices
  <2>5. CASE ~more
    BY <1>1, <1>4, <2>1, <2>3, <2>5, ListFacts DEF SchemaSoFar, PastTables, PastIndices
  <2> QED
    BY <2>4, <2>5
<1> QED
  BY <1>4, <1>5, <1>6 DEF StartInv

(* The places behind the loops: the schema stays as it is. *)
LEMMA SchemaStays ==
    ASSUME StartInv, UNCHANGED <<exists, tables, indices, crashes>>, faults' \in 0 .. MaxFaults,
           start.pc \in PastIndices, NEW pc \in PastIndices, Goto(pc, 0) \/ GotoFailed(pc, 0),
           meta' \subseteq [id : Nat \ {0}, version : Nat], LegacyRow(legacy')
    PROVE  /\ StartTypeOK' /\ SchemaSoFar'
           /\ start'.pc = pc /\ start'.version = start.version
           /\ ~start'.failed <=> ~start.failed /\ Goto(pc, 0)
<1>1. start \in [pc : Pcs, step : Nat, version : Nat, failed : BOOLEAN]
  BY DEF StartInv, StartTypeOK
<1>2. start' \in [pc : Pcs, step : Nat, version : Nat, failed : BOOLEAN]
  <2>1. pc \in Pcs
    BY DEF PastIndices, Pcs
  <2>2. CASE Goto(pc, 0)
    BY <1>1, <2>1, <2>2 DEF Goto
  <2>3. CASE GotoFailed(pc, 0)
    BY <1>1, <2>1, <2>3 DEF GotoFailed
  <2> QED
    BY <2>2, <2>3
<1>3. /\ start'.pc = pc /\ start'.version = start.version
      /\ ~start'.failed => ~start.failed /\ Goto(pc, 0)
  BY <1>1 DEF Goto, GotoFailed
<1>4. ~start.failed /\ Goto(pc, 0) => ~start'.failed
  BY <1>1 DEF Goto
<1>5. StartTypeOK'
  BY <1>2, <1>3 DEF StartInv, StartTypeOK, PastIndices
<1>6. SchemaSoFar'
  BY <1>3 DEF StartInv, SchemaSoFar, PastTables, PastIndices
<1> QED
  BY <1>3, <1>4, <1>5, <1>6

LEMMA StepReadLegacy == ASSUME StartInv, ReadLegacy PROVE StartInv' /\ VersionStep
<1>1. UNCHANGED <<exists, tables, indices, meta, legacy, crashes>> /\ start.pc = "legacy"
  BY DEF ReadLegacy, schema
<1>2. faults' \in 0 .. MaxFaults
  BY StartFault DEF ReadLegacy, StartInv, StartTypeOK
<1>3. meta' \subseteq [id : Nat \ {0}, version : Nat] /\ LegacyRow(legacy')
  BY <1>1 DEF StartInv, StartTypeOK
<1>4. \/ LegacyStays /\ Goto("version", 0)
      \/ Goto("drop", 0)
      \/ GotoFailed("drop", 0)
  BY DEF ReadLegacy, LegacyStays
<1>5. PICK pc \in {"drop", "version"} : Goto(pc, 0) \/ GotoFailed(pc, 0)
  BY <1>4
<1>6. pc \in PastIndices /\ pc \in Pcs
  BY DEF PastIndices, Pcs
<1>7. StartTypeOK' /\ SchemaSoFar' /\ start'.pc = pc
  BY <1>1, <1>2, <1>3, <1>5, <1>6, SchemaStays DEF PastIndices
<1>8. pc = "version" => LegacyStays
  BY <1>4, <1>7 DEF Goto, GotoFailed, StartInv, StartTypeOK
<1>9. VersionSoFar' /\ VersionStep
  BY <1>1, <1>5, <1>6, <1>8, StartMoves
<1> QED
  BY <1>7, <1>9 DEF StartInv

LEMMA StepRemoveLegacy == ASSUME StartInv, RemoveLegacy PROVE StartInv' /\ VersionStep
<1>1. UNCHANGED <<exists, tables, indices, meta, crashes>> /\ start.pc = "drop"
  BY DEF RemoveLegacy, schema
<1>2. faults' \in 0 .. MaxFaults
  BY StartFault DEF RemoveLegacy, StartInv, StartTypeOK
<1>3. LegacyRow(legacy) /\ meta' \subseteq [id : Nat \ {0}, version : Nat]
  BY <1>1 DEF StartInv, StartTypeOK
<1>4. \/ legacy' = <<>> /\ Goto("version", 0)
      \/ legacy' = legacy /\ GotoFailed("version", 0)
  BY DEF RemoveLegacy
<1>l. LegacyRow(legacy')
  BY <1>3, <1>4 DEF LegacyRow
<1>5. /\ StartTypeOK' /\ SchemaSoFar'
      /\ start'.pc = "version" /\ start'.version = start.version
  BY <1>1, <1>2, <1>3, <1>4, <1>l, SchemaStays DEF PastIndices
<1>6. ~start'.failed => legacy' = <<>>
  BY <1>4 DEF GotoFailed, StartInv, StartTypeOK
<1>7. VersionSoFar'
  BY <1>1, <1>5, <1>6 DEF StartInv, VersionSoFar
<1>8. GetVersion \in Nat /\ GetVersion' \in Nat
  BY <1>5, <1>7, VersionIsNat, VersionIsNatNext DEF VersionFacts, StartInv, StartTypeOK, VersionSoFar
<1>9. legacy' # legacy => GetVersion = 0
  BY <1>4 DEF GetVersion
<1>10. GetVersion' >= GetVersion
  BY <1>1, <1>8, <1>9, SameVersion
<1> QED
  BY <1>5, <1>7, <1>10 DEF StartInv, VersionStep

LEMMA StepReadVersion == ASSUME StartInv, ReadVersion PROVE StartInv' /\ VersionStep
<1>1. UNCHANGED <<exists, tables, indices, meta, legacy, crashes>> /\ start.pc = "version"
  BY DEF ReadVersion, schema
<1>2. faults' \in 0 .. MaxFaults
  BY StartFault DEF ReadVersion, StartInv, StartTypeOK
<1>3. meta' \subseteq [id : Nat \ {0}, version : Nat] /\ LegacyRow(legacy')
  BY <1>1 DEF StartInv, StartTypeOK
<1>4. GetVersion' = GetVersion /\ GetVersion \in Nat /\ start.version \in Nat
  BY <1>1, SameVersion, VersionIsNat, StartAssumption DEF VersionFacts, StartInv, StartTypeOK, VersionSoFar
<1>5. \/ start.version > GetVersion /\ Goto("record", 0)
      \/ start.version <= GetVersion /\ Goto("threads", 0)
      \/ GotoFailed("record", 0)
  BY <1>4 DEF ReadVersion
<1>6. CASE start.version > GetVersion /\ Goto("record", 0)
  <2>1. /\ StartTypeOK' /\ SchemaSoFar'
        /\ start'.pc = "record" /\ start'.version = start.version
        /\ ~start'.failed => ~start.failed
    BY <1>1, <1>2, <1>3, <1>6, SchemaStays DEF PastIndices
  <2> QED
    BY <1>1, <1>4, <1>6, <2>1 DEF StartInv, VersionSoFar, VersionStep, LegacyStays
<1>7. CASE start.version <= GetVersion /\ Goto("threads", 0)
  <2>1. /\ StartTypeOK' /\ SchemaSoFar'
        /\ start'.pc = "threads" /\ start'.version = start.version
        /\ ~start'.failed => ~start.failed
    BY <1>1, <1>2, <1>3, <1>7, SchemaStays DEF PastIndices
  <2> QED
    BY <1>1, <1>4, <1>7, <2>1 DEF StartInv, VersionSoFar, VersionStep, LegacyStays
<1>8. CASE GotoFailed("record", 0)
  <2>1. StartTypeOK' /\ SchemaSoFar'
    BY <1>1, <1>2, <1>3, <1>8, SchemaStays DEF PastIndices
  <2>2. start'.failed
    BY <1>8 DEF GotoFailed, StartInv, StartTypeOK
  <2> QED
    BY <1>1, <2>1, <2>2 DEF StartInv, VersionSoFar, VersionStep
<1> QED
  BY <1>5, <1>6, <1>7, <1>8

(* A row more leaves meta with a newest row; that row's version, if it is the row of the restart number. *)
LEMMA Inserted ==
    ASSUME StartTypeOK, HasNewest(meta), start.version \in Nat,
           NEW id \in Nat \ {0}, id = 1 \/ id = RestartNumber, InsertMeta(id)
    PROVE  /\ meta' \subseteq [id : Nat \ {0}, version : Nat]
           /\ HasNewest(meta')
           /\ (/\ legacy = <<>> /\ legacy' = <<>>
              /\ id = RestartNumber /\ "meta" \in tables) => GetVersion' = start.version
<1> DEFINE new == [id |-> id, version |-> start.version]
<1>1. meta \subseteq [id : Nat \ {0}, version : Nat]
  BY DEF StartTypeOK
<1>2. new \in [id : Nat \ {0}, version : Nat] /\ new.id = id /\ new.version = start.version
  OBVIOUS
<1>3. meta' = meta \/ meta' = meta \cup {new}
  BY DEF InsertMeta
<1> HIDE DEF new
<1>4. meta' \subseteq [id : Nat \ {0}, version : Nat]
  BY <1>1, <1>2, <1>3
<1>5. HasNewest(meta')
  <2>1. CASE meta' = meta
    BY <2>1
  <2>2. CASE meta' = meta \cup {new} /\ meta = {}
    BY <1>2, <2>2 DEF HasNewest
  <2>3. CASE meta' = meta \cup {new} /\ meta # {}
    <3>1. PICK r \in meta : \A s \in meta : ~(s.id > r.id)
      BY <2>3 DEF HasNewest
    <3>2. r.id \in Nat \ {0} /\ r \in meta'
      BY <1>1, <2>3, <3>1
    <3>3. CASE new.id > r.id
      <4>1. \A s \in meta' : ~(s.id > new.id)
        <5> SUFFICES ASSUME NEW s \in meta PROVE ~(s.id > new.id)
          BY <1>2, <2>3
        <5>1. s.id \in Nat
          BY <1>1
        <5> QED
          BY <1>2, <3>1, <3>2, <3>3, <5>1
      <4> QED
        BY <2>3, <4>1 DEF HasNewest
    <3>4. CASE ~(new.id > r.id)
      BY <2>3, <3>1, <3>2, <3>4 DEF HasNewest
    <3> QED
      BY <3>3, <3>4
  <2> QED
    BY <1>3, <2>1, <2>2, <2>3
<1>6. ASSUME legacy = <<>>, legacy' = <<>>, id = RestartNumber, "meta" \in tables
      PROVE  GetVersion' = start.version
  <2>1. \A r \in meta : r.id \in Nat /\ r.id < id
    BY <1>1, <1>6, VersionIsNat DEF VersionFacts
  <2>2. meta' = meta \cup {new}
    BY <1>6, <2>1 DEF InsertMeta, new
  <2>3. \A s \in meta' : ~(s.id > new.id)
    BY <1>2, <2>1, <2>2
  <2>4. \A r \in meta' : r # new => new.id > r.id
    BY <1>2, <2>1, <2>2
  <2>5. (CHOOSE r \in meta' : ~(\E s \in meta' : s.id > r.id)) = new
    BY <2>2, <2>3, <2>4
  <2>6. GetVersion' = (CHOOSE r \in meta' : ~(\E s \in meta' : s.id > r.id)).version
    BY <1>6, <2>2 DEF GetVersion, Newer
  <2> QED
    BY <1>2, <2>5, <2>6
<1> QED
  BY <1>4, <1>5, <1>6

LEMMA StepUpdateVersion == ASSUME StartInv, UpdateVersion PROVE StartInv' /\ VersionStep
<1>1. UNCHANGED <<exists, tables, indices, legacy, crashes>> /\ start.pc = "record"
  BY DEF UpdateVersion, schema
<1>2. faults' \in 0 .. MaxFaults
  BY StartFault DEF UpdateVersion, StartInv, StartTypeOK
<1>3. /\ LegacyRow(legacy') /\ start.version \in Nat
      /\ StartTypeOK /\ HasNewest(meta)
  BY <1>1 DEF StartInv, StartTypeOK, VersionSoFar
<1>4. GetVersion \in Nat /\ RestartNumber \in Nat \ {0}
  BY <1>3, VersionIsNat DEF VersionFacts, StartTypeOK
<1>5. CASE InsertMeta(RestartNumber) /\ Goto("threads", 0)
  <2>1. /\ meta' \subseteq [id : Nat \ {0}, version : Nat] /\ HasNewest(meta')
        /\ (legacy = <<>> /\ "meta" \in tables) => GetVersion' = start.version
    BY <1>1, <1>3, <1>4, <1>5, Inserted
  <2>2. /\ StartTypeOK' /\ SchemaSoFar'
        /\ start'.pc = "threads" /\ start'.version = start.version
        /\ ~start'.failed => ~start.failed
    BY <1>1, <1>2, <1>3, <1>5, <2>1, SchemaStays DEF PastIndices
  <2>l. LegacyStays' <=> LegacyStays
    BY <1>1 DEF LegacyStays
  <2>3. ASSUME ~start'.failed
        PROVE  /\ GetVersion' >= GetVersion
               /\ legacy' = <<>> \/ LegacyStays'
               /\ GetVersion' >= start.version \/ LegacyStays'
    <3>1. (legacy = <<>> \/ LegacyStays) /\ start.version > GetVersion
      BY <1>1, <2>2, <2>3 DEF StartInv, VersionSoFar
    <3>2. "meta" \in tables
      BY <1>1, <2>2, <2>3, ListFacts DEF StartInv, SchemaSoFar, PastTables, PastIndices
    <3>3. CASE legacy = <<>>
      BY <1>1, <1>3, <1>4, <2>1, <3>1, <3>2, <3>3
    <3>4. CASE LegacyStays
      <4>1. GetVersion = 0 /\ GetVersion' = 0
        BY <1>1, <3>4 DEF LegacyStays, GetVersion
      <4> QED
        BY <1>1, <2>l, <3>4, <4>1
    <3> QED
      BY <3>1, <3>3, <3>4
  <2> QED
    BY <1>3, <1>4, <2>1, <2>2, <2>3 DEF StartInv, VersionSoFar, VersionStep
<1>6. CASE (InsertMeta(1) \/ UNCHANGED meta) /\ GotoFailed("threads", 0)
  <2>1. meta' \subseteq [id : Nat \ {0}, version : Nat] /\ HasNewest(meta')
    <3>1. CASE InsertMeta(1)
      BY <1>3, <3>1, Inserted
    <3>2. CASE UNCHANGED meta
      BY <1>3, <3>2 DEF StartTypeOK
    <3> QED
      BY <1>6, <3>1, <3>2
  <2>2. StartTypeOK' /\ SchemaSoFar'
    BY <1>1, <1>2, <1>3, <1>6, <2>1, SchemaStays DEF PastIndices
  <2>3. start'.failed
    BY <1>3, <1>6 DEF GotoFailed, StartTypeOK
  <2> QED
    BY <2>1, <2>2, <2>3 DEF StartInv, VersionSoFar, VersionStep
<1> QED
  BY <1>5, <1>6 DEF UpdateVersion

LEMMA StepStartThreads == ASSUME StartInv, StartThreads PROVE StartInv' /\ VersionStep
<1>1. UNCHANGED <<exists, tables, indices, meta, legacy, crashes, faults>> /\ start.pc = "threads"
  BY DEF StartThreads, schema
<1>2. /\ meta' \subseteq [id : Nat \ {0}, version : Nat] /\ LegacyRow(legacy')
      /\ faults' \in 0 .. MaxFaults
  BY <1>1 DEF StartInv, StartTypeOK
<1>3. GetVersion' = GetVersion /\ GetVersion \in Nat
  BY <1>1, SameVersion, VersionIsNat DEF VersionFacts, StartInv, StartTypeOK, VersionSoFar
<1>4. /\ StartTypeOK' /\ SchemaSoFar'
      /\ start'.pc = "running" /\ start'.version = start.version
      /\ ~start'.failed => ~start.failed
  BY <1>1, <1>2, SchemaStays DEF PastIndices, StartThreads
<1> QED
  BY <1>1, <1>3, <1>4 DEF StartInv, VersionSoFar, VersionStep, LegacyStays

LEMMA StepCrashStart == ASSUME StartInv, CrashStart PROVE StartInv' /\ VersionStep
<1>1. UNCHANGED <<exists, tables, indices, meta, legacy, faults>> /\ start' = Down
  BY DEF CrashStart, schema
<1>2. crashes' \in 0 .. MaxCrashes
  BY StartAssumption DEF CrashStart, StartInv, StartTypeOK
<1>3. GetVersion' = GetVersion /\ GetVersion \in Nat
  BY <1>1, SameVersion, VersionIsNat DEF VersionFacts, StartInv, StartTypeOK, VersionSoFar
<1>4. start' \in [pc : Pcs, step : Nat, version : Nat, failed : BOOLEAN] /\ start'.pc = "down"
  BY <1>1 DEF Down, Pcs
<1>5. StartTypeOK'
  BY <1>1, <1>2, <1>4 DEF StartInv, StartTypeOK
<1>6. SchemaSoFar'
  BY <1>4 DEF SchemaSoFar, PastTables, PastIndices
<1>7. VersionSoFar' /\ VersionStep
  BY <1>1, <1>3, <1>4 DEF StartInv, VersionSoFar, VersionStep
<1> QED
  BY <1>5, <1>6, <1>7 DEF StartInv

(***************************************************************************)
(* Every step of init, and a crash at any place of it, preserves what is   *)
(* known of the schema and of the version.                                 *)
(***************************************************************************)
LEMMA StartStep == ASSUME StartInv, StartNext \/ CrashStart PROVE StartInv' /\ VersionStep
BY StepOpen, StepOpenFails, StepCreateDb, StepEnsureTable, StepEnsureIndex, StepReadLegacy,
   StepRemoveLegacy,
   StepReadVersion, StepUpdateVersion, StepStartThreads, StepCrashStart DEF StartNext

(***************************************************************************)
(* A step of the running process that may add tables and indices, and in   *)
(* which queries may fail, preserves it too.                               *)
(***************************************************************************)
LEMMA StartRests ==
    ASSUME StartInv, UNCHANGED <<exists, meta, legacy, start, crashes>>,
           tables \subseteq tables', tables' \subseteq tables \cup {"wallets_top"},
           indices \subseteq indices', indices' \subseteq indices \cup {<<"wallets_top", "position">>},
           UNCHANGED faults \/ Fault
    PROVE  StartInv' /\ VersionStep
<1>1. GetVersion' = GetVersion /\ GetVersion \in Nat
  BY SameVersion, VersionIsNat DEF VersionFacts, StartInv, StartTypeOK, VersionSoFar
<1>2. faults' \in 0 .. MaxFaults
  BY StartFault DEF StartInv, StartTypeOK
<1>3. StartTypeOK'
  BY <1>2 DEF StartInv, StartTypeOK
<1>4. SchemaSoFar'
  BY DEF StartInv, SchemaSoFar, PastTables, PastIndices
<1>5. VersionSoFar' /\ VersionStep
  BY <1>1 DEF StartInv, VersionSoFar, VersionStep, LegacyStays
<1> QED
  BY <1>3, <1>4, <1>5 DEF StartInv

(* What the invariant says of a running indexer. *)
LEMMA SchemaFromInv == StartInv => SchemaComplete
BY DEF StartInv, SchemaSoFar, SchemaComplete, PastTables, PastIndices
===============================================================================
