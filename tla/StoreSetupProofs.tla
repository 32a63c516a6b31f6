-------------------------- MODULE StoreSetupProofs ---------------------------
(***************************************************************************)
(* Proofs about StoreSetup, for any number of processes.                   *)
(***************************************************************************)
EXTENDS StoreSetup, TLAPS

(* The tables a process has created, or seen complete, where it stands.    *)
Created(location) ==
  CASE location = "create_step_attempts" -> {"schema_version", "executions"}
    [] location = "create_notifications" ->
         {"schema_version", "executions", "step_attempts"}
    [] location \in {"insert_version", "ready"} -> Tables
    [] location \in {"select_version", "create_executions"} -> {"schema_version"}
    [] OTHER -> {}

Creating == {"create_executions", "create_step_attempts", "create_notifications",
             "insert_version", "ready"}

(* A version row says that a release finished, and a file whose version is *)
(* of none of the processes lets no process past select_version.           *)
Expected == VersionSet \subseteq {release[p] : p \in Procs}
Foreign  == (\E v \in Releases : VersionSet = {v}) /\ \A p \in Procs : at[p] \notin Creating

SetupInv ==
  /\ SetupTypeOK
  /\ \A p \in Procs : Created(at[p]) \subseteq tables
  /\ \A p \in Procs : at[p] = "ready" => release[p] \in VersionSet
  /\ VersionSet # {} => tables = Tables
  /\ Expected \/ Foreign

LEMMA SetupInitInv == SetupInit => SetupInv
<1> SUFFICES ASSUME SetupInit PROVE SetupInv
  OBVIOUS
<1>1. at = [p \in Procs |-> "create_version_table"] /\ tables \subseteq Tables
      /\ release \in [Procs -> Releases]
  BY DEF SetupInit, InitialFile, Tables, DataTables
<1>2. \/ versions = <<>>
      \/ \E v \in Releases : versions = <<v>> /\ tables = Tables
  BY DEF SetupInit, InitialFile
<1>3. versions \in Seq(Releases)
  <2>1. CASE versions = <<>>
    BY <2>1
  <2>2. ASSUME NEW v \in Releases, versions = <<v>>
        PROVE  versions \in Seq(Releases)
    BY <2>2
  <2> QED BY <1>2, <2>1, <2>2
<1>4. SetupTypeOK
  BY <1>1, <1>3 DEF SetupTypeOK, Locations
<1>5. VersionSet = {} \/ \E v \in Releases : VersionSet = {v} /\ tables = Tables
  BY <1>2 DEF VersionSet
<1>6. \A p \in Procs : at[p] \notin Creating /\ at[p] # "ready" /\ Created(at[p]) = {}
  BY <1>1 DEF Created, Creating
<1>7. Expected \/ Foreign
  BY <1>5, <1>6 DEF Expected, Foreign
<1> QED BY <1>4, <1>5, <1>6, <1>7 DEF SetupInv

(* A statement that creates a table.                                       *)
LEMMA CreateTableInv ==
  ASSUME SetupInv, NEW p \in Procs, NEW t \in Tables, NEW from, NEW to \in Locations,
         CreateTable(p, t, from, to),
         to \notin {"ready", "unsupported", "gone"},
         Created(to) \subseteq Created(from) \union {t},
         from \in Creating \/ to \notin Creating
  PROVE  SetupInv'
<1>1. /\ at[p] = from /\ at' = [at EXCEPT ![p] = to]
      /\ tables' = tables \union {t} /\ UNCHANGED <<versions, release>>
  BY DEF CreateTable, Goto
<1>2. SetupTypeOK'
  BY <1>1 DEF SetupInv, SetupTypeOK
<1>3. at'[p] = to /\ \A q \in Procs : q # p => at'[q] = at[q]
  BY <1>1 DEF SetupInv, SetupTypeOK
<1>4. \A q \in Procs : Created(at'[q]) \subseteq tables'
  <2> TAKE q \in Procs
  <2>1. CASE q = p
    BY <1>1, <1>3, <2>1 DEF SetupInv
  <2>2. CASE q # p
    BY <1>1, <1>3, <2>2 DEF SetupInv
  <2> QED BY <2>1, <2>2
<1>5. VersionSet' = VersionSet /\ (Expected => Expected')
  BY <1>1 DEF VersionSet, Expected
<1>6. VersionSet # {} => tables' = Tables
  BY <1>1 DEF SetupInv
<1>7. Foreign => Foreign'
  BY <1>1, <1>3, <1>5 DEF Foreign
<1>8. \A q \in Procs : at'[q] = "ready" => release'[q] \in VersionSet'
  BY <1>1, <1>3, <1>5 DEF SetupInv
<1> QED BY <1>2, <1>4, <1>5, <1>6, <1>7, <1>8 DEF SetupInv

LEMMA SelectVersionInv ==
  ASSUME SetupInv, NEW p \in Procs, SelectVersion(p)
  PROVE  SetupInv'
<1>1. UNCHANGED <<tables, versions, release>> /\ VersionSet' = VersionSet
  BY DEF SelectVersion, VersionSet, Goto
<1>2. PICK to \in {"create_executions", "ready", "unsupported"} :
        /\ at[p] = "select_version" /\ at' = [at EXCEPT ![p] = to]
        /\ to = "create_executions" => versions = <<>>
        /\ to = "ready" => release[p] \in VersionSet
  <2>1. CASE versions = <<>>
    BY <2>1 DEF SelectVersion, Goto
  <2>2. CASE versions # <<>>
    <3>1. PICK i \in DOMAIN versions :
            Goto(p, "select_version",
                 IF versions[i] = release[p] THEN "ready" ELSE "unsupported")
      BY <2>2 DEF SelectVersion
    <3> QED BY <2>2, <3>1 DEF Goto, VersionSet
  <2> QED BY <2>1, <2>2
<1>3. SetupTypeOK'
  BY <1>1, <1>2 DEF SetupInv, SetupTypeOK, Locations
<1>4. at'[p] = to /\ \A q \in Procs : q # p => at'[q] = at[q]
  BY <1>2 DEF SetupInv, SetupTypeOK
<1>5. Created(to) \subseteq tables
  <2>1. Created("select_version") \subseteq tables
    BY <1>2 DEF SetupInv
  <2>2. to = "ready" => tables = Tables
    BY <1>2 DEF SetupInv
  <2>3. Created("ready") = Tables /\ Created("unsupported") = {}
        /\ Created("create_executions") = Created("select_version")
    BY DEF Created
  <2> QED BY <1>2, <2>1, <2>2, <2>3
<1>6. Expected' \/ Foreign'
  <2>1. CASE Expected
    BY <1>1, <2>1 DEF Expected
  <2>2. CASE Foreign /\ to = "ready"
    <3>1. VersionSet = {release[p]}
      BY <1>2, <2>2 DEF Foreign
    <3> QED BY <1>1, <3>1 DEF Expected
  <2>3. CASE Foreign /\ to = "create_executions"
    <3>1. VersionSet = {}
      BY <1>2, <2>3 DEF VersionSet
    <3> QED BY <2>3, <3>1 DEF Foreign
  <2>4. CASE Foreign /\ to = "unsupported"
    BY <1>1, <1>4, <2>4 DEF Foreign, Creating
  <2> QED BY <2>1, <2>2, <2>3, <2>4 DEF SetupInv
<1>7. \A q \in Procs : at'[q] = "ready" => release'[q] \in VersionSet'
  BY <1>1, <1>2, <1>4 DEF SetupInv
<1>8. \A q \in Procs : Created(at'[q]) \subseteq tables'
  BY <1>1, <1>4, <1>5 DEF SetupInv
<1> QED BY <1>1, <1>3, <1>6, <1>7, <1>8 DEF SetupInv

LEMMA InsertVersionInv ==
  ASSUME SetupInv, NEW p \in Procs, InsertVersion(p)
  PROVE  SetupInv'
<1>1. /\ at[p] = "insert_version" /\ at' = [at EXCEPT ![p] = "ready"]
      /\ versions' = Append(versions, release[p]) /\ UNCHANGED <<tables, release>>
  BY DEF InsertVersion, Goto
<1>2. tables = Tables /\ Expected
  BY <1>1 DEF SetupInv, Created, Creating, SetupTypeOK, Foreign
<1>3. SetupTypeOK'
  BY <1>1 DEF SetupInv, SetupTypeOK, Locations
<1>4. at'[p] = "ready" /\ \A q \in Procs : q # p => at'[q] = at[q]
  BY <1>1 DEF SetupInv, SetupTypeOK
<1>5. VersionSet' = VersionSet \union {release[p]}
  BY <1>1 DEF SetupInv, SetupTypeOK, VersionSet
<1>6. Expected'
  BY <1>1, <1>2, <1>5 DEF Expected
<1>7. \A q \in Procs : at'[q] = "ready" => release'[q] \in VersionSet'
  BY <1>1, <1>4, <1>5 DEF SetupInv
<1>8. \A q \in Procs : Created(at'[q]) \subseteq tables'
  BY <1>1, <1>2 DEF Created, Tables, DataTables
<1> QED BY <1>1, <1>2, <1>3, <1>6, <1>7, <1>8 DEF SetupInv

LEMMA AbandonInv ==
  ASSUME SetupInv, NEW p \in Procs, Abandon(p)
  PROVE  SetupInv'
<1>1. at' = [at EXCEPT ![p] = "gone"] /\ UNCHANGED <<tables, versions, release>>
      /\ VersionSet' = VersionSet
  BY DEF Abandon, VersionSet
<1>2. SetupTypeOK'
  BY <1>1 DEF SetupInv, SetupTypeOK, Locations
<1>3. at'[p] = "gone" /\ \A q \in Procs : q # p => at'[q] = at[q]
  BY <1>1 DEF SetupInv, SetupTypeOK
<1>4. (Expected => Expected') /\ (Foreign => Foreign')
  BY <1>1, <1>3 DEF Expected, Foreign, Creating
<1> QED BY <1>1, <1>2, <1>3, <1>4 DEF SetupInv, Created

LEMMA SetupNextInv == SetupInv /\ [SetupNext]_setupVars => SetupInv'
<1> SUFFICES ASSUME SetupInv, [SetupNext]_setupVars PROVE SetupInv'
  OBVIOUS
<1> USE DEF Created, Creating, Locations, Tables, DataTables
<1>1. ASSUME NEW p \in Procs, SetupStep(p) PROVE SetupInv'
  <2>1. CASE CreateVersionTable(p)
    BY <2>1, CreateTableInv DEF CreateVersionTable
  <2>2. CASE SelectVersion(p)
    BY <2>2, SelectVersionInv
  <2>3. CASE CreateExecutions(p)
    BY <2>3, CreateTableInv DEF CreateExecutions
  <2>4. CASE CreateStepAttempts(p)
    BY <2>4, CreateTableInv DEF CreateStepAttempts
  <2>5. CASE CreateNotifications(p)
    BY <2>5, CreateTableInv DEF CreateNotifications
  <2>6. CASE InsertVersion(p)
    BY <2>6, InsertVersionInv
  <2> QED BY <1>1, <2>1, <2>2, <2>3, <2>4, <2>5, <2>6 DEF SetupStep
<1>2. ASSUME NEW p \in Procs, Abandon(p) PROVE SetupInv'
  BY <1>2, AbandonInv
<1>3. CASE UNCHANGED setupVars
  <2>1. UNCHANGED <<tables, versions, release, at>> /\ VersionSet' = VersionSet
    BY <1>3 DEF setupVars, VersionSet
  <2> QED BY <2>1 DEF SetupInv, SetupTypeOK, Expected, Foreign
<1> QED BY <1>1, <1>2, <1>3 DEF SetupNext, Finished

(* However the transactions of many processes fall together, a process has *)
(* passed the statements whose tables are there (persistence.py:332-407).   *)
THEOREM SetupKept == SetupSpec => []SetupInv
BY SetupInitInv, SetupNextInv, PTL DEF SetupSpec

(* However many processes, of whatever releases, initialise one file and   *)
(* die at it, one that comes out of initialize finds every table and the   *)
(* version of its own release.                                             *)
THEOREM ReadyStore == SetupSpec => []ReadyMeansUsable
<1>1. SetupInv => ReadyMeansUsable
  BY DEF SetupInv, ReadyMeansUsable, SetupTypeOK, Created
<1> QED BY <1>1, SetupInitInv, SetupNextInv, PTL DEF SetupSpec

(* Any number of processes of one release leave a file with one version.   *)
THEOREM OneReleaseOneVersion == SetupSpec => []OneVersionOnly
<1>1. SetupInv => OneVersionOnly
  <2> SUFFICES ASSUME SetupInv, \A p, q \in Procs : release[p] = release[q],
                      NEW i \in DOMAIN versions, NEW j \in DOMAIN versions
               PROVE  versions[i] = versions[j]
    BY DEF OneVersionOnly
  <2>1. versions[i] \in VersionSet /\ versions[j] \in VersionSet
    BY DEF VersionSet
  <2> QED BY <2>1 DEF SetupInv, Expected, Foreign
<1> QED BY <1>1, SetupInitInv, SetupNextInv, PTL DEF SetupSpec
=============================================================================
