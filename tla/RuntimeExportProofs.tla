------------------------- MODULE RuntimeExportProofs -------------------------
(***************************************************************************)
(* runtime_data.json is never torn, and an orderly shutdown leaves the last *)
(* metadata in it, for every number of changes and every interval.          *)
(***************************************************************************)
EXTENDS RuntimeExport, TLAPS

(* The file, and the one it replaced, are complete and on the disk.          *)
PathOnDisk ==
  /\ path.synced /\ path.content # Torn
  /\ renamed.synced /\ renamed.content # Torn

(* A running export writes the present metadata; what it has reached in the  *)
(* temporary file; when the last export is over the file holds them.         *)
ExportProgress ==
  process = "running" =>
    /\ step # "idle" => data = version
    /\ step \in {"sync_all", "rename"} => tmp.content = data
    /\ step = "rename" => tmp.synced
    /\ step = "end" => path.content = version

(* The inductive invariant. *)
IInv == TypeOK /\ PathOnDisk /\ ExportProgress /\ ShutdownExportsLast

USE ExportAssumption

(* The first run finds no file. *)
LEMMA InitIInv == Init => IInv
<1> SUFFICES ASSUME Init PROVE IInv
  OBVIOUS
<1>1. TypeOK
  <2>1. absent \in [content : 0..version \union {NoFile, Torn}, synced : BOOLEAN]
    BY DEF absent
  <2>2. version \in 0..MaxVersion /\ data \in 0..version /\ age \in 0..Interval
    BY DEF Init
  <2> QED BY <2>1, <2>2 DEF Init, TypeOK
<1>2. PathOnDisk /\ ExportProgress /\ ShutdownExportsLast
  BY DEF Init, absent, PathOnDisk, ExportProgress, ShutdownExportsLast
<1> QED BY <1>1, <1>2 DEF IInv

(* The start of an export leaves the files alone. *)
LEMMA BeginStep ==
  IInv /\ (StateChanges \/ ExploreExport \/ ForcedExport \/ Shutdown) => IInv'
<1> SUFFICES ASSUME IInv, StateChanges \/ ExploreExport \/ ForcedExport \/ Shutdown PROVE IInv'
  OBVIOUS
<1> USE DEF StateChanges, ExploreExport, ForcedExport, Shutdown, Idle, build_runtime_data,
            final_export
<1>1. version' \in 0..MaxVersion /\ version <= version' /\ data' \in 0..version'
  BY DEF IInv, TypeOK
<1>2. UNCHANGED <<tmp, path, renamed, age, process>> /\ process = "running"
  OBVIOUS
<1>3. {tmp, path, renamed} \subseteq [content : 0..version' \union {NoFile, Torn}, synced : BOOLEAN]
  BY <1>1 DEF IInv, TypeOK
<1>4. TypeOK'
  BY <1>1, <1>2, <1>3 DEF IInv, TypeOK
<1>5. (PathOnDisk /\ ShutdownExportsLast)'
  BY <1>2 DEF IInv, PathOnDisk, ShutdownExportsLast
<1>6. ExportProgress'
  BY <1>2 DEF IInv, ExportProgress
<1> QED BY <1>4, <1>5, <1>6 DEF IInv

(* write_atomic: the file changes in the rename only, and takes a temporary  *)
(* file that is complete and synced.                                         *)
LEMMA WriteStep == IInv /\ (write_atomic \/ End) => IInv'
<1> SUFFICES ASSUME IInv, write_atomic \/ End PROVE IInv'
  OBVIOUS
<1> USE DEF write_atomic, synced_tmp, last_export_now
<1>1. CASE Create \/ Write \/ SyncAll
  <2> USE <1>1 DEF Create, Write, SyncAll
  <2>1. tmp' \in [content : 0..version \union {NoFile, Torn}, synced : BOOLEAN]
    <3>1. tmp \in [content : 0..version \union {NoFile, Torn}, synced : BOOLEAN] /\ data \in 0..version
      BY DEF IInv, TypeOK
    <3>2. CASE Create
      BY <3>2
    <3>3. CASE Write
      BY <3>1, <3>3
    <3>4. CASE SyncAll
      BY <3>1, <3>4
    <3> QED BY <3>2, <3>3, <3>4
  <2>2. TypeOK'
    BY <2>1 DEF IInv, TypeOK
  <2>3. (PathOnDisk /\ ShutdownExportsLast)'
    BY DEF IInv, PathOnDisk, ShutdownExportsLast
  <2>4. ExportProgress'
    BY DEF IInv, TypeOK, ExportProgress
  <2> QED BY <2>2, <2>3, <2>4 DEF IInv
<1>2. CASE Rename
  <2> USE <1>2 DEF Rename
  <2>1. tmp.synced /\ tmp.content = version /\ tmp.content # Torn
    BY DEF IInv, TypeOK, ExportProgress
  <2>2. absent \in [content : 0..version \union {NoFile, Torn}, synced : BOOLEAN]
    BY DEF absent
  <2>3. TypeOK'
    BY <2>2 DEF IInv, TypeOK
  <2>4. (PathOnDisk /\ ShutdownExportsLast)'
    BY <2>1 DEF IInv, PathOnDisk, ShutdownExportsLast
  <2>5. ExportProgress'
    BY <2>1 DEF IInv, ExportProgress
  <2> QED BY <2>3, <2>4, <2>5 DEF IInv
<1>3. CASE End
  BY <1>3 DEF End, IInv, TypeOK, PathOnDisk, ExportProgress, ShutdownExportsLast
<1> QED BY <1>1, <1>2, <1>3

(* An error, a tick, a crash of the target, a kill and a new run leave the   *)
(* file alone.                                                               *)
LEMMA OtherStep ==
  IInv /\ (IoError \/ Tick \/ TargetCrash \/ Kill \/ NewRun) => IInv'
<1> SUFFICES ASSUME IInv, IoError \/ Tick \/ TargetCrash \/ Kill \/ NewRun PROVE IInv'
  OBVIOUS
<1>1. CASE IoError \/ Tick \/ TargetCrash \/ Kill
  <2> USE <1>1 DEF IoError, build_runtime_data, Tick, TargetCrash, Idle, Kill
  <2>1. UNCHANGED <<version, exploring, tmp, path, renamed>> /\ age' \in 0..Interval
    BY DEF IInv, TypeOK
  <2>2. data' \in 0..version /\ final' \in BOOLEAN
    <3>1. version \in 0..version /\ data \in 0..version /\ final \in BOOLEAN
      BY DEF IInv, TypeOK
    <3>2. data' \in {data, version} /\ final' \in {final, TRUE}
      BY <2>1
    <3> QED BY <3>1, <3>2
  <2>3. /\ process' \in {"running", "failed", "killed"}
        /\ step' \in {"idle", "create", "write", "sync_all", "rename", "end"}
    BY DEF IInv, TypeOK
  <2>4. TypeOK'
    BY <2>1, <2>2, <2>3 DEF IInv, TypeOK
  <2>5. (PathOnDisk /\ ShutdownExportsLast)'
    BY <2>1, <2>3 DEF IInv, PathOnDisk, ShutdownExportsLast
  <2>6. ExportProgress'
    BY <2>1 DEF IInv, ExportProgress
  <2> QED BY <2>4, <2>5, <2>6 DEF IInv
<1>2. CASE NewRun
  <2> USE <1>2 DEF NewRun
  <2>1. version' \in 0..MaxVersion /\ data' \in 0..version' /\ age' \in 0..Interval
    BY DEF IInv, TypeOK
  <2>2. {tmp, path, renamed} \subseteq [content : 0..version' \union {NoFile, Torn}, synced : BOOLEAN]
    BY DEF IInv, TypeOK
  <2>3. TypeOK'
    BY <2>1, <2>2 DEF IInv, TypeOK
  <2>4. (PathOnDisk /\ ExportProgress /\ ShutdownExportsLast)'
    BY DEF IInv, PathOnDisk, ExportProgress, ShutdownExportsLast
  <2> QED BY <2>3, <2>4 DEF IInv
<1> QED BY <1>1, <1>2

(* A loss of power can take the rename back, to a file that is complete too. *)
LEMMA PowerLossStep == IInv /\ PowerLoss => IInv'
<1> SUFFICES ASSUME IInv, PowerLoss PROVE IInv'
  OBVIOUS
<1> USE DEF PowerLoss
<1>1. path' \in {path, renamed} /\ renamed' = path'
  BY DEF IInv, PathOnDisk
<1>2. tmp' \in {tmp, path, [content |-> Torn, synced |-> TRUE]}
  BY DEF IInv, PathOnDisk
<1>3. TypeOK'
  <2>1. [content |-> Torn, synced |-> TRUE] \in [content : 0..version \union {NoFile, Torn},
                                                 synced : BOOLEAN]
    OBVIOUS
  <2>2. {tmp', path', renamed'} \subseteq [content : 0..version \union {NoFile, Torn},
                                           synced : BOOLEAN]
    BY <1>1, <1>2, <2>1 DEF IInv, TypeOK
  <2>3. UNCHANGED <<version, exploring, step, final, data, age>> /\ process' = "killed"
    OBVIOUS
  <2> HIDE DEF PowerLoss
  <2> QED BY <2>2, <2>3 DEF IInv, TypeOK
<1>4. (PathOnDisk /\ ExportProgress /\ ShutdownExportsLast)'
  BY <1>1 DEF IInv, PathOnDisk, ExportProgress, ShutdownExportsLast
<1> QED BY <1>3, <1>4 DEF IInv

(* Every step preserves the invariant. *)
LEMMA NextIInv == IInv /\ [Next]_vars => IInv'
<1> SUFFICES ASSUME IInv, [Next]_vars PROVE IInv'
  OBVIOUS
<1>1. CASE UNCHANGED vars
  BY <1>1 DEF vars, IInv, TypeOK, PathOnDisk, ExportProgress, ShutdownExportsLast
<1> QED BY <1>1, BeginStep, WriteStep, OtherStep, PowerLossStep DEF Next

(* The inductive invariant holds in every behaviour. *)
THEOREM ExportInvariant == Spec => []IInv
BY InitIInv, NextIInv, PTL DEF Spec

(* A reader of runtime_data.json finds no file or a complete one, whatever   *)
(* step of write_atomic an error, a kill or a loss of power interrupts.      *)
THEOREM ExportNeverTorn == Spec => []NeverTorn
<1>1. IInv => NeverTorn
  BY DEF IInv, PathOnDisk, NeverTorn
<1> QED BY <1>1, ExportInvariant, PTL

(* The export after fuzz_loop leaves the last metadata in the file. *)
THEOREM ShutdownAlwaysExportsLast == Spec => []ShutdownExportsLast
<1>1. IInv => ShutdownExportsLast
  BY DEF IInv
<1> QED BY <1>1, ExportInvariant, PTL
==============================================================================
