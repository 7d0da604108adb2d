---------------------------- MODULE RuntimeExport ----------------------------
(***************************************************************************)
(* runtime_data.json: when the TPE stage exports it, how write_atomic       *)
(* replaces it, and what a reader finds after an I/O error, a kill of the   *)
(* process or a loss of power at any step.  The metadata the file is built  *)
(* from are a version number; a new run after a kill continues the numbers, *)
(* so that they order the exports of all runs.                              *)
(***************************************************************************)
EXTENDS Integers

CONSTANTS MaxVersion,  \* bound on the changes of the exported metadata
          Interval,    \* RUNTIME_DATA_EXPORT_INTERVAL_SECS, in ticks
          NoFile, Torn \* content of a file that does not exist, or is incomplete

ASSUME ExportAssumption ==
  /\ MaxVersion \in Nat /\ Interval \in Nat \ {0}
  /\ NoFile \notin Nat /\ Torn \notin Nat /\ NoFile # Torn

VARIABLES version,    \* metadata of the state
          exploring,  \* TpePhase::Explore
          process,    \* what became of the fuzzer process
          step,       \* next step of maybe_export_runtime_data
          final,      \* the export after fuzz_loop
          data,       \* the RuntimeDataFile being written
          tmp, path,  \* the two files: content, and whether it is on the disk
          renamed,    \* what path was before the last rename
          age         \* ticks since last_export_ms; Interval also stands for 0

vars == <<version, exploring, process, step, final, data, tmp, path, renamed, age>>

absent == [content |-> NoFile, synced |-> TRUE]

(* RuntimeDataExportMeta is new at every start. *)
Init ==
  /\ version = 0 /\ exploring = TRUE
  /\ process = "running" /\ step = "idle" /\ final = FALSE /\ data = 0
  /\ tmp = absent /\ path = absent /\ renamed = absent
  /\ age = Interval

Idle == process = "running" /\ step = "idle" /\ ~final

build_runtime_data == step' = "create" /\ data' = version'

-----------------------------------------------------------------------------
(* A testcase is credited, a trial recorded, a phase entered. *)
StateChanges ==
  /\ Idle
  /\ version < MaxVersion
  /\ version' = version + 1
  /\ UNCHANGED <<exploring, process, step, final, data, tmp, path, renamed, age>>

(* Defect: the interval is never over. *)
NeverDue == age > Interval

due == age >= Interval

(* perform in the Explore phase: not forced. *)
ExploreExport ==
  /\ Idle
  /\ exploring
  /\ due
  /\ version' = version
  /\ build_runtime_data
  /\ UNCHANGED <<exploring, process, final, tmp, path, renamed, age>>

(* The commit, the end of a window and the retry of a locked optimizer       *)
(* change the metadata and force the export.                                 *)
ForcedExport ==
  /\ Idle
  /\ version < MaxVersion
  /\ version' = version + 1
  /\ exploring' = FALSE
  /\ build_runtime_data
  /\ UNCHANGED <<process, final, tmp, path, renamed, age>>

(* fuzz_loop returned. *)
(* Defect: the last export keeps to the interval. *)
UnforcedFinal == IF due THEN build_runtime_data ELSE step' = "end" /\ data' = data

final_export == build_runtime_data

Shutdown ==
  /\ Idle
  /\ final' = TRUE
  /\ version' = version
  /\ final_export
  /\ UNCHANGED <<exploring, process, tmp, path, renamed, age>>

-----------------------------------------------------------------------------
(* write_atomic *)

Create ==
  /\ process = "running" /\ step = "create"
  /\ tmp' = [content |-> Torn, synced |-> FALSE]
  /\ step' = "write"
  /\ UNCHANGED <<version, exploring, process, final, data, path, renamed, age>>

Write ==
  /\ process = "running" /\ step = "write"
  /\ tmp' = [content |-> data, synced |-> FALSE]
  /\ step' = "sync_all"
  /\ UNCHANGED <<version, exploring, process, final, data, path, renamed, age>>

(* Defect: the data is flushed to the kernel only. *)
FlushOnly == tmp

synced_tmp == [tmp EXCEPT !.synced = TRUE]

SyncAll ==
  /\ process = "running" /\ step = "sync_all"
  /\ tmp' = synced_tmp
  /\ step' = "rename"
  /\ UNCHANGED <<version, exploring, process, final, data, path, renamed, age>>

(* Defect: last_export_ms never passes the present. *)
AgeOverrun == age + 1

last_export_now == 0

Rename ==
  /\ process = "running" /\ step = "rename"
  /\ path' = tmp /\ tmp' = absent /\ renamed' = path
  /\ age' = last_export_now
  /\ step' = IF final THEN "end" ELSE "idle"
  /\ UNCHANGED <<version, exploring, process, final, data>>

End ==
  /\ process = "running" /\ step = "end"
  /\ process' = "shutdown"
  /\ UNCHANGED <<version, exploring, step, final, data, tmp, path, renamed, age>>

(* A step of the export fails: the error ends fuzz_loop, after which the     *)
(* export is tried once more.                                                *)
IoError ==
  /\ process = "running" /\ step \in {"create", "write", "sync_all", "rename"}
  /\ version' = version
  /\ IF final THEN process' = "failed" /\ UNCHANGED <<step, final, data>>
     ELSE process' = process /\ final' = TRUE /\ build_runtime_data
  /\ UNCHANGED <<exploring, tmp, path, renamed, age>>

-----------------------------------------------------------------------------
Tick ==
  /\ process = "running"
  /\ age < Interval
  /\ age' = age + 1
  /\ UNCHANGED <<version, exploring, process, step, final, data, tmp, path, renamed>>

(* The target crashes, between two exports: the state survives. *)
TargetCrash ==
  /\ Idle
  /\ age' = Interval
  /\ UNCHANGED <<version, exploring, process, step, final, data, tmp, path, renamed>>

Kill ==
  /\ process = "running"
  /\ process' = "killed"
  /\ UNCHANGED <<version, exploring, step, final, data, tmp, path, renamed, age>>

(* What was not synced may be gone, and so may the rename. *)
PowerLoss ==
  /\ process' = "killed"
  /\ LET lost(f) == IF f.synced THEN {f} ELSE {f, [content |-> Torn, synced |-> TRUE]}
     IN \/ tmp' \in lost(tmp) /\ path' \in lost(path) /\ renamed' = path'
        \/ tmp' \in lost(path) /\ path' \in lost(renamed) /\ renamed' = path'
  /\ UNCHANGED <<version, exploring, step, final, data, age>>

(* The fuzzer is started again on the same output directory. *)
NewRun ==
  /\ process # "running"
  /\ version < MaxVersion
  /\ version' = version + 1
  /\ process' = "running" /\ exploring' = TRUE /\ step' = "idle" /\ final' = FALSE
  /\ age' = Interval
  /\ UNCHANGED <<data, tmp, path, renamed>>

write_atomic == Create \/ Write \/ SyncAll \/ Rename

Next == StateChanges \/ ExploreExport \/ ForcedExport \/ Shutdown \/ write_atomic \/ End \/ IoError
        \/ Tick \/ TargetCrash \/ Kill \/ PowerLoss \/ NewRun

Spec == Init /\ [][Next]_vars

(* A running process goes on, and so does the clock. *)
FairSpec == Spec /\ WF_vars(write_atomic \/ End) /\ WF_vars(ExploreExport) /\ WF_vars(Tick)

-----------------------------------------------------------------------------
(* Properties. *)

(* Types of the files, the versions and the age. *)
TypeOK ==
  /\ version \in 0..MaxVersion /\ data \in 0..version
  /\ exploring \in BOOLEAN /\ final \in BOOLEAN
  /\ process \in {"running", "shutdown", "failed", "killed"}
  /\ step \in {"idle", "create", "write", "sync_all", "rename", "end"}
  /\ {tmp, path, renamed} \subseteq [content : 0..version \union {NoFile, Torn}, synced : BOOLEAN]
  /\ age \in 0..Interval

(* "BOFuzz writes <output_root>/runtime_data.json atomically": whatever      *)
(* fails at whatever step, a reader finds no file or a complete one.         *)
NeverTorn == path.content # Torn

(* After an orderly shutdown the file holds the last metadata of the run,    *)
(* until power is lost.                                                      *)
ShutdownExportsLast == process = "shutdown" => path.content = version

(* What the explore phase collects reaches the file, unless the process ends *)
(* before that.                                                              *)
ExploreReachesFile ==
  \A v \in 0..MaxVersion :
    (process = "running" /\ exploring /\ version = v)
      ~> (process # "running" \/ path.content \in v..MaxVersion)
=============================================================================
