# A TLA+ model of BOFuzz

BOFuzz is a coverage-guided in-process fuzzer on LibAFL that schedules its
corpus by static features of the program. This directory holds TLA+ modules of
its scheduling and learning core, the TLC configurations that check them, and
TLAPS proofs of the main invariants.

Paths below are relative to `src/fuzzers/inprocess/bofuzz/src/` (BOFuzz) or to
`src/libafl/src/` (LibAFL).

## The system

One thread runs `fuzz_one` for ever: the scheduler chooses a testcase
(`MinimizerScheduler` over `WeightedScheduler`), then the stages calibration,
tracing, `feat_stage` (accounting, which is skipped: see below),
input-to-state, power (mutation) and `tpe_stage` work on it (`lib.rs:1252`). A testcase that shows new coverage
enters the corpus through feedbacks that also move the frontier and give
credit to features. A second thread, started by the TPE stage, computes the
weights of the whole corpus from a snapshot and sends them back on a channel.

When the target crashes or times out the process ends. Its state (corpus and
all metadata) is handed to the next child; everything else (stages, scheduler
objects, the worker) is built anew.

The learning goes through four phases. While *Explore* lasts, credits are
collected. At its end the mask of active features and the first weight vector
are committed. Each vector is then put into effect by a recompute
(*PendingRecompute*), measured for one period (*ActiveWindow*) by the edges it
gains, and followed by the next suggestion of the TPE optimizer; when there is
none the best one is locked (*LockedBest*) until no edge has been found for
long enough.

### Inventory

| Part | Source | Module |
|---|---|---|
| TPE stage | `feature_sched/tpe_stage.rs` | `TpeStage` |
| TPE optimizer, candidate pool | `feature_sched/tpe.rs` | `TpeOptimizer` |
| Recompute and publication of weights | `feature_sched/weight_refresh.rs`, `factor.rs`, `stats.rs` | `WeightScheduling` |
| Accounting stage (its `perform` never runs) | `feature_sched/accounting_stage.rs` | `WeightScheduling` |
| Alias table scheduler | LibAFL `schedulers/weighted.rs` | `AliasTable`, `WeightScheduling` |
| Minimizer scheduler | LibAFL `schedulers/minimizer.rs` | `Minimizer` |
| Frontier, credits | `feature_sched/sancov_index_feedback.rs`, `frontier.rs`, `frontier_credit_feedback.rs` | `CreditMask` |
| Mask selection, commit, resume | `feature_sched/mask_selection.rs`, `tpe_stage.rs`, `features_map.rs`, `lib.rs` | `CreditMask` |
| Runtime data export | `feature_sched/runtime_data.rs` | `RuntimeExport` |
| Restart, stage order | LibAFL `events/simple.rs`, `fuzzer/mod.rs`, `stages/mod.rs` | the `Restart` actions |
| Calibration | LibAFL `stages/calibrate.rs` | its effects in `CreditMask`, `Minimizer` |
| File validation, scores, state restorer | `features_map.rs`, LibAFL `schedulers/testcase_score.rs`, `libafl_bolts/src/staterestore.rs` | planned |
| Mutators, monitor, compiler wrappers, feature extraction | | not modelled |

`PROJECT.json` lists every part with its status, the source lines of every
definition, and the hazards the properties were chosen for.

## The modules

**TpeOptimizer** holds the operators of the optimizer: the trial history
(merge, capacity, persist, restore), the good/bad split, the candidate pool
and `suggest_next`. A vector is a model value; `Cell` groups the vectors that
the coarse tolerance of the pool identifies. What a random sample or a kernel
density round returns is any vector; the conditions under which a round gives
up are those of the code.

**TpeStage** is the state machine of `TpeStage::perform`, one action per way
through it. `meta`, `globals`, `mask`, `hist`, `published` and `edges` are
metadata and survive `Restart`; `opt` and `worker` are fields of the stage and
do not. `WorkerSend` and `WorkerPanic` are the thread, `NewCoverage` the rest
of the fuzz loop, `Tick` the clock. Time stamps are ages, counted up to the
threshold they are compared with. The stage is modelled for a run with a
feature map, a feature mode other than 0 and TPE switched on: otherwise
`perform` returns at once (line 535).

**CreditMask** goes from coverage to the mask. `AddTestcase` is the chain of
`append_metadata` calls for one testcase, `Calibrate` marks flaky indexes as
seen, `CommitInitialization` is the commit in all three mask modes,
`CloseWindow` the later vectors, `Restart` the validation and reinstallation by
`initialize_vec_mask_state`. Sites, feature map and control flow graph are
constants; credits are exact fractions counted in units of `1/Scale`.

**WeightScheduling** composes the snapshot, worker, publication and scheduler
over the stages of `fuzz_one`. A weight is the iteration it was computed for,
and a factor the iteration of the weights it was computed from, or 0 for the
neutral factor. The accounting stage is passed through without effect
(`FeatStageSkipped`): its `should_restart` returns `Ok(false)`
(`accounting_stage.rs:186`), and `perform_restartable` calls `perform` only when
it returns true (`stages/mod.rs:119`). A publication is therefore the only step
that writes a factor.

**AliasTable** builds the alias table one loop iteration per step; each
floating point result may be off by `ulp`.

**Minimizer** is `update_score` and `cull`, with every order of the hash map
and with calibration changing scores between them.

**RuntimeExport** is `maybe_export_runtime_data` and `write_atomic`, one action
per system call, with I/O errors, kills, loss of power and new runs on the same
directory. A file remembers whether its content is on the disk; a loss of power
may tear content that is not, and may undo the last rename.

`MCTpeStage` and `MCCreditMask` define the small instances. The other modules
take plain numbers and are checked directly. Definitions with a comment
"Defect:" are plausible wrong versions of the definition that follows; no
specification uses them, and each makes the property named for it in
`PROJECT.json` fail.

## What TLC checks

| Run | Module, configuration | States | Checks |
|---|---|---|---|
| `tpe_stage` | `MCTpeStage`, `TpeStage.cfg` | 345,723 | `TypeOK`, `WorkerIsCurrent`, `WindowMeasuresPublished`, `HistoryDurable`, `TrialsAreOlder`, `InitialCandidateExists`, `FirstVectorIsInitial` |
| `tpe_stage_live` | `MCTpeStage`, `TpeStageLive.cfg` | 73,940 | `FeaturesGetEnabled`, `WindowsClose` |
| `credit_mask` | `MCCreditMask`, `CreditMask.cfg` | 53,074 | `TypeOK`, `FrontierReflectsCorpus`, `NoEdgeCreditedTwice`, `CommittedMaskIsTopK`, `NeverInconsistent`, `ExportCoordinatesMatch`, `MaskImmutable` |
| `weight_scheduling` | `WeightScheduling.cfg` | 2,872 | `TypeOK`, `TableHoldsCorpus`, `PicksFollowPublication`, `WeightsOfOnePublication`, `FactorsAreCurrent`, `PublicationReachesTable` |
| `alias_table` | `AliasTable.cfg` | 72,088 | `TypeOK`, `NoMissingAlias`, `StacksHoldTheRest`, `DrawsAreProportional`, `TableGetsRebuilt` |
| `minimizer` | `Minimizer.cfg` | 309,519 | `TypeOK`, `TopRatedCover`, `RefcntCountsIndexes`, `NeverFails`, `FavoredCoverCorpus` |
| `runtime_export` | `RuntimeExport.cfg` | 6,501 | `TypeOK`, `NeverTorn`, `ShutdownExportsLast`, `ExploreReachesFile` |
| `explore_help` | `MCTpeStage`, `TpeStageExploreHelp.cfg` | | `FeaturesEnabledAfterExplore`, violated |
| `period_help` | `MCTpeStage`, `TpeStagePeriodHelp.cfg` | | `WindowMeasuresCurrent`, violated |
| `first_publication` | `WeightSchedulingFirst.cfg` | | `TableCarriesPublished`, violated |

What the passing runs show:

- *Learning.* A live worker always belongs to the current iteration and
  vector, so the branches for a stale result and a second worker are never
  taken. A window whose recompute no restart cut short records the vector
  that is in effect, no observed trial is lost in a crash, and the renumbering
  of trials on a restore never merges two of them in such a window. The first
  vector is the one the documentation promises, and the stage never stops for
  want of one. Exploring ends with enabled features and every window is
  closed, apart from the losses the properties name.
- *Credits and mask.* The frontier is that of the corpus although calibration
  changes one of the two coverage records only; no edge is credited twice; the
  committed mask is the top k of the credits, is never changed, and passes
  every check of a resume.
- *Scheduling.* No pick uses a table that lacks a testcase or is older than
  the last publication. Weights and factors of two publications never mix, and
  the factors of one publication are all neutral or all scaled.
  The alias table draws in proportion to the weights, and rounding never
  leaves an entry without an alias it needs. Favored testcases cover the
  corpus, and reference counts are exact.
- *Export.* The file is replaced as a whole, whatever fails.

### Three disagreements

- *A restart in the first recompute* (`explore_help`). The restarted stage has
  no worker and a vector, so it resumes in ActiveWindow, where the start time
  is still missing: every later `perform` returns at once and the features
  stay disabled for the rest of the run, against the help of
  `--explore-time-secs` (`lib.rs:533`).
- *A restart in a later recompute* (`period_help`). The stage resumes in the
  window before, whose period has passed, and records for the new vector,
  which was never in effect, what the old one gained, against the help of
  `--tpe-period-secs` (`lib.rs:540`).
- *The first publication* (`first_publication`). The factors are computed
  before the features are enabled, so they are neutral, and the alias table
  rebuilt for the first window carries none of the published weights, against
  the report of `tpe_stage.rs:593`. Nothing corrects them before the next
  publication: the accounting stage, which would, never performs, and a rebuild
  for a new testcase finds the same neutral factors.

### Bounds

- TPE stage: three vectors, two of them in one cell, so that the coarse and
  the fine tolerance disagree; a candidate file of two vectors or none; a
  history of two trials, so that it overflows; four iterations, so that a
  restored history meets a later window; every threshold is one tick; a map of
  two indexes, so that a window gains nothing, something or everything. The
  liveness run has two vectors in two cells.
- Credits: three sites and three features. One feature map makes the credits
  depend on the path, the other one has ties and a site without credit.
- Scheduling: three testcases and three publications, so that a testcase can
  appear before, during and after a recompute.
- Alias table: three testcases with weights up to 3 and errors of 0 or 1.
- Minimizer: three indexes, three testcases, two scores.
- Export: three changes and an interval of two ticks.

Bounds on counters (`MaxIteration`, `MaxCorpus`, `MaxVersion`) are guards: a
behaviour that reaches one stops counting. The liveness properties say so where
it matters. No run uses symmetry. Deadlock is checked in every passing run.

### Fairness

- `TpeStage`: weak fairness of `perform`, `Tick` and `WorkerSend`. `fuzz_loop`
  calls the stage in every pass, every stage returns, and an interrupted pass
  is resumed at the stage it had reached, so restarts do not starve it; the
  worker is a finite loop in its own thread. `WorkerPanic`, `Restart` and
  `NewCoverage` are not fair.
- `WeightScheduling`: weak fairness of the steps of `fuzz_one`, for the same
  reason; the worker need not answer.
- `AliasTable`: weak fairness of the construction, a loop of one thread.
- `RuntimeExport`: weak fairness of the steps of an export, of the explore
  phase's calls and of the clock.

## What is proved

The proofs hold for every value of the constants that satisfies the named
assumptions of the modules: thresholds and bounds are natural numbers, `None`
and its like differ from the values they stand beside, candidate files hold
vectors.

**TpeStageProofs**, with lemmas of **TpeOptimizerProofs** on what each operator
returns and preserves. The inductive invariant `IInv` joins the checked
invariants with what they rest on: `Fresh` (a stage with a worker has restored
its optimizer), `Exploring` and `Learning` (what is undecided before the commit
and decided after it), `PublishedWindow`, `Numbering` (the pending iteration is
the current one, the start edges are at most the edges) and `HistoryNumbered`.
The last one is the heart of `TrialsAreOlder`: there are never more trials than
observed iterations, so the indexes a restore numbers them with stay below the
current iteration. One lemma per action shows that it is preserved. Proved from
it: `TypeCorrect`, `WorkerCurrent`, `Durable`, `WindowsMeasurePublished`,
`OlderTrials` and `InitialVector`.

**WeightSchedulingProofs**. `WeightsOfOnePublication` alone is not inductive: a
publication could leave an old weight outside its snapshot.
`SnapshotHoldsWeights` says that a snapshot holds every testcase with a weight,
`WeightsInCorpus` that only testcases of the corpus have one, and
`TableIsFresh` that a table that is neither invalidated nor dirty is that of the
last publication. `FactorsAreCurrent` follows for a publication because all its
factors are computed from one `features_active`, one set of statistics and
weights of one iteration, and because no testcase outside the snapshot has a
weight or a factor. Proved: the type invariant and the four safety invariants of
the run.

**RuntimeExportProofs**. `PathOnDisk` says that the file and the one it replaced
are complete and synced, `ExportProgress` what an export under way has reached.
Proved: `ExportNeverTorn` and `ShutdownAlwaysExportsLast`.

Only model-checked: all liveness properties (the prover has no rule for
fairness), and the properties of `CreditMask`, `AliasTable` and `Minimizer`,
which rest on sums, sorting and folds over data.

## What is not modelled

- The real arithmetic of weights, factors, kernel densities and power
  schedules, and with it the assertion that a weight is normal
  (`schedulers/testcase_score.rs:391`).
- The parsing and validation of the JSON files, the command line, the monitor
  and the reports.
- The handshake of parent and child in `events/simple.rs` and
  `staterestore.rs`: a restart is one step. A child that leaves no state ends
  the run.
- The body of `FeaturesAccountingStage::perform`, which the program never calls.
- Mutators, input-to-state and tracing, whose only effect here is which
  testcases are added; `libafl_cc`, and the offline feature extraction.

## Plan

In this order:

1. `TpeLifecycle`, an abstract specification of the learning (explore, one
   vector in effect at a time, each measured at most once), implemented by
   `TpeStage` outside the two restarts above, checked and proved.
2. Proofs of `MaskImmutable` and `NeverInconsistent` for `CreditMask`, and of
   the stack invariant of `AliasTable` and the reference counts of `Minimizer`.
3. `StateRestore`: parent, child, shared map and spilled file; the retry
   helpers of the stages and the resume of a pass.
4. Schema, mask, feature map and candidate file validation as operators,
   checked against the documented formats.
5. A composition of `TpeStage` with `WeightScheduling`, so that a restart in a
   recompute is seen together with the table and the factors.
