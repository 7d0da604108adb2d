----------------------------- MODULE CreditMask -----------------------------
(***************************************************************************)
(* From coverage to the feature mask: every testcase that enters the corpus *)
(* runs SancovIndexFeedback and FrontierCreditFeedback, which move the      *)
(* frontier and credit the active features with the new edges; at the end   *)
(* of the explore phase the TPE stage turns the Explore credits into the    *)
(* committed mask and the first vector; a restart of the process validates  *)
(* and reinstalls what was committed.                                       *)
(*                                                                          *)
(* The two coverage maps (pc-guard hit counts and inline 8-bit counters)    *)
(* instrument the same sites and both wrap at 256, so an execution is the   *)
(* set of sites both maps show.  Features are numbered in schema order, a   *)
(* mask is the set of enabled ones, and a vector over the active features   *)
(* is a sequence.  Credits are counted in units of 1/Scale edge, with Scale *)
(* a multiple of every denominator, so that the shares are exact; the       *)
(* rounding of f64 is not modelled.                                         *)
(***************************************************************************)
EXTENDS Integers, SequencesExt

CONSTANTS Sites,        \* sancov sites: 0..n_sancov_sites-1
          SchemaDim,    \* number of features in features_schema.json
          FeatureMaps,  \* possible <target>_features_map.json files
          Acfgs,        \* possible <target>_sancov_acfg.json files
          Scale         \* credit units per edge

Schema == 1..SchemaDim

Total(f, S) == MapThenSumSet(LAMBDA x : f[x], S)

ASSUME CreditAssumption ==
  /\ SchemaDim \in Nat \ {0}
  /\ FeatureMaps \subseteq [Schema -> [Sites -> Nat]]
  /\ Acfgs \subseteq [successors : [Sites -> SUBSET Sites], predecessors : [Sites -> SUBSET Sites]]
  /\ \A m \in FeatureMaps :
       \A d \in 1..MapThenSumSet(LAMBDA f : Total(m[f], Sites), Schema) : Scale % d = 0

VARIABLES run,        \* command line and input files, the same at every start
          history,    \* MapFeedbackMetadata: indexes of the edge map seen so far
          corpus,     \* sites in some testcase's SancovIndexesMetadata
          last_covered_edges,
          frontier,   \* FrontierMeta
          phase,      \* TpeIterationMeta.phase; "Tuning" stands for the later three
          explore, runtime,  \* ExploreCreditMeta, RuntimeCreditMeta
          mask,       \* VecMaskRuntimeMeta
          globals,    \* FeatureGlobalsMeta
          matrix,     \* features in FeaturesMatrixMeta
          trial_dims, \* lengths of the vectors in TpeHistoryMeta
          stopped

vars == <<run, history, corpus, last_covered_edges, frontier, phase, explore, runtime,
          mask, globals, matrix, trial_dims, stopped>>

Modes == {"Full", "Explicit", "AutoCredit"}

VecMaskConfig ==
  [mode : Modes, explicit_mask : SUBSET Schema \ {{}}, credit_top_k : Schema,
   features_map : FeatureMaps, acfg : Acfgs, frontier : BOOLEAN, candidate_file : BOOLEAN]

FrontierMeta == [covered : SUBSET Sites, f_prev : SUBSET Sites, f_next : SUBSET Sites]

NoCredit == [credits |-> <<>>, total_delta_edges |-> 0]

active_feature_names == SetToSortSeq(globals.vec_mask, <)

active_dim == Cardinality(globals.vec_mask)

-----------------------------------------------------------------------------
(* Startup of a fresh run: initialize_vec_mask_state and the load of the      *)
(* feature map; a candidate file of another dimension ends the process.       *)
(* Defect: the bits of an explicit mask are inverted. *)
InvertedMask(r) == IF r.mode = "Explicit" THEN Schema \ r.explicit_mask ELSE Schema

startup_mask(r) == IF r.mode = "Explicit" THEN r.explicit_mask ELSE Schema

(* Defect: the columns of disabled features stay in the matrix. *)
Unfiltered(full_map, names) == full_map

filter_active_features(full_map, names) == full_map \intersect names

Init ==
  /\ run \in {r \in VecMaskConfig : /\ r.mode # "Explicit" => r.explicit_mask = Schema
                                    /\ r.mode # "AutoCredit" => r.credit_top_k = 1}
  /\ history = {} /\ corpus = {} /\ last_covered_edges = 0
  /\ frontier = [covered |-> {}, f_prev |-> {}, f_next |-> {}]
  /\ phase = "Explore"
  /\ explore = NoCredit /\ runtime = NoCredit
  /\ LET loaded == run.candidate_file /\ run.mode # "AutoCredit"
         m == startup_mask(run)
     IN /\ mask = [effective_mask |-> m, mask_committed |-> run.mode # "AutoCredit",
                   tpe_init_committed |-> FALSE, candidate_file_loaded |-> loaded,
                   normalized_credit_init_v |-> <<>>]
        /\ globals = [vec_mask |-> m, current_v |-> 0,
                      v_candidates |-> IF loaded THEN {Cardinality(m)} ELSE {}]
        /\ matrix = filter_active_features(Schema, m)
  /\ trial_dims = {}
  /\ stopped = "no"

-----------------------------------------------------------------------------
(* The frontier. *)

recompute_frontier_sets(covered) ==
  [covered |-> covered,
   f_prev |-> {u \in covered : run.acfg.successors[u] \ covered # {}},
   f_next |-> {u \in Sites \ covered : run.acfg.predecessors[u] \intersect covered # {}}]

(* Without a newly covered site there is nothing to change. *)
update_frontier_meta(newly) ==
  IF newly \subseteq frontier.covered THEN frontier
  ELSE recompute_frontier_sets(frontier.covered \union newly)

local_frontier_nodes(newly, hit) ==
  newly \union (hit \intersect UNION {run.acfg.predecessors[n] : n \in newly})

(* Defect: a site counts as newly covered when the edge map is new there. *)
NewlyInEdgeMap(hit) == hit \ history

newly_covered_sancov(hit) == hit \ frontier.covered

-----------------------------------------------------------------------------
(* Credits. *)

local_mass(nodes) ==
  [i \in 1..active_dim |->
     LET f == active_feature_names[i]
     IN IF f \in matrix THEN Total(run.features_map[f], nodes) ELSE 0]

credit_delta(nodes, delta_edges) ==
  LET mass == local_mass(nodes)
      denom == Total(mass, DOMAIN mass)
  IN [i \in DOMAIN mass |->
        IF denom > 0 /\ delta_edges > 0 THEN (Scale * delta_edges * mass[i]) \div denom ELSE 0]

(* Vec::resize: cut or filled with zeros. *)
resize(credits, n) == [i \in 1..n |-> IF i <= Len(credits) THEN credits[i] ELSE 0]

credited(meta, nodes, delta_edges) ==
  LET old == resize(meta.credits, active_dim)
      new == credit_delta(nodes, delta_edges)
  IN [credits |-> [i \in 1..active_dim |-> old[i] + new[i]],
      total_delta_edges |-> meta.total_delta_edges + delta_edges]

(* Defect: the edges counted before are counted again. *)
ProgressForgotten(covered) == 0

CoverageProgressMeta(covered) == covered

(* A testcase enters the corpus: append_metadata of the map feedback, of     *)
(* SancovIndexFeedback and of FrontierCreditFeedback, in this order.  It may *)
(* be there for a new hit count only, with no new index.                     *)
AddTestcase(hit) ==
  /\ stopped = "no"
  /\ history' = history \union hit
  /\ corpus' = corpus \union hit
  /\ last_covered_edges' = CoverageProgressMeta(Cardinality(history'))
  /\ LET delta_edges == Cardinality(history') - last_covered_edges
         newly == newly_covered_sancov(hit)
         nodes == local_frontier_nodes(newly, hit)
         changed == ~(newly \subseteq frontier.covered)
     IN IF run.frontier /\ newly # {}
        THEN /\ frontier' = update_frontier_meta(newly)
             /\ explore' = IF changed /\ phase = "Explore"
                           THEN credited(explore, nodes, delta_edges) ELSE explore
             /\ runtime' = IF changed /\ phase # "Explore"
                           THEN credited(runtime, nodes, delta_edges) ELSE runtime
        ELSE UNCHANGED <<frontier, explore, runtime>>
  /\ UNCHANGED <<run, phase, mask, globals, matrix, trial_dims, stopped>>

(* CalibrationStage: an index that differs between two runs of a testcase is *)
(* marked as seen in the history of the edge map, and counted.               *)
Calibrate(flaky) ==
  /\ stopped = "no"
  /\ corpus # {}
  /\ history' = history \union flaky
  /\ UNCHANGED <<run, corpus, last_covered_edges, frontier, phase, explore, runtime, mask,
                 globals, matrix, trial_dims, stopped>>

-----------------------------------------------------------------------------
(* Selection and commit of the mask. *)

credits_with_dim(credits, dim) == IF credits = <<>> THEN [i \in 1..dim |-> 0] ELSE credits

(* Defect: a feature without credit may be selected. *)
SelectTopK(credits, top_k) ==
  LET order == SetToSortSeq(DOMAIN credits, LAMBDA i, j : \/ credits[i] > credits[j]
                                                          \/ credits[i] = credits[j] /\ i < j)
  IN Range(SubSeq(order, 1, top_k))

(* The empty set stands for None. *)
select_positive_credit_top_k_mask(credits, top_k) ==
  LET positive == {i \in DOMAIN credits : credits[i] > 0}
      order == SetToSortSeq(positive, LAMBDA i, j : \/ credits[i] > credits[j]
                                                    \/ credits[i] = credits[j] /\ i < j)
  IN Range(SubSeq(order, 1, IF Len(order) < top_k THEN Len(order) ELSE top_k))

project_vector_by_mask(credits, m) == [i \in 1..Cardinality(m) |-> credits[SetToSortSeq(m, <)[i]]]

(* A simplex vector is kept as its numerators; the sum of them divides each. *)
normalize_credit_or_equal_simplex(credits) ==
  IF \E i \in DOMAIN credits : credits[i] > 0 THEN credits ELSE [i \in DOMAIN credits |-> 1]

vector_dimensions_valid(g, m, trials) ==
  LET dim == Cardinality(g.vec_mask)
  IN /\ g.current_v \in {0, dim}
     /\ g.v_candidates \subseteq {dim}
     /\ trials \subseteq {dim}
     /\ m.tpe_init_committed => Len(m.normalized_credit_init_v) = dim

install_committed_runtime_mask(m) == [vec_mask |-> m, v_candidates |-> {}, current_v |-> 0]

(* What the three modes do to the mask, the globals and the matrix.          *)
committed ==
  LET auto == run.mode = "AutoCredit"
      credits == credits_with_dim(explore.credits, IF auto THEN SchemaDim ELSE active_dim)
      selected == select_positive_credit_top_k_mask(credits, run.credit_top_k)
      effective == IF ~auto THEN startup_mask(run) ELSE IF selected = {} THEN Schema ELSE selected
      v == normalize_credit_or_equal_simplex(
             IF auto THEN project_vector_by_mask(credits, effective) ELSE credits)
      g == IF auto THEN install_committed_runtime_mask(effective) ELSE globals
  IN [mask |-> [effective_mask |-> effective, mask_committed |-> TRUE, tpe_init_committed |-> TRUE,
                candidate_file_loaded |-> ~auto /\ mask.candidate_file_loaded,
                normalized_credit_init_v |-> v],
      globals |-> IF ~auto /\ mask.candidate_file_loaded THEN g
                  ELSE [g EXCEPT !.v_candidates = {Len(v)}],
      matrix |-> IF auto THEN filter_active_features(matrix, effective) ELSE matrix]

commit_error ==
  \/ run.mode = "Full" /\ active_dim # SchemaDim
  \/ run.mode = "Explicit" /\ globals.vec_mask # run.explicit_mask
  \/ Len(explore.credits) \notin {0, IF run.mode = "AutoCredit" THEN SchemaDim ELSE active_dim}

Stop(why) ==
  /\ stopped' = why
  /\ UNCHANGED <<phase, mask, globals, matrix, trial_dims>>

(* The end of the explore phase: commit, then the first candidate is applied *)
(* (apply_v_to_features refuses another dimension) and the phase is left.    *)
CommitInitialization ==
  /\ stopped = "no"
  /\ phase = "Explore"
  /\ LET c == IF mask.tpe_init_committed
              THEN [mask |-> mask, globals |-> globals, matrix |-> matrix] ELSE committed
     IN IF commit_error /\ ~mask.tpe_init_committed THEN Stop("commit")
        ELSE IF ~vector_dimensions_valid(c.globals, c.mask, trial_dims) THEN Stop("dimension")
        ELSE IF c.globals.v_candidates = {} THEN Stop("candidate")
        ELSE \E pool \in SUBSET c.globals.v_candidates, v \in c.globals.v_candidates :
               /\ mask' = c.mask
               /\ matrix' = c.matrix
               /\ globals' = [c.globals EXCEPT !.v_candidates = pool, !.current_v = v]
               /\ phase' = "Tuning"
               /\ UNCHANGED <<trial_dims, stopped>>
  /\ UNCHANGED <<run, history, corpus, last_covered_edges, frontier, explore, runtime>>

(* A window is closed: its vector joins the history, the pool is used up or  *)
(* filled with samples, and the next vector is applied.                      *)
CloseWindow ==
  /\ stopped = "no"
  /\ phase = "Tuning"
  /\ trial_dims' = trial_dims \union {globals.current_v}
  /\ \E pool \in SUBSET (globals.v_candidates \union {active_dim}),
        v \in globals.v_candidates \union {active_dim} :
       IF v = active_dim
       THEN /\ globals' = [globals EXCEPT !.v_candidates = pool, !.current_v = v]
            /\ stopped' = stopped
       ELSE globals' = globals /\ stopped' = "vector length"
  /\ UNCHANGED <<run, history, corpus, last_covered_edges, frontier, phase, explore, runtime,
                 mask, matrix>>

-----------------------------------------------------------------------------
(* Restart: initialize_vec_mask_state of a resumed run, and the load of the  *)
(* feature map, which restores current_v and reads the candidate file again  *)
(* into an empty pool.                                                       *)
resume_error ==
  \/ run.mode = "Full" /\ mask.effective_mask # Schema
  \/ run.mode = "Explicit" /\ mask.effective_mask # run.explicit_mask
  \/ run.mode = "AutoCredit" /\ ~mask.mask_committed /\ mask.effective_mask # Schema

(* Defect: a resumed auto-credit run starts again from the full schema. *)
FullSchemaAgain == startup_mask(run)

resumed_effective_mask == mask.effective_mask

Restart ==
  /\ stopped = "no"
  /\ LET m == [mask EXCEPT !.effective_mask = resumed_effective_mask]
         g == [globals EXCEPT !.vec_mask = m.effective_mask]
         reload == run.mode # "AutoCredit" /\ run.candidate_file /\ g.v_candidates = {}
     IN IF resume_error \/ (m.tpe_init_committed /\ ~vector_dimensions_valid(g, m, trial_dims))
        THEN stopped' = "resume" /\ UNCHANGED <<mask, globals, matrix>>
        ELSE /\ mask' = [m EXCEPT !.candidate_file_loaded = @ \/ (reload /\ ~m.tpe_init_committed)]
             /\ globals' = IF reload THEN [g EXCEPT !.v_candidates = {Cardinality(g.vec_mask)}]
                           ELSE g
             /\ matrix' = filter_active_features(Schema, m.effective_mask)
             /\ stopped' = stopped
  /\ UNCHANGED <<run, history, corpus, last_covered_edges, frontier, phase, explore, runtime,
                 trial_dims>>

Next ==
  \/ \E hit \in SUBSET Sites \ {{}} : AddTestcase(hit)
  \/ \E flaky \in SUBSET Sites \ {{}} : Calibrate(flaky)
  \/ CommitInitialization \/ CloseWindow \/ Restart

Spec == Init /\ [][Next]_vars

-----------------------------------------------------------------------------
(* runtime_data.json: the names that label the coordinates of the exported   *)
(* Explore credits.                                                          *)
(* Defect: the names of the active features label them in every mode. *)
ActiveCoordinates == mask.effective_mask

explore_coordinate_feature_names == IF run.mode = "Explicit" THEN mask.effective_mask ELSE Schema

(* Properties. *)

(* The metadata have the types of the source, and the mask of the runtime    *)
(* metadata, of the globals and of the feature matrix is never empty.        *)
TypeOK ==
  /\ run \in VecMaskConfig
  /\ history \subseteq Sites /\ corpus \subseteq history
  /\ last_covered_edges \in 0..Cardinality(Sites)
  /\ frontier \in FrontierMeta
  /\ phase \in {"Explore", "Tuning"}
  /\ \A c \in {explore, runtime} : /\ \A i \in DOMAIN c.credits : c.credits[i] \in Nat
                                   /\ c.total_delta_edges \in 0..Cardinality(Sites)
  /\ mask.effective_mask \in SUBSET Schema \ {{}}
  /\ globals.vec_mask \in SUBSET Schema \ {{}}
  /\ matrix \in SUBSET Schema \ {{}}

(* The frontier the weights are computed from is the frontier of what the    *)
(* corpus covers, also when calibration marked sites as seen first: the      *)
(* covered sites are those of the corpus, f_prev those of them with a        *)
(* successor outside, f_next the sites outside with a predecessor inside.    *)
FrontierReflectsCorpus ==
  run.frontier =>
    /\ frontier.covered = corpus
    /\ \A u \in Sites : /\ u \in frontier.f_prev <=> u \in corpus /\ ~(run.acfg.successors[u] \subseteq corpus)
                        /\ u \in frontier.f_next <=> /\ u \notin corpus
                                                     /\ \E p \in corpus : p \in run.acfg.predecessors[u]

(* No edge is credited twice, whatever testcases, calibrations and restarts  *)
(* come in between: Explore and runtime totals together never exceed the     *)
(* edges seen, and the credits of a phase never exceed its total.            *)
NoEdgeCreditedTwice ==
  /\ explore.total_delta_edges + runtime.total_delta_edges <= Cardinality(history)
  /\ \A c \in {explore, runtime} :
       Total(c.credits, DOMAIN c.credits) <= Scale * c.total_delta_edges

(* "auto-credit selects at most k strictly positive features": the committed *)
(* mask holds, of the Explore credits as they still are at any later time,   *)
(* the k largest positive ones (all of them when there are fewer), ties going*)
(* to the lower index; the full schema when there is none.  Every selected   *)
(* feature has a positive share in the first vector.                         *)
CommittedMaskIsTopK ==
  run.mode = "AutoCredit" /\ mask.mask_committed =>
    LET credit(f) == IF explore.credits = <<>> THEN 0 ELSE explore.credits[f]
        positive == {f \in Schema : credit(f) > 0}
        sel == mask.effective_mask
    IN /\ \A i \in DOMAIN mask.normalized_credit_init_v : mask.normalized_credit_init_v[i] > 0
       /\ IF positive = {} THEN sel = Schema
          ELSE /\ sel \subseteq positive
               /\ Cardinality(sel) <= run.credit_top_k
               /\ sel # positive => Cardinality(sel) = run.credit_top_k
               /\ \A f \in sel, g \in positive \ sel :
                    credit(f) > credit(g) \/ (credit(f) = credit(g) /\ f < g)

(* A committed mask is immutable: no testcase, window or restart changes it, *)
(* and the globals and the feature matrix keep following it.                 *)
MaskImmutable ==
  [][mask.mask_committed =>
       /\ mask'.effective_mask = mask.effective_mask
       /\ globals'.vec_mask = mask.effective_mask
       /\ matrix' = mask.effective_mask]_vars

(* None of the consistency errors of commit, of apply_v_to_features and of   *)
(* resume is ever raised for a process restarted with the same arguments.    *)
NeverInconsistent == stopped = "no"

(* The credit vectors in runtime_data.json have one coordinate per feature   *)
(* name they are exported with, before and after the commit.                 *)
ExportCoordinatesMatch ==
  /\ Len(explore.credits) \in {0, Cardinality(explore_coordinate_feature_names)}
  /\ Len(runtime.credits) \in {0, active_dim}
=============================================================================
