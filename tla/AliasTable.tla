----------------------------- MODULE AliasTable -----------------------------
(***************************************************************************)
(* WeightedScheduler: the construction of the alias table and the draw of   *)
(* the next testcase from it.  One iteration of each loop of                *)
(* create_alias_table is a step.  Weights are positive integers (compute    *)
(* asserts that a weight is normal); p_arr is scaled by their sum, so that  *)
(* One is the 1.0 of the code.  Every f64 result may be off by ulp, chosen  *)
(* once; 0 is exact arithmetic.                                             *)
(***************************************************************************)
EXTENDS Integers, FiniteSets, SequencesExt

CONSTANTS MaxCorpus,  \* bound on the number of testcases
          MaxWeight,  \* bound on a weight
          MaxUlp,     \* bound on the rounding error
          None

VARIABLES weights,           \* what CorpusWeightTestcaseScore::compute returns, per testcase
          ulp,               \* rounding error of an f64 operation
          build,             \* locals of create_alias_table while it runs
          table,             \* alias_probability and alias_table of WeightedScheduleMetadata
          table_invalidated,
          runs_in_current_cycle

vars == <<weights, ulp, build, table, table_invalidated, runs_in_current_cycle>>

n == Len(weights)
Ids == 1..n
One == SumFunction(weights)

Init ==
  /\ weights \in BoundedSeq(1..MaxWeight, MaxCorpus) \ {<<>>}
  /\ ulp \in 0..MaxUlp
  /\ build = None
  /\ table = [probability |-> <<>>, alias |-> <<>>]
  /\ table_invalidated = TRUE
  /\ runs_in_current_cycle = 0

(* Rounding is monotone: it takes no result below 0. *)
rounded(x) == {y \in (x - ulp)..(x + ulp) : y >= 0}

-----------------------------------------------------------------------------
(* create_alias_table.  s_arr and l_arr are stacks. *)

small(p) == p < One

StartBuild ==
  /\ table_invalidated
  /\ build = None
  /\ \E p \in [Ids -> UNION {rounded(weights[i] * n) : i \in Ids}] :
       /\ \A i \in Ids : p[i] \in rounded(weights[i] * n)
       /\ LET rev == [k \in Ids |-> n + 1 - k]
          IN build' = [p |-> p,
                       s_arr |-> SelectSeq(rev, LAMBDA i : small(p[i])),
                       l_arr |-> SelectSeq(rev, LAMBDA i : ~small(p[i])),
                       probability |-> [i \in Ids |-> None],
                       alias |-> [i \in Ids |-> None]]
  /\ UNCHANGED <<weights, ulp, table, table_invalidated, runs_in_current_cycle>>

(* Defect: the share taken from the large entry is not subtracted. *)
KeepAll(pg, pa) == pg + pa

rest_of_large(pg, pa) == pg + pa - One

(* Defect: a large entry that became small is forgotten. *)
NotRequeued(g, pg) == <<>>

requeued_small(g, pg) == IF small(pg) THEN <<g>> ELSE <<>>

Pair ==
  /\ build # None
  /\ build.s_arr # <<>> /\ build.l_arr # <<>>
  /\ LET a == Last(build.s_arr)
         g == Last(build.l_arr)
     IN \E pg \in rounded(rest_of_large(build.p[g], build.p[a])) :
          build' = [p |-> [build.p EXCEPT ![g] = pg],
                    s_arr |-> Front(build.s_arr) \o requeued_small(g, pg),
                    l_arr |-> Front(build.l_arr) \o IF small(pg) THEN <<>> ELSE <<g>>,
                    probability |-> [build.probability EXCEPT ![a] = build.p[a]],
                    alias |-> [build.alias EXCEPT ![a] = g]]
  /\ UNCHANGED <<weights, ulp, table, table_invalidated, runs_in_current_cycle>>

DrainLarge ==
  /\ build # None
  /\ build.s_arr = <<>> /\ build.l_arr # <<>>
  /\ build' = [build EXCEPT !.probability[Last(build.l_arr)] = One, !.l_arr = Front(@)]
  /\ UNCHANGED <<weights, ulp, table, table_invalidated, runs_in_current_cycle>>

(* Small entries are left over by rounding only. *)
(* Defect: their probability stays below 1.0, without an alias. *)
OwnProbability(a) == build.p[a]

leftover_probability(a) == One

DrainSmall ==
  /\ build # None
  /\ build.l_arr = <<>> /\ build.s_arr # <<>>
  /\ LET a == Last(build.s_arr)
     IN build' = [build EXCEPT !.probability[a] = leftover_probability(a), !.s_arr = Front(@)]
  /\ UNCHANGED <<weights, ulp, table, table_invalidated, runs_in_current_cycle>>

(* Defect: next leaves the flag set. *)
StillInvalidated == TRUE

invalidated_after_build == FALSE

Install ==
  /\ build # None
  /\ build.s_arr = <<>> /\ build.l_arr = <<>>
  /\ table' = [probability |-> build.probability, alias |-> build.alias]
  /\ build' = None
  /\ table_invalidated' = invalidated_after_build
  /\ UNCHANGED <<weights, ulp, runs_in_current_cycle>>

-----------------------------------------------------------------------------
(* The testcase chosen for a random id and a random number below 1.0. *)
choice(s, r) == IF r < table.probability[s] THEN s ELSE table.alias[s]

(* Defect: the cycle counter runs on. *)
RunsOn(runs) == runs + 1

next_run(runs) == IF runs >= n THEN 0 ELSE runs + 1

(* next, with a valid table.  queue_cycles, which a completed cycle          *)
(* increments, is left out: only the handicap of calibration reads it.       *)
Draw ==
  /\ ~table_invalidated
  /\ runs_in_current_cycle' = next_run(runs_in_current_cycle)
  /\ UNCHANGED <<weights, ulp, build, table, table_invalidated>>

on_add(w) ==
  /\ build = None
  /\ n < MaxCorpus
  /\ weights' = Append(weights, w)
  /\ table_invalidated' = TRUE
  /\ UNCHANGED <<ulp, build, table, runs_in_current_cycle>>

create_alias_table == StartBuild \/ Pair \/ DrainLarge \/ DrainSmall \/ Install

Next == create_alias_table \/ Draw \/ \E w \in 1..MaxWeight : on_add(w)

Spec == Init /\ [][Next]_vars

(* create_alias_table is a loop of one thread: it runs on. *)
FairSpec == Spec /\ WF_vars(create_alias_table)

-----------------------------------------------------------------------------
(* Properties. *)

(* Types of the build and of the cycle counter, which never passes the       *)
(* number of testcases.                                                      *)
TypeOK ==
  /\ weights \in Seq(1..MaxWeight) /\ n \in 1..MaxCorpus
  /\ ulp \in 0..MaxUlp
  /\ build # None => /\ build.p \in [Ids -> Nat]
                     /\ build.s_arr \in Seq(Ids) /\ build.l_arr \in Seq(Ids)
  /\ table_invalidated \in BOOLEAN
  /\ runs_in_current_cycle \in 0..n

(* In a valid table every testcase has a probability, and an alias unless    *)
(* the probability is 1.0: neither unwrap of next fails, even when rounding  *)
(* leaves small entries over.                                                *)
NoMissingAlias ==
  ~table_invalidated =>
    \A s \in Ids : /\ table.probability[s] # None
                   /\ table.probability[s] >= One \/ table.alias[s] \in Ids

(* The stacks hold every testcase that has no probability yet, once each.    *)
StacksHoldTheRest ==
  build # None =>
    LET pending == build.s_arr \o build.l_arr
    IN /\ \A i, j \in DOMAIN pending : pending[i] = pending[j] => i = j
       /\ ToSet(pending) = {i \in Ids : build.probability[i] = None}

(* Of the n * One equally likely draws, n * weights[i] choose testcase i; a  *)
(* rounding error shifts that by at most 2 * n - 1 errors.                   *)
DrawsAreProportional ==
  ~table_invalidated =>
    \A i \in Ids :
      LET draws == Cardinality({d \in Ids \X (0..(One - 1)) : choice(d[1], d[2]) = i})
          off == draws - n * weights[i]
      IN off <= (2 * n - 1) * ulp /\ -off <= (2 * n - 1) * ulp

(* The construction ends: an invalidated table is replaced.                  *)
TableGetsRebuilt == table_invalidated ~> ~table_invalidated
=============================================================================
