---------------------------- MODULE TpeOptimizer ----------------------------
(***************************************************************************)
(* The operators of the TPE optimizer (feature_sched/tpe.rs) and of the     *)
(* candidate pool it draws from (feature_sched/mod.rs).                     *)
(*                                                                          *)
(* A simplex weight vector is a member of Vectors: one value for every      *)
(* vector the code tells apart at the fine tolerance (1e-6) of              *)
(* observe_trial.  Cell[v] is its class at the coarse tolerance (1e-3) that *)
(* the pool and the "already tried" test use.  normalize_simplex_eps moves  *)
(* a normalised vector by less than the fine tolerance, so it maps every    *)
(* member of Vectors to itself.                                             *)
(***************************************************************************)
EXTENDS Integers, FiniteSets, SequencesExt

CONSTANTS Vectors,            \* simplex vectors, up to the 1e-6 tolerance
          Cell,               \* Vectors -> classes of the 1e-3 tolerance
          NoVec,              \* the empty vector
          Samples,            \* --tpe-samples
          trials_threshold,   \* --trials-threshold
          GammaNum, GammaDen, \* --tpe-gamma as a fraction
          MAX_TRIALS          \* capacity of the trial history

ASSUME VectorsAssumption ==
  /\ Vectors # {}
  /\ NoVec \notin Vectors
  /\ DOMAIN Cell = Vectors

ASSUME ParamsAssumption ==
  /\ Samples \in Nat
  /\ trials_threshold \in Nat
  /\ GammaNum \in Nat /\ GammaDen \in Nat \ {0}
  /\ MAX_TRIALS \in Nat \ {0}

VecOrNone == Vectors \union {NoVec}

Larger(a, b) == IF a >= b THEN a ELSE b

Smaller(a, b) == IF a <= b THEN a ELSE b

-----------------------------------------------------------------------------
(* Trial history. *)

observe_trial(trials, iteration, v, reward) ==
  LET n == Len(trials)
      t == [iteration |-> iteration, vector |-> v, reward |-> reward]
  IN IF n > 0 /\ (trials[n].iteration = iteration \/ trials[n].vector = v)
     THEN [trials EXCEPT ![n].reward = Larger(trials[n].reward, reward)]
     ELSE IF n + 1 > MAX_TRIALS THEN Tail(Append(trials, t)) ELSE Append(trials, t)

saved_trials(trials) ==
  [i \in DOMAIN trials |-> [vector |-> trials[i].vector, reward |-> trials[i].reward]]

(* Defect: the trial observed last is not written. *)
PersistAllButLast(o) ==
  [trials |-> saved_trials(IF o.trials = <<>> THEN <<>> ELSE Front(o.trials)),
   last_vec |-> o.last_vec]

persist_to_meta(o) == [trials |-> saved_trials(o.trials), last_vec |-> o.last_vec]

(* The iteration of a restored trial is its index: enumerate() counts from 0. *)
restored_trials(saved) ==
  [i \in DOMAIN saved |->
     [iteration |-> i - 1, vector |-> saved[i].vector, reward |-> saved[i].reward]]

(* max_by returns the last of several maximal elements. *)
best_by_reward(trials) ==
  IF trials = <<>> THEN NoVec
  ELSE trials[CHOOSE i \in DOMAIN trials : \A j \in DOMAIN trials :
                /\ trials[j].reward <= trials[i].reward
                /\ j > i => trials[j].reward < trials[i].reward].vector

best_vec(best_fixed, trials) ==
  IF best_fixed # NoVec THEN best_fixed ELSE best_by_reward(trials)

(* What lock_best leaves in best_fixed. *)
locked_best_fixed(best_fixed, trials, last_vec) ==
  IF trials # <<>> THEN best_by_reward(trials)
  ELSE IF last_vec # NoVec THEN last_vec ELSE best_fixed

(* split_good_bad: k = ceil(n * gamma) clamped to 1..n, the k-th largest     *)
(* reward is the threshold of the good set, and both sets must be nonempty.  *)
good_count(n) ==
  Smaller(Larger((n * GammaNum + GammaDen - 1) \div GammaDen, 1), n)

reward_threshold(trials) ==
  CHOOSE r \in {trials[i].reward : i \in DOMAIN trials} :
    /\ Cardinality({i \in DOMAIN trials : trials[i].reward > r}) < good_count(Len(trials))
    /\ Cardinality({i \in DOMAIN trials : trials[i].reward >= r}) >= good_count(Len(trials))

split_good_bad(trials) ==
  /\ Len(trials) >= Larger(trials_threshold, 2)
  /\ \E i \in DOMAIN trials : trials[i].reward < reward_threshold(trials)

-----------------------------------------------------------------------------
(* Candidate pool. *)

(* Every pool that count.max(1) random draws, each dropped when the pool     *)
(* already holds a vector of its cell, can leave behind.                     *)
enqueue_samples_around(pool) ==
  {pool \o s : s \in {t \in BoundedSeq(Vectors, Larger(Samples, 1)) :
     /\ \A i \in DOMAIN t : \A j \in DOMAIN pool : Cell[t[i]] # Cell[pool[j]]
     /\ \A i, j \in DOMAIN t : Cell[t[i]] = Cell[t[j]] => i = j
     /\ pool = <<>> => t # <<>>}}

(* Defect: the samples are queued before the exact vector. *)
NeighborsFirst(exact) ==
  {Append(s, exact) : s \in enqueue_samples_around(<<>>)}

enqueue_exact_then_neighbor_candidates(exact) ==
  enqueue_samples_around(<<exact>>)

untried(pool, trials) ==
  {i \in DOMAIN pool : \A j \in DOMAIN trials : Cell[trials[j].vector] # Cell[pool[i]]}

(* Seen vectors are dropped from the front only; the first untried one is    *)
(* taken and what is behind it stays.                                        *)
next_untried_from_pool(pool, trials) ==
  IF untried(pool, trials) = {} THEN [next |-> NoVec, pool |-> <<>>]
  ELSE LET i == CHOOSE k \in untried(pool, trials) :
                  \A m \in untried(pool, trials) : k <= m
       IN [next |-> pool[i], pool |-> SubSeq(pool, i + 1, Len(pool))]

(* The outcomes of suggest_next: the vector (NoVec for None), the pool and   *)
(* whether the call locked the optimizer.  A logistic-normal sample may be   *)
(* any vector; a KDE round may also find no candidate of positive score, and *)
(* then locks.  init_candidate finds the pool already emptied and samples.   *)
suggest_next(pool, trials, lock_best) ==
  LET front == next_untried_from_pool(pool, trials)
      sampled == {[next |-> v, pool |-> <<>>, locks |-> FALSE] : v \in Vectors}
      gave_up == {[next |-> NoVec, pool |-> <<>>, locks |-> TRUE]}
  IN IF lock_best THEN {[next |-> NoVec, pool |-> pool, locks |-> FALSE]}
     ELSE IF front.next # NoVec
     THEN {[next |-> front.next, pool |-> front.pool, locks |-> FALSE]}
     ELSE sampled \union (IF split_good_bad(trials) THEN gave_up ELSE {})
=============================================================================
