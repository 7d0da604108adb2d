------------------------- MODULE TpeOptimizerProofs -------------------------
(***************************************************************************)
(* Lemmas about the operators of TpeOptimizer: the types of what they       *)
(* return, and the bounds and frame facts the proofs about TpeStage use.    *)
(***************************************************************************)
EXTENDS TpeOptimizer, SequenceTheorems, WellFoundedInduction, TLAPS

TrialsUpTo(R) == [iteration : Nat, vector : Vectors, reward : 0..R]

SavedUpTo(R) == [vector : Vectors, reward : 0..R]

(* A nonempty set of naturals has a least element. *)
LEMMA LeastNat ==
  ASSUME NEW T \in SUBSET Nat, T # {}
  PROVE  \E x \in T : \A y \in T : x <= y
<1> DEFINE R == OpToRel(<, Nat)
<1>1. IsWellFoundedOn(R, Nat)
  BY NatLessThanWellFounded
<1>2. PICK x \in T : \A y \in T : ~(<<y, x>> \in R)
  <2> HIDE DEF R
  <2> QED BY <1>1, WFMin
<1>3. \A y \in T : ~(y < x)
  BY <1>2 DEF OpToRel
<1> QED BY <1>3

(* observe_trial keeps the history well typed, adds at most one trial, and   *)
(* every trial it leaves was there before, up to its reward, or has the      *)
(* iteration that is being observed.                                         *)
LEMMA ObserveTrial ==
  ASSUME NEW R \in Nat, NEW trials \in Seq(TrialsUpTo(R)), NEW it \in Nat,
         NEW v \in Vectors, NEW r \in 0..R
  PROVE  LET t == observe_trial(trials, it, v, r)
         IN /\ t \in Seq(TrialsUpTo(R))
            /\ t # <<>>
            /\ Len(t) <= Len(trials) + 1
            /\ \A i \in DOMAIN t : \/ t[i].iteration = it
                                   \/ \E j \in DOMAIN trials :
                                        t[i].iteration = trials[j].iteration
<1> DEFINE n == Len(trials)
           new == [iteration |-> it, vector |-> v, reward |-> r]
           t == observe_trial(trials, it, v, r)
<1>1. n \in Nat /\ new \in TrialsUpTo(R) /\ DOMAIN trials = 1..n
  BY DEF TrialsUpTo
<1>2. CASE n > 0 /\ (trials[n].iteration = it \/ trials[n].vector = v)
  <2>1. t = [trials EXCEPT ![n].reward = Larger(trials[n].reward, r)]
    BY <1>2 DEF observe_trial
  <2>2. trials[n] \in TrialsUpTo(R)
    BY <1>1, <1>2
  <2>3. Larger(trials[n].reward, r) \in 0..R
    BY <2>2 DEF Larger, TrialsUpTo
  <2>4. /\ [trials[n] EXCEPT !.reward = Larger(trials[n].reward, r)] \in TrialsUpTo(R)
        /\ [trials[n] EXCEPT !.reward = Larger(trials[n].reward, r)].iteration = trials[n].iteration
    BY <2>2, <2>3 DEF TrialsUpTo
  <2>5. t = [trials EXCEPT ![n] = [trials[n] EXCEPT !.reward = Larger(trials[n].reward, r)]]
    BY <2>1
  <2>6. t \in Seq(TrialsUpTo(R)) /\ Len(t) = n /\ DOMAIN t = 1..n
    BY <1>1, <1>2, <2>4, <2>5, ExceptSeq
  <2>7. \A i \in 1..n : t[i].iteration = trials[i].iteration
    BY <1>1, <1>2, <2>4, <2>5
  <2> QED BY <1>1, <1>2, <2>6, <2>7
<1>3. CASE ~(n > 0 /\ (trials[n].iteration = it \/ trials[n].vector = v))
  <2> DEFINE a == Append(trials, new)
  <2>1. /\ a \in Seq(TrialsUpTo(R)) /\ Len(a) = n + 1 /\ a # <<>>
        /\ \A i \in 1..n : a[i] = trials[i]
        /\ a[n + 1] = new
    BY <1>1
  <2>2. CASE n + 1 > MAX_TRIALS
    <3>1. t = Tail(a)
      BY <1>3, <2>2 DEF observe_trial
    <3>2. /\ t \in Seq(TrialsUpTo(R)) /\ Len(t) = n
          /\ \A i \in 1..n : t[i] = a[i + 1]
      BY <2>1, <3>1, HeadTailProperties
    <3>3. n > 0
      BY <1>1, <2>2, ParamsAssumption
    <3>4. \A i \in 1..n : \/ t[i].iteration = it
                          \/ \E j \in 1..n : t[i].iteration = trials[j].iteration
      <4> SUFFICES ASSUME NEW i \in 1..n
                   PROVE  \/ t[i].iteration = it
                          \/ \E j \in 1..n : t[i].iteration = trials[j].iteration
        OBVIOUS
      <4>1. CASE i = n
        BY <1>1, <2>1, <3>2, <4>1
      <4>2. CASE i # n
        <5>1. n \in Nat
          BY <1>1
        <5>2. i \in Nat /\ i < n
          BY <4>2, <5>1
        <5>3. i + 1 \in 1..n
          BY <5>1, <5>2
        <5> QED BY <2>1, <3>2, <5>3
      <4> QED BY <4>1, <4>2
    <3>5. t # <<>> /\ DOMAIN t = 1..n
      BY <3>2, <3>3
    <3>6. Len(t) <= n + 1 /\ DOMAIN trials = 1..n
      BY <1>1, <3>2
    <3> QED BY <3>2, <3>4, <3>5, <3>6, Zenon
  <2>3. CASE ~(n + 1 > MAX_TRIALS)
    <3>1. t = a
      BY <1>3, <2>3 DEF observe_trial
    <3> QED BY <1>1, <2>1, <3>1
  <2> QED BY <2>2, <2>3
<1> QED BY <1>2, <1>3

(* persist_to_meta writes one entry for every trial. *)
LEMMA SavedTrials ==
  ASSUME NEW R \in Nat, NEW trials \in Seq(TrialsUpTo(R))
  PROVE  /\ saved_trials(trials) \in Seq(SavedUpTo(R))
         /\ Len(saved_trials(trials)) = Len(trials)
<1>1. \A i \in 1..Len(trials) : trials[i] \in TrialsUpTo(R)
  OBVIOUS
<1>2. \A i \in 1..Len(trials) :
        [vector |-> trials[i].vector, reward |-> trials[i].reward] \in SavedUpTo(R)
  BY <1>1 DEF TrialsUpTo, SavedUpTo
<1> QED BY <1>2 DEF saved_trials

(* restore_once reads back what persist_to_meta wrote, and numbers the       *)
(* trials below their count.                                                 *)
LEMMA RestoredTrials ==
  ASSUME NEW R \in Nat, NEW saved \in Seq(SavedUpTo(R))
  PROVE  /\ restored_trials(saved) \in Seq(TrialsUpTo(R))
         /\ Len(restored_trials(saved)) = Len(saved)
         /\ saved_trials(restored_trials(saved)) = saved
         /\ \A i \in DOMAIN restored_trials(saved) :
              restored_trials(saved)[i].iteration < Len(saved)
<1> DEFINE t == restored_trials(saved)
           rec(i) == [iteration |-> i - 1, vector |-> saved[i].vector,
                      reward |-> saved[i].reward]
<1>0. \A i \in 1..Len(saved) : saved[i] \in SavedUpTo(R)
  OBVIOUS
<1>1. \A i \in 1..Len(saved) : saved[i] \in SavedUpTo(R) /\ rec(i) \in TrialsUpTo(R)
  BY <1>0 DEF TrialsUpTo, SavedUpTo
<1>2. t \in Seq(TrialsUpTo(R)) /\ Len(t) = Len(saved) /\ DOMAIN t = 1..Len(saved)
  BY <1>1 DEF restored_trials
<1>3. \A i \in 1..Len(saved) : t[i] = rec(i)
  BY DEF restored_trials
<1>4. saved_trials(t) \in Seq(SavedUpTo(R)) /\ Len(saved_trials(t)) = Len(saved)
  BY <1>2, SavedTrials
<1>5. \A i \in 1..Len(saved) : saved_trials(t)[i] = saved[i]
  <2> SUFFICES ASSUME NEW i \in 1..Len(saved) PROVE saved_trials(t)[i] = saved[i]
    OBVIOUS
  <2>1. saved_trials(t)[i] = [vector |-> saved[i].vector, reward |-> saved[i].reward]
    BY <1>2, <1>3 DEF saved_trials
  <2>2. saved[i] = [vector |-> saved[i].vector, reward |-> saved[i].reward]
    BY <1>1 DEF SavedUpTo
  <2> QED BY <2>1, <2>2
<1>6. saved_trials(t) = saved
  BY <1>4, <1>5, SeqEqual
<1> QED BY <1>2, <1>3, <1>6

(* max_by of a nonempty history is one of its vectors. *)
LEMMA BestByReward ==
  ASSUME NEW R \in Nat, NEW trials \in Seq(TrialsUpTo(R)), trials # <<>>
  PROVE  best_by_reward(trials) \in Vectors
<1> DEFINE n == Len(trials)
           P(i) == \A j \in DOMAIN trials : /\ trials[j].reward <= trials[i].reward
                                            /\ j > i => trials[j].reward < trials[i].reward
           short == {R - trials[i].reward : i \in 1..n}
<1>1. n \in Nat /\ n > 0 /\ DOMAIN trials = 1..n /\ \A i \in 1..n : trials[i] \in TrialsUpTo(R)
  OBVIOUS
<1>2. \A i \in 1..n : trials[i].reward \in 0..R /\ trials[i].vector \in Vectors
  BY <1>1 DEF TrialsUpTo
<1>3. short \in SUBSET Nat /\ short # {}
  BY <1>1, <1>2
<1>4. PICK x \in short : \A y \in short : x <= y
  BY <1>3, LeastNat
<1>5. PICK a \in 1..n : x = R - trials[a].reward
  BY <1>4
<1>6. \A j \in 1..n : trials[j].reward <= trials[a].reward
  <2> SUFFICES ASSUME NEW j \in 1..n PROVE trials[j].reward <= trials[a].reward
    OBVIOUS
  <2>1. R - trials[a].reward <= R - trials[j].reward
    BY <1>4, <1>5
  <2> QED BY <1>2, <2>1
<1> DEFINE late == {n - i : i \in {k \in 1..n : trials[k].reward = trials[a].reward}}
<1>7. late \in SUBSET Nat /\ late # {}
  BY <1>1
<1>8. PICK z \in late : \A y \in late : z <= y
  BY <1>7, LeastNat
<1>9. PICK b \in 1..n : z = n - b /\ trials[b].reward = trials[a].reward
  BY <1>8
<1>10. \A j \in 1..n : j > b => trials[j].reward < trials[b].reward
  <2> SUFFICES ASSUME NEW j \in 1..n, j > b PROVE trials[j].reward < trials[b].reward
    OBVIOUS
  <2>1. CASE trials[j].reward = trials[a].reward
    <3>1. n - b <= n - j
      BY <1>8, <1>9, <2>1
    <3> QED BY <1>1, <3>1
  <2>2. CASE trials[j].reward # trials[a].reward
    <3>1. trials[j].reward <= trials[a].reward
      BY <1>6
    <3> QED BY <1>2, <1>9, <2>2, <3>1
  <2> QED BY <2>1, <2>2
<1>11. b \in DOMAIN trials /\ P(b)
  BY <1>1, <1>6, <1>9, <1>10
<1>12. (CHOOSE i \in DOMAIN trials : P(i)) \in DOMAIN trials
  <2> HIDE DEF P
  <2> QED BY <1>11
<1> QED BY <1>1, <1>2, <1>12 DEF best_by_reward

(* The vector LockedBest fixes is a vector or none. *)
LEMMA LockedBestFixed ==
  ASSUME NEW R \in Nat, NEW trials \in Seq(TrialsUpTo(R)), NEW bf \in VecOrNone,
         NEW lv \in VecOrNone
  PROVE  locked_best_fixed(bf, trials, lv) \in VecOrNone
BY BestByReward DEF locked_best_fixed, VecOrNone

(* Sampling only appends to the pool, and never leaves it empty. *)
LEMMA EnqueueSamples ==
  ASSUME NEW pool \in Seq(Vectors), NEW q \in enqueue_samples_around(pool)
  PROVE  /\ q \in Seq(Vectors) /\ q # <<>>
         /\ \A i \in 1..Len(pool) : q[i] = pool[i]
<1>1. PICK t \in BoundedSeq(Vectors, Larger(Samples, 1)) : q = pool \o t /\ (pool = <<>> => t # <<>>)
  BY DEF enqueue_samples_around
<1>2. t \in Seq(Vectors)
  BY DEF BoundedSeq, SeqOf
<1>3. /\ q \in Seq(Vectors) /\ Len(q) = Len(pool) + Len(t)
      /\ \A i \in 1..Len(pool) : q[i] = pool[i]
  BY <1>1, <1>2
<1>4. q # <<>>
  BY <1>1, <1>2, <1>3
<1> QED BY <1>3, <1>4

(* next_untried_from_pool hands out a vector of the pool, or nothing, and    *)
(* leaves a shorter pool; with no trials it hands out the first vector.      *)
LEMMA NextUntried ==
  ASSUME NEW pool \in Seq(Vectors), NEW trials
  PROVE  LET r == next_untried_from_pool(pool, trials)
         IN /\ r.next \in VecOrNone
            /\ r.pool \in Seq(Vectors)
            /\ trials = <<>> /\ pool # <<>> => r.next = pool[1] /\ r.next # NoVec
<1> DEFINE r == next_untried_from_pool(pool, trials)
           u == untried(pool, trials)
<1>1. u \subseteq 1..Len(pool) /\ Len(pool) \in Nat
  BY DEF untried
<1>2. CASE u = {}
  <2>1. r.next = NoVec /\ r.pool = <<>>
    BY <1>2 DEF next_untried_from_pool
  <2>2. ~(trials = <<>> /\ pool # <<>>)
    BY <1>2 DEF untried
  <2> QED BY <2>1, <2>2 DEF VecOrNone
<1>3. CASE u # {}
  <2> DEFINE i == CHOOSE k \in u : \A m \in u : k <= m
  <2>1. \E k \in u : \A m \in u : k <= m
    BY <1>1, <1>3, LeastNat
  <2>2. i \in u /\ \A m \in u : i <= m
    BY <2>1
  <2>3. r.next = pool[i] /\ r.pool = SubSeq(pool, i + 1, Len(pool))
    BY <1>3 DEF next_untried_from_pool
  <2>4. i \in 1..Len(pool)
    BY <1>1, <2>2
  <2>5. pool[i] \in Vectors /\ pool[i] # NoVec
    BY <2>4, VectorsAssumption
  <2>6. SubSeq(pool, i + 1, Len(pool)) \in Seq(Vectors)
    <3> HIDE DEF i
    <3> QED BY <1>1, <2>4, SubSeqProperties
  <2>7. ASSUME trials = <<>>, pool # <<>> PROVE i = 1
    <3>1. 1 \in u
      BY <2>7 DEF untried
    <3> HIDE DEF i
    <3> QED BY <2>2, <2>4, <3>1
  <2> HIDE DEF i
  <2> QED BY <2>3, <2>5, <2>6, <2>7 DEF VecOrNone
<1> QED BY <1>2, <1>3

(* suggest_next returns a vector or nothing and leaves a well-typed pool. *)
LEMMA SuggestNext ==
  ASSUME NEW pool \in Seq(Vectors), NEW trials, NEW lock \in BOOLEAN,
         NEW s \in suggest_next(pool, trials, lock)
  PROVE  s.next \in VecOrNone /\ s.pool \in Seq(Vectors) /\ s.locks \in BOOLEAN
<1> DEFINE front == next_untried_from_pool(pool, trials)
<1>1. front.next \in VecOrNone /\ front.pool \in Seq(Vectors)
  BY NextUntried
<1>2. <<>> \in Seq(Vectors)
  OBVIOUS
<1>3. \/ s = [next |-> NoVec, pool |-> pool, locks |-> FALSE]
      \/ s = [next |-> front.next, pool |-> front.pool, locks |-> FALSE]
      \/ \E v \in Vectors : s = [next |-> v, pool |-> <<>>, locks |-> FALSE]
      \/ s = [next |-> NoVec, pool |-> <<>>, locks |-> TRUE]
  BY DEF suggest_next
<1> HIDE DEF front
<1>4. CASE s = [next |-> NoVec, pool |-> pool, locks |-> FALSE]
  BY <1>4 DEF VecOrNone
<1>5. CASE s = [next |-> front.next, pool |-> front.pool, locks |-> FALSE]
  BY <1>1, <1>5
<1>6. CASE \E v \in Vectors : s = [next |-> v, pool |-> <<>>, locks |-> FALSE]
  BY <1>2, <1>6 DEF VecOrNone
<1>7. CASE s = [next |-> NoVec, pool |-> <<>>, locks |-> TRUE]
  BY <1>2, <1>7 DEF VecOrNone
<1> QED BY <1>3, <1>4, <1>5, <1>6, <1>7
=============================================================================
