----------------------------- MODULE Minimizer ------------------------------
(***************************************************************************)
(* MinimizerScheduler over the indexes of the edge map: for every index the *)
(* corpus covers, TopRatedsMetadata names the testcase with the least       *)
(* length times execution time; a testcase keeps its MapIndexesMetadata,    *)
(* with a reference count, while it is named for some index.  Calibration   *)
(* changes the execution time of a testcase after it was rated.  All of it  *)
(* is metadata of the state or of a testcase, so a restart changes nothing. *)
(***************************************************************************)
EXTENDS Integers, SequencesExt

CONSTANTS Indexes,    \* indexes of the edge map
          MaxCorpus,  \* bound on the number of testcases
          MaxScore,   \* bound on length times execution time
          None

VARIABLES indexes,      \* per testcase, the indexes it covers
          score,        \* per testcase, what LenTimeMulTestcaseScore::compute returns
          refcnt,       \* per testcase, tcref of MapIndexesMetadata; None once it is removed
          calibrated,   \* testcases calibration has run for
          top_rateds,   \* TopRatedsMetadata.map
          favored,      \* testcases with IsFavoredMetadata
          culled,       \* no testcase was added since the last cull
          failed        \* an operation returned Error::key_not_found

vars == <<indexes, score, refcnt, calibrated, top_rateds, favored, culled, failed>>

Ids == 1..Len(indexes)

Init ==
  /\ indexes = <<>> /\ score = <<>> /\ refcnt = <<>>
  /\ calibrated = {}
  /\ top_rateds = [k \in Indexes |-> None]
  /\ favored = {}
  /\ culled = FALSE
  /\ failed = FALSE

-----------------------------------------------------------------------------
(* The indexes a new testcase takes: a tie goes to the new one. *)
new_favoreds(ks, s) ==
  {k \in ks : IF top_rateds[k] = None THEN TRUE ELSE s <= score[top_rateds[k]]}

lost(id, ks) == Cardinality({k \in ks : top_rateds[k] = id})

(* Counted down, and removed at zero. *)
released(id, ks) ==
  IF refcnt[id] = None THEN None
  ELSE IF refcnt[id] - lost(id, ks) <= 0 THEN None ELSE refcnt[id] - lost(id, ks)

(* Defect: an index that was not named before is not counted. *)
ReplacedOnly(ks) == Cardinality({k \in ks : top_rateds[k] # None})

new_refcnt(ks) == Cardinality(ks)

(* Defect: only an index that was named before gets the new testcase. *)
RatedOnly(ks, id) ==
  [k \in Indexes |-> IF k \in ks /\ top_rateds[k] # None THEN id ELSE top_rateds[k]]

(* Defect: the id is taken one too high. *)
RatedNextId(ks, id) == [k \in Indexes |-> IF k \in ks THEN id + 1 ELSE top_rateds[k]]

rated(ks, id) == [k \in Indexes |-> IF k \in ks THEN id ELSE top_rateds[k]]

(* on_add and update_score.  A testcase found through another feedback may   *)
(* cover nothing new.  The count of a testcase that has none left to give is *)
(* decremented after its metadata is gone, which is an error.                *)
on_add(covered, s) ==
  LET id == Len(indexes) + 1
      ks == new_favoreds(covered, s)
  IN /\ ~failed
     /\ id <= MaxCorpus
     /\ indexes' = Append(indexes, covered)
     /\ score' = Append(score, s)
     /\ failed' = \E old \in Ids : lost(old, ks) > IF refcnt[old] = None THEN 0 ELSE refcnt[old]
     /\ refcnt' = Append([old \in Ids |-> released(old, ks)],
                         IF ks = {} THEN None ELSE new_refcnt(ks))
     /\ top_rateds' = rated(ks, id)
     /\ culled' = FALSE
     /\ UNCHANGED <<calibrated, favored>>

-----------------------------------------------------------------------------
(* Defect: a testcase already marked counts for all indexes. *)
OneIsEnough(acc, k) ==
  IF acc.ids # {} THEN acc
  ELSE [seen |-> acc.seen \union indexes[top_rateds[k]], ids |-> acc.ids \union {top_rateds[k]}]

(* Defect: every testcase that covers the index is favored. *)
VisitAllCovering(acc, k) ==
  LET ids == {id \in Ids : k \in indexes[id]}
  IN [seen |-> acc.seen \union UNION {indexes[id] : id \in ids}, ids |-> acc.ids \union ids]

(* One turn of the loop of cull. *)
visit(acc, k) ==
  IF k \in acc.seen THEN acc
  ELSE [seen |-> acc.seen \union indexes[top_rateds[k]], ids |-> acc.ids \union {top_rateds[k]}]

(* next: cull, in the order of the hash map, then draws from the base        *)
(* scheduler until a favored testcase comes or the coin ends the loop.       *)
next ==
  /\ ~failed
  /\ indexes # <<>>
  /\ \E order \in SetToSeqs({k \in Indexes : top_rateds[k] # None}) :
       LET marked == FoldLeft(visit, [seen |-> {}, ids |-> {}], order).ids
       IN /\ failed' = \E id \in marked : refcnt[id] = None
          /\ favored' = favored \union marked
  /\ culled' = TRUE
  /\ UNCHANGED <<indexes, score, refcnt, calibrated, top_rateds>>

(* CalibrationStage::perform, for a testcase that was never scheduled.       *)
Calibrate(id, s) ==
  /\ ~failed
  /\ id \notin calibrated
  /\ score' = [score EXCEPT ![id] = s]
  /\ calibrated' = calibrated \union {id}
  /\ UNCHANGED <<indexes, refcnt, top_rateds, favored, culled, failed>>

Next ==
  \/ \E covered \in SUBSET Indexes, s \in 1..MaxScore : on_add(covered, s)
  \/ next
  \/ \E id \in Ids, s \in 1..MaxScore : Calibrate(id, s)

Spec == Init /\ [][Next]_vars

-----------------------------------------------------------------------------
(* Properties. *)

(* Types; a top-rated testcase exists. *)
TypeOK ==
  /\ indexes \in Seq(SUBSET Indexes) /\ Len(indexes) <= MaxCorpus
  /\ score \in [Ids -> 1..MaxScore]
  /\ refcnt \in [Ids -> Nat \union {None}]
  /\ calibrated \subseteq Ids /\ favored \subseteq Ids
  /\ top_rateds \in [Indexes -> Ids \union {None}]

(* The reference count of a testcase is the number of indexes it is top      *)
(* rated for, and the metadata is there exactly while that is positive,      *)
(* however ratings and calibrations alternate.                               *)
RefcntCountsIndexes ==
  \A id \in Ids : LET owned == {k \in Indexes : top_rateds[k] = id}
                  IN refcnt[id] = IF owned = {} THEN None ELSE Cardinality(owned)

(* update_score and cull never miss the metadata of a top-rated testcase.    *)
NeverFails == ~failed

(* "a subset of the corpus that exercise all the requested features": after  *)
(* a cull, in any order of the map, the favored testcases cover every index  *)
(* the corpus covers.                                                        *)
FavoredCoverCorpus ==
  culled => UNION {indexes[id] : id \in Ids} \subseteq UNION {indexes[id] : id \in favored}

(* Every index the corpus covers has a top-rated testcase that covers it.    *)
TopRatedCover ==
  \A k \in Indexes : IF top_rateds[k] = None THEN \A id \in Ids : k \notin indexes[id]
                     ELSE k \in indexes[top_rateds[k]]
=============================================================================
