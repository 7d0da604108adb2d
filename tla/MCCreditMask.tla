---------------------------- MODULE MCCreditMask ----------------------------
(* Three sites: 1 branches to 2 and 3, and 2 falls through to 3.  Three      *)
(* features.  In the first map the credits depend on the path; in the second *)
(* features 1 and 2 always tie and site 3 alone gives no credit at all.      *)
EXTENDS CreditMask

MCSites == 1..3

MCFeatureMaps ==
  {<<<<1, 0, 1>>, <<0, 1, 1>>, <<1, 0, 0>>>>,
   <<<<1, 1, 0>>, <<1, 1, 0>>, <<0, 0, 0>>>>}

MCAcfgs ==
  {[successors |-> <<{2, 3}, {3}, {}>>, predecessors |-> <<{}, {1}, {1, 2}>>]}
=============================================================================
