---------------------------- MODULE MCBitonicSeq ----------------------------
(* Model-checking instance of BitonicSeq over every 0/1 array of length N *)
(* (the 0-1 principle: the schedule and the compare-exchange positions     *)
(* never depend on the data).                                              *)
EXTENDS BitonicSeq

MCInitArrays == [Idx -> {0, 1}]

=============================================================================
