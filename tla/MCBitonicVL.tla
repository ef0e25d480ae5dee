---------------------------- MODULE MCBitonicVL ----------------------------
(* Model-checking instance of BitonicVL: every 0/1 input array of length  *)
(* MC_N (by the 0-1 principle this covers every input of the data-        *)
(* oblivious compare-exchange network).                                    *)
EXTENDS BitonicVL

CONSTANT MC_N

MCInitArrays == [0 .. MC_N - 1 -> {0, 1}]

(* A single unsorted array, for runs about control rather than data.      *)
MCOneArray == {[k \in 0 .. MC_N - 1 |-> IF k % 2 = 0 THEN 1 ELSE 0]}

=============================================================================
