----------------------------- MODULE MCShopping -----------------------------
(* shopping.c with two lovers: <Mode> r (round robin) and b (biased), each *)
(* with a budget of 6.                                                     *)
EXTENDS Shopping

MCModel == [t \in Lovers |-> IF t = 1 THEN 5 ELSE 6]
MCBudget == [t \in Lovers |-> 6]

====
