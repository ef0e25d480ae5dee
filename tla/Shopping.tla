------------------------------ MODULE Shopping ------------------------------
(***************************************************************************)
(* src/apps/shopping/shopping.c: candy lovers share one cart.  Each lover *)
(* thread waits for wait_to_begin to drop, then loops: it adds the price   *)
(* of what it chose last round to cart.subtotal1 (or, watching, spends 1   *)
(* of its budget), chooses this round's behaviour from its pattern, reads *)
(* that candy's price and takes it off its budget, and stops once the     *)
(* budget is negative.  main creates the threads, sets the prices and     *)
(* releases them, joins them and prints the subtotal.                      *)
(*                                                                         *)
(* BUILD "atomic" adds with __sync_add_and_fetch, BUILD "direct" with      *)
(* cart.subtotal1 += price, a load and a store.  PADDING only moves       *)
(* fields between cache lines and is not modelled.  round and count are    *)
(* printed only; the model keeps round % 10, all the pattern uses.         *)
(***************************************************************************)
EXTENDS Integers, FiniteSetsExt

CONSTANTS
  BUILD,      \* "atomic" or "direct"
  Lovers,     \* the threads
  Model,      \* Model[t]: the row of models the lover's <Mode> picks
  Budget      \* Budget[t]: the lover's <Budget>

VARIABLES
  wait_to_begin,
  prices,     \* prices[b]: the price field behaviour b reads (cart.MM, ...)
  subtotal,   \* cart.subtotal1
  budget, behavior, price, rnd, tmp, pc,   \* per lover; rnd is round % 10
  paid,       \* paid[t]: the prices t has added (history)
  mpc

vars == <<wait_to_begin, prices, subtotal, budget, behavior, price, rnd, tmp, pc, paid, mpc>>

JUST_WATCH == -1
Behaviours == {JUST_WATCH, 0, 1, 2, 3}   \* watch, M&M, KitKat, Snickers, Hershey's

(* models[][10]: the candy purchase patterns.                              *)
models ==
  << <<-1, -1, -1, -1, -1, -1, -1, -1, -1, -1>>,
     << 0,  0,  0,  0,  0,  0,  0,  0,  0,  0>>,
     << 1,  1,  1,  1,  1,  1,  1,  1,  1,  1>>,
     << 2,  2,  2,  2,  2,  2,  2,  2,  2,  2>>,
     << 3,  3,  3,  3,  3,  3,  3,  3,  3,  3>>,
     <<-1,  0,  1,  2,  3, -1,  0,  1,  2,  3>>,
     << 0,  1,  0,  2,  0,  1,  0,  2,  0,  3>> >>

(* pattern[round % 10]; models[m] is row m, counted from 0.                *)
Pattern(t, r) == models[Model[t] + 1][r + 1]

(* The switch: watching reads cart.MM too.                                 *)
PriceField(b) == IF b = JUST_WATCH THEN 0 ELSE b

Init ==
  /\ wait_to_begin = 1
  /\ prices = [f \in 0 .. 3 |-> 0]
  /\ subtotal = 0
  /\ budget = Budget
  /\ behavior = [t \in Lovers |-> JUST_WATCH]
  /\ price = [t \in Lovers |-> 0]
  /\ rnd = [t \in Lovers |-> 0]
  /\ tmp = [t \in Lovers |-> 0]
  /\ pc = [t \in Lovers |-> "wait"]
  /\ paid = [t \in Lovers |-> 0]
  /\ mpc = "prices"

-----------------------------------------------------------------------------
(* while (wait_to_begin);                                                   *)
Begin(t) ==
  /\ pc[t] = "wait"
  /\ wait_to_begin = 0
  /\ pc' = [pc EXCEPT ![t] = "top"]
  /\ UNCHANGED <<wait_to_begin, prices, subtotal, budget, behavior, price, rnd, tmp, paid, mpc>>

(* The rest of a round once the budget is b: behavior = pattern[round %   *)
(* 10], read its price, budget -= price, break when budget < 0, ++round.   *)
Choose(t, b) ==
  LET nb == Pattern(t, rnd[t])
      np == prices[PriceField(nb)]
  IN /\ behavior' = [behavior EXCEPT ![t] = nb]
     /\ price' = [price EXCEPT ![t] = np]
     /\ budget' = [budget EXCEPT ![t] = b - np]
     /\ pc' = [pc EXCEPT ![t] = IF b - np < 0 THEN "done" ELSE "top"]
     /\ rnd' = [rnd EXCEPT ![t] = IF b - np < 0 THEN @ ELSE (@ + 1) % 10]

(* A round after watching: budget -= 1.                                     *)
Watch(t) ==
  /\ pc[t] = "top"
  /\ behavior[t] = JUST_WATCH
  /\ Choose(t, budget[t] - 1)
  /\ UNCHANGED <<wait_to_begin, prices, subtotal, tmp, paid, mpc>>

(* cart.subtotal1 += price taken as the load and the store it compiles to, *)
(* whatever the build.                                                     *)
AddPriceSplit(t) ==
  /\ pc[t] = "top"
  /\ behavior[t] # JUST_WATCH
  /\ tmp' = [tmp EXCEPT ![t] = subtotal]
  /\ pc' = [pc EXCEPT ![t] = "store"]
  /\ UNCHANGED <<wait_to_begin, prices, subtotal, budget, behavior, price, rnd, paid, mpc>>

(* ATOMIC: __sync_add_and_fetch(&cart.subtotal1, price); count++.          *)
AddPrice(t) ==
  /\ BUILD = "atomic"
  /\ pc[t] = "top"
  /\ behavior[t] # JUST_WATCH
  /\ subtotal' = subtotal + price[t]
  /\ paid' = [paid EXCEPT ![t] = @ + price[t]]
  /\ Choose(t, budget[t])
  /\ UNCHANGED <<wait_to_begin, prices, tmp, mpc>>

(* DIRECT: the load of cart.subtotal1 += price.                             *)
LoadSubtotal(t) ==
  /\ BUILD = "direct"
  /\ pc[t] = "top"
  /\ behavior[t] # JUST_WATCH
  /\ tmp' = [tmp EXCEPT ![t] = subtotal]
  /\ pc' = [pc EXCEPT ![t] = "store"]
  /\ UNCHANGED <<wait_to_begin, prices, subtotal, budget, behavior, price, rnd, paid, mpc>>

(* DIRECT: its store, count++, and the rest of the round.                  *)
StoreSubtotal(t) ==
  /\ pc[t] = "store"
  /\ subtotal' = tmp[t] + price[t]
  /\ paid' = [paid EXCEPT ![t] = @ + price[t]]
  /\ Choose(t, budget[t])
  /\ UNCHANGED <<wait_to_begin, prices, tmp, mpc>>

(* main: the prices MM 2, KitKat 3, SNICKERS 5, Hersheys 7 (the subtotals  *)
(* are already 0).                                                          *)
SetPrices ==
  /\ mpc = "prices"
  /\ prices' = [f \in 0 .. 3 |-> CASE f = 0 -> 2 [] f = 1 -> 3 [] f = 2 -> 5 [] OTHER -> 7]
  /\ mpc' = "release"
  /\ UNCHANGED <<wait_to_begin, subtotal, budget, behavior, price, rnd, tmp, pc, paid>>

(* main: wait_to_begin = 0.                                                 *)
Release ==
  /\ mpc = "release"
  /\ wait_to_begin' = 0
  /\ mpc' = "join"
  /\ UNCHANGED <<prices, subtotal, budget, behavior, price, rnd, tmp, pc, paid>>

(* main: pthread_join of every lover.                                       *)
Join ==
  /\ mpc = "join"
  /\ \A t \in Lovers : pc[t] = "done"
  /\ mpc' = "exit"
  /\ UNCHANGED <<wait_to_begin, prices, subtotal, budget, behavior, price, rnd, tmp, pc, paid>>

Terminated == mpc = "exit" /\ UNCHANGED vars

Thread(t) == Begin(t) \/ Watch(t) \/ AddPrice(t) \/ LoadSubtotal(t) \/ StoreSubtotal(t)
MainStep == SetPrices \/ Release \/ Join

Next == MainStep \/ (\E t \in Lovers : Thread(t)) \/ Terminated

(* Every lover is pinned to its own core and spins or shops.               *)
Spec == Init /\ [][Next]_vars /\ WF_vars(MainStep) /\ \A t \in Lovers : WF_vars(Thread(t))

-----------------------------------------------------------------------------
TypeOK ==
  /\ behavior \in [Lovers -> Behaviours]
  /\ pc \in [Lovers -> {"wait", "top", "store", "done"}]
  /\ rnd \in [Lovers -> 0 .. 9]
  /\ mpc \in {"prices", "release", "join", "exit"}

(* The subtotal main prints is the sum of what every lover added: no       *)
(* add of one thread is lost to another's.                                  *)
SubtotalIsSumOfPurchases ==
  mpc = "exit" => subtotal = MapThenSumSet(LAMBDA t : paid[t], Lovers)

====
