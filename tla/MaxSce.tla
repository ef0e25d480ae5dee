------------------------------- MODULE MaxSce -------------------------------
(***************************************************************************)
(* src/apps/max_sce/max_sce.c: a producer fills one cache line of a ring   *)
(* per round and a consumer takes the maximum of each line, the two kept   *)
(* apart by two round counters only: the producer spins while it is RING   *)
(* rounds ahead of cons.round, the consumer while prod.round has not       *)
(* passed its round.                                                        *)
(*                                                                         *)
(* The ring is cls, 4096 bytes of 64-byte lines, so RING = 64 lines and a  *)
(* round's line is (round << 6) & 0x0FFF, i.e. round % RING; the code's    *)
(* 64 in the producer's guard and in cons.round's initial -64 is the same *)
(* RING.  The data is abstracted to the round that wrote a line: arr's row *)
(* r is made so that its maximum is r & 0xFF, so the consumer's max[r] is  *)
(* right exactly when the line it scanned holds row r.  NONE stands for a *)
(* line never written (cls is zero-initialised).                            *)
(*                                                                         *)
(* Stores and loads of the volatile ints are single steps; the model      *)
(* assumes a store order the consumer observes (x86's), see the README.   *)
(***************************************************************************)
EXTENDS Integers

CONSTANTS
  RING,       \* lines in the ring (64 in the code)
  MAX_ROUND   \* rounds

VARIABLES
  prod_round, \* prod.round
  cons_round, \* cons.round
  cls,        \* cls[l]: the round whose row line l holds
  max,        \* max[r]: what the consumer stored for round r
  pround,     \* the producer's loop counter
  ppc,        \* where the producer is
  cround,     \* the consumer's loop counter
  cpc,        \* where the consumer is
  mpc         \* where main is

vars == <<prod_round, cons_round, cls, max, pround, ppc, cround, cpc, mpc>>

NONE == -1
Lines == 0 .. RING - 1
Rounds == 0 .. MAX_ROUND - 1
Threads == {"producer", "consumer"}
LineOf(r) == r % RING                   \* (round << 6) & 0x0FFF, in lines

Init ==
  /\ prod_round = 0
  /\ cons_round = -RING
  /\ cls = [l \in Lines |-> NONE]
  /\ max = [r \in Rounds |-> NONE]
  /\ pround = 0 /\ ppc = "spin"
  /\ cround = 0 /\ cpc = "set"
  /\ mpc = "reset"

-----------------------------------------------------------------------------
(* A producer that spins only while it is more than RING rounds ahead.     *)
FillOneAhead ==
  /\ ppc = "spin" /\ pround < MAX_ROUND
  /\ prod_round - cons_round <= RING
  /\ cls' = [cls EXCEPT ![LineOf(pround)] = pround]
  /\ ppc' = "publish"
  /\ UNCHANGED <<prod_round, cons_round, max, pround, cround, cpc, mpc>>

(* producer: while (64 <= prod.round - cons.round) spin; then copy row     *)
(* round of arr into its line and flush it.                                 *)
Fill ==
  /\ ppc = "spin" /\ pround < MAX_ROUND
  /\ prod_round - cons_round < RING
  /\ cls' = [cls EXCEPT ![LineOf(pround)] = pround]
  /\ ppc' = "publish"
  /\ UNCHANGED <<prod_round, cons_round, max, pround, cround, cpc, mpc>>

(* producer: prod.round = round + 1, and the loop's ++round.               *)
Publish ==
  /\ ppc = "publish"
  /\ prod_round' = pround + 1
  /\ pround' = pround + 1
  /\ ppc' = IF pround + 1 < MAX_ROUND THEN "spin" ELSE "done"
  /\ UNCHANGED <<cons_round, cls, max, cround, cpc, mpc>>

(* consumer: cons.round = round.                                           *)
SetRound ==
  /\ cpc = "set"
  /\ cons_round' = cround
  /\ cpc' = "wait"
  /\ UNCHANGED <<prod_round, cls, max, pround, ppc, cround, mpc>>

(* consumer: while (round >= prod.round) spin; then the maximum of its     *)
(* line into max[round], and the loop's ++round.                            *)
Scan ==
  /\ cpc = "wait"
  /\ cround < prod_round
  /\ max' = [max EXCEPT ![cround] = cls[LineOf(cround)]]
  /\ cround' = cround + 1
  /\ cpc' = IF cround + 1 < MAX_ROUND THEN "set" ELSE "done"
  /\ UNCHANGED <<prod_round, cons_round, cls, pround, ppc, mpc>>

(* main: cons.round = 0 after creating both threads.                       *)
ResetCons ==
  /\ mpc = "reset"
  /\ cons_round' = 0
  /\ mpc' = "join"
  /\ UNCHANGED <<prod_round, cls, max, pround, ppc, cround, cpc>>

(* main: pthread_join of both threads.                                     *)
Join ==
  /\ mpc = "join"
  /\ ppc = "done" /\ cpc = "done"
  /\ mpc' = "exit"
  /\ UNCHANGED <<prod_round, cons_round, cls, max, pround, ppc, cround, cpc>>

Terminated == mpc = "exit" /\ UNCHANGED vars

Thread(t) ==
  \/ t = "producer" /\ (Fill \/ Publish)
  \/ t = "consumer" /\ (SetRound \/ Scan)
MainStep == ResetCons \/ Join

Next == MainStep \/ (\E t \in Threads : Thread(t)) \/ Terminated

(* Both threads are pinned to their own cores (setAffinity) and spin on   *)
(* nop; main only stores and joins.                                         *)
Spec == Init /\ [][Next]_vars /\ WF_vars(MainStep) /\ \A t \in Threads : WF_vars(Thread(t))

-----------------------------------------------------------------------------
TypeOK ==
  /\ cls \in [Lines -> Rounds \cup {NONE}]
  /\ max \in [Rounds -> Rounds \cup {NONE}]
  /\ pround \in 0 .. MAX_ROUND /\ cround \in 0 .. MAX_ROUND
  /\ prod_round \in 0 .. MAX_ROUND /\ cons_round \in -RING .. MAX_ROUND

(* main's final assert: every max[round] is round & 0xFF, i.e. the         *)
(* consumer scanned round r's own row for every r: the producer never      *)
(* overwrote a line the consumer had yet to scan, and the consumer never   *)
(* scanned a line before its row was written, whatever main's late store   *)
(* of cons.round = 0 did to the producer's view.                            *)
MaxAssertHolds == mpc = "exit" => \A r \in Rounds : max[r] = r

(* Both threads finish their MAX_ROUND rounds and main joins them.        *)
Termination == <>(mpc = "exit")

====
