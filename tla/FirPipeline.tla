----------------------------- MODULE FirPipeline -----------------------------
(***************************************************************************)
(* The FIR filter pipeline of src/apps/fir/fir.cpp.                         *)
(*                                                                         *)
(* input_stream pushes samples into queue 0, queued_fir stage s pops queue *)
(* s - 1 ... (the code: c_qs[i] to p_qs[i+1]) and pushes the filtered      *)
(* value into queue s, output_stream pops queue stages.  Every thread      *)
(* counts ready++ and spins until main has counted too (ready starts at   *)
(* -1); each thread handles exactly samples values; main joins them.       *)
(*                                                                         *)
(* Pushes are bounded_push (twin_vl_push_non) and pops are pop            *)
(* (twin_vl_pop_non), both retried after sched_yield while they fail; a   *)
(* queue refuses a push when it holds CAP values.  A failed pop changes   *)
(* nothing and is no step; a failed push of queued_fir is, since the      *)
(* retry loop calls filter() again.  The flush after the loop changes     *)
(* nothing visible here.                                                   *)
(*                                                                         *)
(* Samples (rand() % 1000) are drawn from Values and the coefficients     *)
(* scaled by 10 to integers, which keeps the filter exact.                 *)
(***************************************************************************)
EXTENDS Integers, Sequences, Functions

CONSTANTS
  stages,     \* argv[1]: FIR stages
  samples,    \* argv[2]: values every thread handles
  TAPS,       \* TAPS_FIR
  Values,     \* the samples input_stream may draw
  CAP         \* values a queue holds before bounded_push fails

VARIABLES
  ready,      \* the atomic ready barrier
  pc,         \* pc[t]: where thread t is
  left,       \* left[t]: thread t's t_samples
  q,          \* q[n]: the values in queue n
  buffer,     \* buffer[s]: stage s's FIR delay line
  offset,     \* offset[s]: stage s's FIR::offset
  held,       \* held[s]: the input_data stage s popped and has not passed on
  mpc,        \* where main is
  hist,       \* hist[n]: every value ever pushed into queue n (history)
  refused     \* refused[s]: some push of stage s has failed (history)

vars == <<ready, pc, left, q, buffer, offset, held, mpc, hist, refused>>

Input == 0
Stages == 1 .. stages
Output == stages + 1
Threads == 0 .. stages + 1
num_threads == stages + 2
Queues == 0 .. stages
None == -1        \* no input_data held (samples are never negative)

(* queued_fir's coefficients, times 10: 1, 2, ..., 8, 8, ..., 1 for the   *)
(* 16 taps of TAPS_FIR, rising to the middle and falling for any TAPS.     *)
coeffs == [j \in 0 .. TAPS - 1 |-> IF j + 1 < TAPS - j THEN j + 1 ELSE TAPS - j]

SumOver(f, S) == FoldFunctionOnSet(LAMBDA a, b : a + b, 0, f, S)

(* Mutant: the new sample is stored after the sum, which reads the oldest *)
(* one in its place.                                                        *)
filterWriteLate(buf, off, input) ==
  LET term == [j \in 0 .. TAPS - 1 |->
                 coeffs[j] * (IF j <= off THEN buf[off - j] ELSE buf[TAPS - 1 - (j - off - 1)])]
  IN [output |-> SumOver(term, 0 .. off) + SumOver(term, off + 1 .. TAPS - 1),
      buffer |-> [buf EXCEPT ![off] = input],
      offset |-> IF off + 1 >= TAPS THEN 0 ELSE off + 1]

(* FIR::filter: write input at offset, run the coefficients down the      *)
(* buffer from offset to 0 and on from taps - 1, then advance offset.     *)
filter(buf, off, input) ==
  LET b    == [buf EXCEPT ![off] = input]
      term == [j \in 0 .. TAPS - 1 |->
                 coeffs[j] * (IF j <= off THEN b[off - j] ELSE b[TAPS - 1 - (j - off - 1)])]
  IN [output |-> SumOver(term, 0 .. off) + SumOver(term, off + 1 .. TAPS - 1),
      buffer |-> b,
      offset |-> IF off + 1 >= TAPS THEN 0 ELSE off + 1]

Init ==
  /\ ready = -1
  /\ pc = [t \in Threads |-> "arrive"]
  /\ left = [t \in Threads |-> samples]
  /\ q = [n \in Queues |-> <<>>]
  /\ buffer = [s \in Stages |-> [j \in 0 .. TAPS - 1 |-> 0]]
  /\ offset = [s \in Stages |-> 0]
  /\ held = [s \in Stages |-> None]
  /\ mpc = "release"
  /\ hist = [n \in Queues |-> <<>>]
  /\ refused = [s \in Stages |-> FALSE]

-----------------------------------------------------------------------------
(* ready++ (after srand, or after building the FIR), then the spin.        *)
Arrive(t) ==
  /\ pc[t] = "arrive"
  /\ ready' = ready + 1
  /\ pc' = [pc EXCEPT ![t] = "spin"]
  /\ UNCHANGED <<left, q, buffer, offset, held, mpc, hist, refused>>

(* while (ready != num_threads) spin.                                      *)
Start(t) ==
  /\ pc[t] = "spin"
  /\ ready = num_threads
  /\ pc' = [pc EXCEPT ![t] = "run"]
  /\ UNCHANGED <<ready, left, q, buffer, offset, held, mpc, hist, refused>>

(* while (t_samples--) ends: flush (input_stream, queued_fir), delete the  *)
(* FIR, return.                                                             *)
Finish(t) ==
  /\ pc[t] = "run"
  /\ left[t] = 0
  /\ t \in Stages => held[t] = None
  /\ pc' = [pc EXCEPT ![t] = "exit"]
  /\ UNCHANGED <<ready, left, q, buffer, offset, held, mpc, hist, refused>>

(* input_stream: a sample, pushed once bounded_push succeeds.              *)
InputPush ==
  /\ pc[Input] = "run"
  /\ left[Input] > 0
  /\ Len(q[0]) < CAP
  /\ \E v \in Values :
       /\ q' = [q EXCEPT ![0] = Append(@, v)]
       /\ hist' = [hist EXCEPT ![0] = Append(@, v)]
  /\ left' = [left EXCEPT ![Input] = @ - 1]
  /\ UNCHANGED <<ready, pc, buffer, offset, held, mpc, refused>>

(* queued_fir: the pop of input_data that succeeds.                        *)
FirPop(s) ==
  /\ pc[s] = "run"
  /\ left[s] > 0
  /\ held[s] = None
  /\ q[s - 1] # <<>>
  /\ held' = [held EXCEPT ![s] = Head(q[s - 1])]
  /\ q' = [q EXCEPT ![s - 1] = Tail(@)]
  /\ UNCHANGED <<ready, pc, left, buffer, offset, mpc, hist, refused>>

(* queued_fir: one try of bounded_push(fir1->filter(input_data)).  filter  *)
(* runs, and changes the FIR, whether or not the push succeeds.            *)
FirFilterPush(s) ==
  /\ pc[s] = "run"
  /\ held[s] # None
  /\ LET f == filter(buffer[s], offset[s], held[s]) IN
       /\ buffer' = [buffer EXCEPT ![s] = f.buffer]
       /\ offset' = [offset EXCEPT ![s] = f.offset]
       /\ IF Len(q[s]) < CAP
          THEN /\ q' = [q EXCEPT ![s] = Append(@, f.output)]
               /\ hist' = [hist EXCEPT ![s] = Append(@, f.output)]
               /\ held' = [held EXCEPT ![s] = None]
               /\ left' = [left EXCEPT ![s] = @ - 1]
               /\ UNCHANGED refused
          ELSE /\ refused' = [refused EXCEPT ![s] = TRUE]
               /\ UNCHANGED <<q, hist, held, left>>
  /\ UNCHANGED <<ready, pc, mpc>>

(* output_stream: the pop that succeeds.                                   *)
OutputPop ==
  /\ pc[Output] = "run"
  /\ left[Output] > 0
  /\ q[stages] # <<>>
  /\ q' = [q EXCEPT ![stages] = Tail(@)]
  /\ left' = [left EXCEPT ![Output] = @ - 1]
  /\ UNCHANGED <<ready, pc, buffer, offset, held, mpc, hist, refused>>

(* main: ready++ after starting the threads.                               *)
Release ==
  /\ mpc = "release"
  /\ ready' = ready + 1
  /\ mpc' = "join"
  /\ UNCHANGED <<pc, left, q, buffer, offset, held, hist, refused>>

(* main: the joins of input, the stages and output.                         *)
Join ==
  /\ mpc = "join"
  /\ \A t \in Threads : pc[t] = "exit"
  /\ mpc' = "exit"
  /\ UNCHANGED <<ready, pc, left, q, buffer, offset, held, hist, refused>>

Terminated == mpc = "exit" /\ UNCHANGED vars

Thread(t) ==
  \/ Arrive(t) \/ Start(t) \/ Finish(t)
  \/ t = Input /\ InputPush
  \/ t \in Stages /\ (FirPop(t) \/ FirFilterPush(t))
  \/ t = Output /\ OutputPop
MainStep == Release \/ Join

Next == MainStep \/ (\E t \in Threads : Thread(t)) \/ Terminated

(* Every thread is a scheduled thread; its retry loops yield, never stop. *)
Spec == Init /\ [][Next]_vars /\ WF_vars(MainStep) /\ \A t \in Threads : WF_vars(Thread(t))

-----------------------------------------------------------------------------
TypeOK ==
  /\ ready \in -1 .. num_threads
  /\ pc \in [Threads -> {"arrive", "spin", "run", "exit"}]
  /\ left \in [Threads -> 0 .. samples]
  /\ \A n \in Queues : Len(q[n]) <= CAP
  /\ offset \in [Stages -> 0 .. TAPS - 1]
  /\ mpc \in {"release", "join", "exit"}

(* The reference: the n-th output of a FIR over the inputs h.              *)
Convolution(h, n) ==
  SumOver([j \in 0 .. TAPS - 1 |-> coeffs[j] * (IF n - j >= 1 THEN h[n - j] ELSE 0)],
          0 .. TAPS - 1)

(* Every value stage s has pushed is the FIR of the values it popped, in  *)
(* order.                                                                   *)
StageFilters(s) ==
  \A n \in 1 .. Len(hist[s]) : hist[s][n] = Convolution(hist[s - 1], n)

(* Every stage whose pushes have all gone through outputs the FIR of its  *)
(* input: the circular buffer of FIR::filter is a convolution.             *)
FilterCorrectWhenAccepted == \A s \in Stages : ~refused[s] => StageFilters(s)

(* Every value the pipeline delivers is the stages' FIR of the samples,    *)
(* whatever the queues refuse.                                             *)
FilterCorrect == \A s \in Stages : StageFilters(s)

(* Every thread handles its samples values and main joins them.             *)
Termination == <>(mpc = "exit")

====
