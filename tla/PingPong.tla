------------------------------ MODULE PingPong -------------------------------
(***************************************************************************)
(* The ping-pong benchmark of src/apps/pingpong/pingpong.cpp.              *)
(*                                                                         *)
(* ping pushes burst balls into mosi, numbering them ball.val++, then pops *)
(* burst receipts from miso and adds 256 to its ball; pong pops each ball *)
(* from mosi and pushes it straight back into miso.  Both do round rounds *)
(* after the ready barrier (ready starts at -1; ping, pong and main each  *)
(* count once and the players spin until it is 2); main joins them.        *)
(*                                                                         *)
(* Every push and pop sits in a while (!...) retry loop.  BUILD selects    *)
(* the queue: "vl", the vl_q_t of the VL build (twin_vl_push_strong waits  *)
(* for room in a FIFO of CAP values, twin_vl_pop_non fails on an empty    *)
(* one), or "m5", the m5_q_t of the M5VL build, whose producer and         *)
(* consumer keep one cache line each and whose byte 62 holds the slot     *)
(* pointer.  A failed pop that changes nothing is no step.                 *)
(*                                                                         *)
(* m5_vl_push and m5_vl_pop are gem5 operations outside this repository:   *)
(* the link is taken as a FIFO of whole lines, m5_vl_push always succeeds  *)
(* and m5_vl_pop copies the oldest line into cons_line, waiting for one.   *)
(***************************************************************************)
EXTENDS Naturals, Sequences, SequencesExt

CONSTANTS
  BUILD,      \* "vl" or "m5"
  burst,      \* argv[2]: balls per round
  round,      \* argv[1]: rounds
  CAP         \* values a vl_q_t holds before twin_vl_push_strong waits

VARIABLES
  ready,      \* the atomic ready barrier
  pc,         \* pc[p]: where player p is
  rnd,        \* rnd[p]: player p's round counter
  i,          \* i[p]: player p's burst index
  ball,       \* ball[p]: player p's ball_t (ping's ball, pong's ball)
  mosi,       \* the ping-to-pong queue
  miso,       \* the pong-to-ping queue
  mpc,        \* where main is
  sent,       \* every ball ping pushed (history)
  got,        \* every ball pong popped (history)
  rcvd        \* every receipt ping popped (history)

vars == <<ready, pc, rnd, i, ball, mosi, miso, mpc, sent, got, rcvd>>

Players == {"ping", "pong"}

-----------------------------------------------------------------------------
(* The m5_q_t lines: a value sits at byte offset 0, 8, ..., 48; byte 62 is *)
(* kept whole, its low six bits being the pointer Ptr.                      *)
Slots == {0, 8, 16, 24, 32, 40, 48}
EmptyLine == [s \in Slots |-> 0]
Byte(n) == n % 256
Low6(b) == b % 64                  \* b & 0x3f
High2(b) == b - (b % 64)            \* b & 0xc0

(* m5_q_t::open: prod_line[62] = 0xf0 (Ptr 48), cons_line[62] = 0xf8 (Ptr *)
(* 56, underflow); the global lines start zeroed.                          *)
M5Open == [prod |-> EmptyLine, pctrl |-> 240, cons |-> EmptyLine, cctrl |-> 248,
           link |-> <<>>]

(* m5_q_t::push: flush a full line, store the ball at Ptr, step Ptr down   *)
(* by 8 in a uint8_t, flush the line once Ptr wraps past 0, write Ptr back.*)
M5Push(Q, v) ==
  LET p0    == Low6(Q.pctrl)
      full0 == 48 < p0
      link1 == IF full0 THEN Append(Q.link, [slot |-> Q.prod, ctrl |-> Q.pctrl]) ELSE Q.link
      ctrl1 == IF full0 THEN 240 ELSE Q.pctrl
      ptr1  == Low6(ctrl1)
      prod1 == [Q.prod EXCEPT ![ptr1] = v]
      ptr2  == Byte(ptr1 - 8)
      full2 == 48 < ptr2
      link2 == IF full2 THEN Append(link1, [slot |-> prod1, ctrl |-> ctrl1]) ELSE link1
      ctrl2 == IF full2 THEN 240 ELSE ctrl1
      ptr3  == IF full2 THEN Low6(ctrl2) ELSE ptr2
  IN [Q EXCEPT !.prod = prod1, !.pctrl = High2(ctrl2) + Low6(ptr3), !.link = link2]

(* m5_q_t::pop: a valid read at Ptr <= 48 steps Ptr down by 8; a Ptr past *)
(* 48 fetches the next line (m5_vl_pop); then byte 62 gets Ptr - 8.        *)
M5Pop(Q) ==
  LET p0     == Low6(Q.cctrl)
      valid  == 48 >= p0
      p1     == IF valid THEN Byte(p0 - 8) ELSE p0
      refill == 48 < p1
      fetch  == refill /\ Q.link # <<>>
      cons1  == IF fetch THEN Head(Q.link).slot ELSE Q.cons
      c1     == IF fetch THEN Head(Q.link).ctrl ELSE Q.cctrl
  IN [valid |-> valid,
      val   |-> IF valid THEN Q.cons[p0] ELSE 0,
      returns |-> ~refill \/ Q.link # <<>>,
      q     |-> [Q EXCEPT !.cons = cons1, !.cctrl = High2(c1) + Low6(Byte(p1 - 8)),
                          !.link = IF fetch THEN Tail(Q.link) ELSE Q.link]]

(* vl_q_t::push and vl_q_t::pop over a FIFO of CAP values.                *)
VlPop(Q) ==
  [valid |-> Q # <<>>, val |-> IF Q # <<>> THEN Head(Q) ELSE 0, returns |-> TRUE,
   q |-> IF Q # <<>> THEN Tail(Q) ELSE Q]

QOpen == IF BUILD = "vl" THEN <<>> ELSE M5Open
CanPush(Q) == IF BUILD = "m5" THEN TRUE ELSE Len(Q) < CAP
PushQ(Q, v) == IF BUILD = "vl" THEN Append(Q, v) ELSE M5Push(Q, v)
PopQ(Q) == IF BUILD = "vl" THEN VlPop(Q) ELSE M5Pop(Q)

-----------------------------------------------------------------------------
Init ==
  /\ ready = -1
  /\ pc = [p \in Players |-> "arrive"]
  /\ rnd = [p \in Players |-> round]
  /\ i = [p \in Players |-> 0]
  /\ ball = [p \in Players |-> 0]
  /\ mosi = QOpen
  /\ miso = QOpen
  /\ mpc = "release"
  /\ sent = <<>> /\ got = <<>> /\ rcvd = <<>>

(* ready++, then while (ready != 2) spin, then the test of while (round--).*)
Arrive(p) ==
  /\ pc[p] = "arrive"
  /\ ready' = ready + 1
  /\ pc' = [pc EXCEPT ![p] = "spin"]
  /\ UNCHANGED <<rnd, i, ball, mosi, miso, mpc, sent, got, rcvd>>

Start(p) ==
  /\ pc[p] = "spin"
  /\ ready = 2
  /\ pc' = [pc EXCEPT ![p] = IF rnd[p] = 0 THEN "exit"
                              ELSE IF p = "ping" THEN "push" ELSE "pop"]
  /\ UNCHANGED <<ready, rnd, i, ball, mosi, miso, mpc, sent, got, rcvd>>

(* The end of one pass of the burst loop at i[p]: the next pass, or the   *)
(* next phase at next.                                                     *)
NextBall(p, next) ==
  IF i[p] + 1 < burst
  THEN i' = [i EXCEPT ![p] = i[p] + 1] /\ pc' = pc
  ELSE i' = [i EXCEPT ![p] = 0] /\ pc' = [pc EXCEPT ![p] = next]

(* The end of a round: while (round--) tests the count before it drops.   *)
EndRound(p, loop) == IF rnd[p] - 1 = 0 THEN "exit" ELSE loop

(* ping: while (!psend->push(ball)); ball.val++.                           *)
PingPush ==
  /\ pc["ping"] = "push"
  /\ CanPush(mosi)
  /\ mosi' = PushQ(mosi, ball["ping"])
  /\ sent' = Append(sent, ball["ping"])
  /\ ball' = [ball EXCEPT !["ping"] = @ + 1]
  /\ NextBall("ping", "pop")
  /\ UNCHANGED <<ready, rnd, miso, mpc, got, rcvd>>

(* ping: while (!precv->pop(receipt)); after the burst, ball.val += 256.   *)
PingPop ==
  /\ pc["ping"] = "pop"
  /\ LET r == PopQ(miso) IN
       /\ r.returns
       /\ miso' = r.q
       /\ IF r.valid
          THEN /\ rcvd' = Append(rcvd, r.val)
               /\ IF i["ping"] + 1 < burst
                  THEN /\ i' = [i EXCEPT !["ping"] = @ + 1]
                       /\ UNCHANGED <<pc, rnd, ball>>
                  ELSE /\ i' = [i EXCEPT !["ping"] = 0]
                       /\ ball' = [ball EXCEPT !["ping"] = @ + 256]
                       /\ rnd' = [rnd EXCEPT !["ping"] = @ - 1]
                       /\ pc' = [pc EXCEPT !["ping"] = EndRound("ping", "push")]
          ELSE /\ r.q # miso
               /\ UNCHANGED <<pc, rnd, i, ball, rcvd>>
  /\ UNCHANGED <<ready, mosi, mpc, sent, got>>

(* Mutant: pong calls precv->pop(ball) once, without the retry loop, and  *)
(* pushes whatever ball then holds.                                         *)
PongPopNoRetry ==
  /\ pc["pong"] = "pop"
  /\ LET r == PopQ(mosi) IN
       /\ r.returns
       /\ mosi' = r.q
       /\ ball' = [ball EXCEPT !["pong"] = IF r.valid THEN r.val ELSE @]
       /\ got' = IF r.valid THEN Append(got, r.val) ELSE got
       /\ pc' = [pc EXCEPT !["pong"] = "push"]
  /\ UNCHANGED <<ready, rnd, i, miso, mpc, sent, rcvd>>

(* pong: while (!precv->pop(ball)).                                         *)
PongPop ==
  /\ pc["pong"] = "pop"
  /\ LET r == PopQ(mosi) IN
       /\ r.returns
       /\ mosi' = r.q
       /\ IF r.valid
          THEN /\ ball' = [ball EXCEPT !["pong"] = r.val]
               /\ got' = Append(got, r.val)
               /\ pc' = [pc EXCEPT !["pong"] = "push"]
          ELSE /\ r.q # mosi
               /\ UNCHANGED <<ball, got, pc>>
  /\ UNCHANGED <<ready, rnd, i, miso, mpc, sent, rcvd>>

(* pong: while (!psend->push(ball)), the end of one pass of the burst.     *)
PongPush ==
  /\ pc["pong"] = "push"
  /\ CanPush(miso)
  /\ miso' = PushQ(miso, ball["pong"])
  /\ IF i["pong"] + 1 < burst
     THEN /\ i' = [i EXCEPT !["pong"] = @ + 1]
          /\ pc' = [pc EXCEPT !["pong"] = "pop"]
          /\ UNCHANGED rnd
     ELSE /\ i' = [i EXCEPT !["pong"] = 0]
          /\ rnd' = [rnd EXCEPT !["pong"] = @ - 1]
          /\ pc' = [pc EXCEPT !["pong"] = EndRound("pong", "pop")]
  /\ UNCHANGED <<ready, ball, mosi, mpc, sent, got, rcvd>>

(* main: ready++ after starting both players.                               *)
Release ==
  /\ mpc = "release"
  /\ ready' = ready + 1
  /\ mpc' = "join"
  /\ UNCHANGED <<pc, rnd, i, ball, mosi, miso, sent, got, rcvd>>

(* main: playerm.join(); players.join().                                    *)
Join ==
  /\ mpc = "join"
  /\ \A p \in Players : pc[p] = "exit"
  /\ mpc' = "exit"
  /\ UNCHANGED <<ready, pc, rnd, i, ball, mosi, miso, sent, got, rcvd>>

Terminated == mpc = "exit" /\ UNCHANGED vars

Player(p) ==
  \/ Arrive(p) \/ Start(p)
  \/ p = "ping" /\ (PingPush \/ PingPop)
  \/ p = "pong" /\ (PongPop \/ PongPush)
MainStep == Release \/ Join

Next == MainStep \/ (\E p \in Players : Player(p)) \/ Terminated

(* Both players are pinned to their own cores and spin; their retry loops *)
(* yield to nobody and never stop.                                          *)
Spec == Init /\ [][Next]_vars /\ WF_vars(MainStep) /\ \A p \in Players : WF_vars(Player(p))

-----------------------------------------------------------------------------
TypeOK ==
  /\ ready \in -1 .. 2
  /\ pc \in [Players -> {"arrive", "spin", "push", "pop", "exit"}]
  /\ rnd \in [Players -> 0 .. round]
  /\ i \in [Players -> 0 .. burst - 1]
  /\ mpc \in {"release", "join", "exit"}

(* The queues deliver in order and lose nothing: every ball pong pops is  *)
(* the next ball ping pushed, and every receipt ping pops is the next     *)
(* ball pong popped, through both queues and across rounds.                *)
EchoInOrder == IsPrefix(got, sent) /\ IsPrefix(rcvd, got)

(* The players end together: ping and pong both finish their round rounds. *)
Termination == <>(mpc = "exit")

====
