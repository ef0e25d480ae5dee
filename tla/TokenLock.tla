------------------------------ MODULE TokenLock ------------------------------
(***************************************************************************)
(* Locks emulated by a token in a queue: boost_qlock (src/src/             *)
(* boost_qlock.cc) and the VL lock of lockhammer (src/apps/lockhammer/     *)
(* include/vlink_lock.h), chosen by IMPL.                                   *)
(*                                                                         *)
(* The lock is free while its queue holds a token: acquire pops one,       *)
(* spinning until it can, and release pushes one back.  boost_qlock's      *)
(* token queue is made by get_boost_qlock.  The VL lock's is made by       *)
(* initialize_lock, which also sets ready to the number of threads; each   *)
(* thread then opens its endpoints, does ready-- and spins until ready is *)
(* 0.  ready is a volatile sig_atomic_t, so ready-- is a load and a store, *)
(* two steps another thread's ready-- may fall between.                    *)
(*                                                                         *)
(* The threads' endpoints are opened on VL descriptor 1; the token is      *)
(* pushed into the link mkvl(0) returned, MKVL_FD.  A link is a FIFO of    *)
(* bytes; byte_vl_pop_weak waits for one, byte_vl_push_non plus the flush  *)
(* delivers one.                                                            *)
(*                                                                         *)
(* The lockhammer driver that calls these is not in the repository; the    *)
(* threads follow its loop: thread_local_init, ITER times lock_acquire,    *)
(* the critical section and lock_release, then thread_local_done, with     *)
(* main making the lock before it starts them and joining them.            *)
(***************************************************************************)
EXTENDS Naturals, Sequences, FiniteSets

CONSTANTS
  IMPL,       \* "boost" or "vlink"
  N,          \* threads
  ITER,       \* acquisitions per thread
  MKVL_FD     \* the descriptor mkvl(0) returns

VARIABLES
  link,       \* link[fd]: the bytes in VL link fd (the boost queue is link[1])
  ready,      \* vlink_lock.h's ready
  tmp,        \* tmp[t]: the value thread t's ready-- loaded
  pc,         \* pc[t]: where thread t is
  left,       \* left[t]: acquisitions thread t has still to make
  mpc         \* where main is

vars == <<link, ready, tmp, pc, left, mpc>>

Threads == 1 .. N
Fds == {1, MKVL_FD}
ThreadFd == 1                                      \* where threads pop and push

Init ==
  /\ link = [fd \in Fds |-> <<>>]
  /\ ready = 0
  /\ tmp = [t \in Threads |-> 0]
  /\ pc = [t \in Threads |-> "init"]
  /\ left = [t \in Threads |-> ITER]
  /\ mpc = "init"

-----------------------------------------------------------------------------
(* get_boost_qlock: a queue holding the token 0.                          *)
get_boost_qlock ==
  /\ link' = [link EXCEPT ![1] = Append(@, 0)]
  /\ UNCHANGED ready

(* vlink_lock_init: ready = threads, *lock = mkvl(0), push 0xFF into it   *)
(* and flush.                                                               *)
vlink_lock_init ==
  /\ ready' = N
  /\ link' = [link EXCEPT ![MKVL_FD] = Append(@, 255)]

(* main makes the lock before it starts the threads.                       *)
MakeLock ==
  /\ mpc = "init"
  /\ IF IMPL = "boost" THEN get_boost_qlock ELSE vlink_lock_init
  /\ mpc' = "join"
  /\ UNCHANGED <<tmp, pc, left>>

(* The first step of a thread: boost_qlock has no thread_local_init; the *)
(* VL lock's opens both endpoints on descriptor 1 and loads ready.         *)
ThreadInit(t) ==
  /\ mpc # "init"
  /\ pc[t] = "init"
  /\ IF IMPL = "boost"
     THEN pc' = [pc EXCEPT ![t] = IF ITER = 0 THEN "done" ELSE "acquire"] /\ UNCHANGED tmp
     ELSE /\ tmp' = [tmp EXCEPT ![t] = ready]
          /\ pc' = [pc EXCEPT ![t] = "store"]
  /\ UNCHANGED <<link, ready, left, mpc>>

(* vlink_lock_thread_init: the store of ready--.                           *)
StoreReady(t) ==
  /\ pc[t] = "store"
  /\ ready' = tmp[t] - 1
  /\ pc' = [pc EXCEPT ![t] = "spin"]
  /\ UNCHANGED <<link, tmp, left, mpc>>

(* vlink_lock_thread_init: while (ready) spin.                             *)
PassBarrier(t) ==
  /\ pc[t] = "spin"
  /\ ready = 0
  /\ pc' = [pc EXCEPT ![t] = IF ITER = 0 THEN "done" ELSE "acquire"]
  /\ UNCHANGED <<link, ready, tmp, left, mpc>>

(* An acquire that ignores pop's result: one try, in whether it got the   *)
(* token or not.                                                            *)
AcquireNoRetry(t) ==
  /\ pc[t] = "acquire"
  /\ link' = [link EXCEPT ![ThreadFd] = IF @ = <<>> THEN @ ELSE Tail(@)]
  /\ pc' = [pc EXCEPT ![t] = "cs"]
  /\ UNCHANGED <<ready, tmp, left, mpc>>

(* boost_qlock_acquire: while (!qlock->pop(tmp)); or lock_acquire:        *)
(* byte_vl_pop_weak(&cons, &tmp).                                           *)
Acquire(t) ==
  /\ pc[t] = "acquire"
  /\ link[ThreadFd] # <<>>
  /\ link' = [link EXCEPT ![ThreadFd] = Tail(@)]
  /\ pc' = [pc EXCEPT ![t] = "cs"]
  /\ UNCHANGED <<ready, tmp, left, mpc>>

(* boost_qlock_release: qlock->push(0); or lock_release:                  *)
(* byte_vl_push_non(&prod, threadnum) and the flush.                        *)
Release(t) ==
  /\ pc[t] = "cs"
  /\ link' = [link EXCEPT ![ThreadFd] = Append(@, IF IMPL = "boost" THEN 0 ELSE t % 256)]
  /\ left' = [left EXCEPT ![t] = @ - 1]
  /\ pc' = [pc EXCEPT ![t] = IF left[t] - 1 = 0 THEN "done" ELSE "acquire"]
  /\ UNCHANGED <<ready, tmp, mpc>>

(* main joins the threads.                                                  *)
Join ==
  /\ mpc = "join"
  /\ \A t \in Threads : pc[t] = "done"
  /\ mpc' = "exit"
  /\ UNCHANGED <<link, ready, tmp, pc, left>>

Terminated == mpc = "exit" /\ UNCHANGED vars

Thread(t) == ThreadInit(t) \/ StoreReady(t) \/ PassBarrier(t) \/ Acquire(t) \/ Release(t)
MainStep == MakeLock \/ Join

Next == MainStep \/ (\E t \in Threads : Thread(t)) \/ Terminated

(* Every thread spins on its own core; no step of one disables another's  *)
(* for good once the holders are done.                                      *)
Spec == Init /\ [][Next]_vars /\ WF_vars(MainStep) /\ \A t \in Threads : WF_vars(Thread(t))

-----------------------------------------------------------------------------
TypeOK ==
  /\ link \in [Fds -> Seq(0 .. 255)]
  /\ pc \in [Threads -> {"init", "store", "spin", "acquire", "cs", "done"}]
  /\ left \in [Threads -> 0 .. ITER]
  /\ mpc \in {"init", "join", "exit"}

Holders == {t \in Threads : pc[t] = "cs"}
Tokens == Len(link[1]) + (IF MKVL_FD # 1 THEN Len(link[MKVL_FD]) ELSE 0)

(* Mutual exclusion: at most one thread is between lock_acquire and       *)
(* lock_release, and once the lock is made the token is either in a       *)
(* queue or held, never both nor neither.                                  *)
MutualExclusion ==
  /\ Cardinality(Holders) <= 1
  /\ mpc # "init" => Tokens + Cardinality(Holders) = 1

(* vlink_lock_thread_init: ready counts the threads that have not yet done *)
(* ready--, so that the barrier opens exactly when every thread is ready.  *)
ReadyCountsArrivals ==
  IMPL = "vlink" /\ mpc # "init" =>
    ready = N - Cardinality({t \in Threads : pc[t] \in {"spin", "acquire", "cs", "done"}})

(* Every thread makes its ITER acquisitions and main joins them.           *)
Termination == <>(mpc = "exit")

====
