---------------------------- MODULE StartThreads ----------------------------
(***************************************************************************)
(* How zmqServer::work and zmqClient::work start their threads.  One       *)
(* thread_param_t on the stack of the main thread serves them all: a new   *)
(* thread reads its number from it, while the main thread waits on a       *)
(* condition, to be signalled by the thread, before it increments the      *)
(* number.  There is no predicate, and nobody else takes the mutex: a      *)
(* signal sent before the wait is lost, and a wait that ends by itself     *)
(* lets the number change before the thread has read it.                   *)
(***************************************************************************)
EXTENDS Naturals

CONSTANT nthreads   \* at least 1, which main sees to

Threads == 0 .. nthreads - 1

VARIABLE
  start  \* main: where the main thread is;  nsocket: params.nsocket;
         \* thread: where every thread is;   index: the number it read;
         \* missed: a signal was lost;       early: a wait ended by itself

Init ==
  start = [main |-> "create", nsocket |-> 0,
           thread |-> [t \in Threads |-> "none"],
           index |-> [t \in Threads |-> 0],
           missed |-> FALSE, early |-> FALSE]

pthread_create ==
  /\ start.main = "create"
  /\ start' = [start EXCEPT !.main = "created",
                            !.thread[start.nsocket] = "created"]

pthread_create_fails ==
  /\ start.main = "create"
  /\ start' = [start EXCEPT !.main = "aborted"]

\* The next turn of the loop, or its end.
NextTurn ==
  [start EXCEPT !.main = IF start.nsocket + 1 < nthreads THEN "create" ELSE "started",
                !.nsocket = @ + 1]

\* Mutant: the main thread does not wait.
pthread_cond_wait_Skip ==
  /\ start.main = "created"
  /\ start' = NextTurn

pthread_cond_wait ==
  /\ start.main = "created"
  /\ start' = [start EXCEPT !.main = "waiting"]

SpuriousWakeup ==
  /\ start.main = "waiting"
  /\ start' = [NextTurn EXCEPT !.early = TRUE]

read_nsocket(t) ==
  /\ start.main # "aborted"
  /\ start.thread[t] = "created"
  /\ start' = [start EXCEPT !.thread[t] = "read", !.index[t] = start.nsocket]

\* Mutant: the thread does not signal.
pthread_cond_signal_Never(t) ==
  /\ start.thread[t] = "read"
  /\ start' = [start EXCEPT !.thread[t] = "running"]

pthread_cond_signal(t) ==
  /\ start.main # "aborted"
  /\ start.thread[t] = "read"
  /\ start' = [(IF start.main = "waiting" THEN NextTurn
                ELSE [start EXCEPT !.missed = TRUE])
               EXCEPT !.thread[t] = "running"]

MainStep ==
  pthread_create \/ pthread_create_fails \/ pthread_cond_wait

ThreadStep(t) == read_nsocket(t) \/ pthread_cond_signal(t)

\* The thread t is in its loop.  After a wait that ended by itself two threads
\* may share a socket, or one may have none, which is undefined behaviour: only
\* the start is followed then.
Runs(t) ==
  /\ start.main # "aborted"
  /\ ~start.early
  /\ start.thread[t] = "running"

-----------------------------------------------------------------------------

\* As long as no wait ended by itself, every thread has a socket of its own.
OwnSocket ==
  ~start.early =>
    \A t \in Threads : start.thread[t] \in {"read", "running"} => start.index[t] = t

\* The start has ended, or a signal is lost.
Ended == start.main \in {"started", "aborted"} \/ start.missed
=============================================================================
