---------------------------- MODULE LocalClients ----------------------------
(***************************************************************************)
(* The benchmark of src/src/local/main.cpp on top of the thread pool.  A   *)
(* client hands its buffer to the pool and waits on the buffer's condition *)
(* for the reply; a worker runs getItem or storeItem on the buffer, then   *)
(* signals that condition, then counts the request in nreq under           *)
(* cout_mutex.  When the time is up the sleeper thread takes cout_mutex,   *)
(* keeps it, and ends; main prints nreq and leaves.  Nobody destroys the   *)
(* pool.  What the cache does is not looked at here.                       *)
(*                                                                         *)
(* The job of a client is its buffer, so Jobs is instantiated to Clients.  *)
(* Nobody else locks the mutex that a client passes to pthread_cond_wait,  *)
(* and so it is left out.                                                  *)
(***************************************************************************)
EXTENDS Threadpool

CONSTANT MaxCalls   \* bound of the requests of a behaviour

ASSUME LocalClientsAssumption ==
  /\ Jobs = Clients
  /\ NullJobs = {}
  /\ MaxCalls \in Nat

VARIABLES
  loop,         \* where every client is in client_routine
  routine,      \* where every worker is in reader_routine or writer_routine
  nreq,
  cout_locked,  \* the sleeper has cout_mutex; others hold it for one step
  printed,      \* the number of requests that main printed
  ncalls        \* requests so far

local == <<loop, routine, nreq, cout_locked, printed, ncalls>>
allvars == <<vars, local>>

LocalInit ==
  /\ Init
  /\ loop = [c \in Clients |-> "call"]
  /\ routine = [w \in Workers |-> "op"]
  /\ nreq = 0
  /\ cout_locked = FALSE
  /\ printed = NULL
  /\ ncalls = 0

-----------------------------------------------------------------------------
(* client_routine *)

client_call(c) ==
  /\ loop[c] = "call"
  /\ ncalls < MaxCalls
  /\ add_task(c, c)
  /\ loop' = [loop EXCEPT ![c] = "add"]
  /\ ncalls' = ncalls + 1
  /\ UNCHANGED <<routine, nreq, cout_locked, printed>>

client_add(c) ==
  /\ ClientStep(c)
  /\ loop' = [loop EXCEPT ![c] = IF client'[c].pc = "idle" THEN "wait" ELSE @]
  /\ UNCHANGED <<routine, nreq, cout_locked, printed, ncalls>>

\* pthread_cond_wait; the client does not look whether its reply is there.
client_wait(c) ==
  /\ loop[c] = "wait"
  /\ loop' = [loop EXCEPT ![c] = "asleep"]
  /\ UNCHANGED <<vars, routine, nreq, cout_locked, printed, ncalls>>

\* It may return without a signal.
client_wakes(c) ==
  /\ loop[c] = "asleep"
  /\ loop' = [loop EXCEPT ![c] = "call"]
  /\ UNCHANGED <<vars, routine, nreq, cout_locked, printed, ncalls>>

-----------------------------------------------------------------------------
(* reader_routine and writer_routine *)

RoutineAt(w, pc) == worker[w].pc = "run" /\ routine[w] = pc

routine_op(w) ==
  /\ RoutineAt(w, "op")
  /\ routine' = [routine EXCEPT ![w] = "signal"]
  /\ UNCHANGED <<vars, loop, nreq, cout_locked, printed, ncalls>>

routine_signal(w) ==
  /\ RoutineAt(w, "signal")
  /\ LET c == tasks[worker[w].slot] IN
     loop' = [loop EXCEPT ![c] = IF @ = "asleep" THEN "call" ELSE @]
  /\ routine' = [routine EXCEPT ![w] = "count"]
  /\ UNCHANGED <<vars, nreq, cout_locked, printed, ncalls>>

routine_count(w) ==
  /\ RoutineAt(w, "count")
  /\ ~cout_locked
  /\ nreq' = nreq + 1
  /\ routine' = [routine EXCEPT ![w] = "return"]
  /\ UNCHANGED <<vars, loop, cout_locked, printed, ncalls>>

\* The rest of the worker's loop; its routine returns in run_task.
worker_step(w) ==
  /\ WorkerStep(w)
  /\ worker[w].pc = "run" => routine[w] = "return"
  /\ routine' = [routine EXCEPT ![w] = "op"]
  /\ UNCHANGED <<loop, nreq, cout_locked, printed, ncalls>>

-----------------------------------------------------------------------------
(* sleeper and main *)

\* Mutant: the sleeper gives the mutex back, and main prints.
sleeper_Unlocks ==
  /\ ~cout_locked
  /\ printed = NULL
  /\ printed' = nreq
  /\ UNCHANGED <<vars, loop, routine, nreq, cout_locked, ncalls>>

sleeper ==
  /\ ~cout_locked
  /\ cout_locked' = TRUE
  /\ UNCHANGED <<vars, loop, routine, nreq, printed, ncalls>>

main_prints ==
  /\ cout_locked
  /\ printed = NULL
  /\ printed' = nreq
  /\ UNCHANGED <<vars, loop, routine, nreq, cout_locked, ncalls>>

LocalNext ==
  \/ \E c \in Clients :
       client_call(c) \/ client_add(c) \/ client_wait(c) \/ client_wakes(c)
  \/ \E w \in Workers :
       routine_op(w) \/ routine_signal(w) \/ routine_count(w) \/ worker_step(w)
  \/ sleeper
  \/ main_prints

\* Every thread that can run does; cond_wait need not wake by itself, and
\* the time need not be up.
LocalFairness ==
  /\ \A c \in Clients : WF_allvars(client_call(c) \/ client_add(c) \/ client_wait(c))
  /\ \A w \in Workers :
       WF_allvars(routine_op(w) \/ routine_signal(w) \/ routine_count(w) \/ worker_step(w))

LocalSpec == LocalInit /\ [][LocalNext]_allvars /\ LocalFairness

-----------------------------------------------------------------------------

(***************************************************************************)
(* main reads nreq without cout_mutex (main.cpp:106), and yet the number   *)
(* it prints is final, because the sleeper has the mutex and keeps it      *)
(* (main.cpp:44).                                                          *)
(***************************************************************************)
PrintedIsFinal == printed # NULL => printed = nreq

(***************************************************************************)
(* Every request is counted once: it is on its way to the pool, or queued, *)
(* or with one worker that has not counted it, or in nreq.                 *)
(***************************************************************************)
CountedOnce ==
  ncalls = nreq + Len(tasks_queue)
           + Cardinality({c \in Clients : client[c].pc # "idle"})
           + Cardinality({w \in Workers : worker[w].pc = "run"
                                          /\ routine[w] # "return"})

(***************************************************************************)
(* "wait for reply from server" (main.cpp:23): a client that waits for its *)
(* reply gets it, as long as the benchmark lasts.                          *)
(***************************************************************************)
ClientsAnswered ==
  \A c \in Clients : loop[c] = "asleep" ~> (loop[c] # "asleep" \/ cout_locked)
=============================================================================
