----------------------------- MODULE Threadpool -----------------------------
(***************************************************************************)
(* The thread pool of src/src/local/threadpool.{hpp,cpp}: a fixed number   *)
(* of task slots that travel from the queue of free tasks through a caller *)
(* of add_task to the queue of tasks to do, to a worker and back.  Each    *)
(* queue has a mutex and a condition variable.  A critical section is one  *)
(* step; pthread_cond_wait ends it and puts the thread into the wait set   *)
(* of the condition until a broadcast, or for no reason at all, takes it   *)
(* out; then the thread runs its critical section again.                   *)
(*                                                                         *)
(* stop_flag is written outside any lock.  The critical section of         *)
(* get_task_to_do reads it twice, and is one step all the same: of the two *)
(* readings only one matters, the first when the queue is empty, and else  *)
(* the second.                                                             *)
(***************************************************************************)
EXTENDS Integers, Sequences, FiniteSets, Functions

CONSTANTS
  Workers, Clients,
  QUEUE_SIZE,     \* number of task slots
  Jobs,           \* what add_task is called with: a routine and its data
  NullJobs,       \* the jobs whose routine is NULL
  NULL

ASSUME ThreadpoolAssumption ==
  /\ QUEUE_SIZE \in Nat \ {0}
  /\ NullJobs \subseteq Jobs
  /\ NULL \notin Jobs \cup 1 .. QUEUE_SIZE

Slots == 1 .. QUEUE_SIZE

VARIABLES
  tasks,             \* the routine and data of every slot, NULL after init_task
  free_tasks_queue,
  tasks_queue,
  stop_flag,
  free_waiters,      \* clients waiting on free_tasks_cond
  waiters,           \* workers waiting on cond
  client,            \* the call of add_task of every client
  worker,            \* where every worker is, and the task it has
  owner              \* how far the thread that destroys the pool is

queues == <<tasks, free_tasks_queue, tasks_queue>>
conds == <<free_waiters, waiters>>
vars == <<queues, stop_flag, conds, client, worker, owner>>

NoCall == [pc |-> "idle", job |-> NULL, slot |-> NULL]

Init ==
  /\ tasks = [s \in Slots |-> NULL]
  /\ free_tasks_queue = [i \in Slots |-> i]
  /\ tasks_queue = <<>>
  /\ stop_flag = FALSE
  /\ free_waiters = {}
  /\ waiters = {}
  /\ client = [c \in Clients |-> NoCall]
  /\ worker = [w \in Workers |-> [pc |-> "get", slot |-> NULL]]
  /\ owner = "running"

-----------------------------------------------------------------------------
(* add_task *)

\* The pool may be called as long as nobody has begun to destroy it.
add_task(c, j) ==
  /\ client[c].pc = "idle"
  /\ owner = "running"
  /\ client' = [client EXCEPT ![c] = [pc |-> "take", job |-> j, slot |-> NULL]]
  /\ UNCHANGED <<queues, stop_flag, conds, worker, owner>>

add_task_take(c) ==
  /\ client[c].pc = "take"
  /\ c \notin free_waiters
  /\ \/ /\ free_tasks_queue = <<>>
        /\ free_waiters' = free_waiters \cup {c}
        /\ UNCHANGED <<free_tasks_queue, client>>
     \/ /\ free_tasks_queue # <<>>
        /\ free_tasks_queue' = Tail(free_tasks_queue)
        /\ client' = [client EXCEPT ![c].pc = "fill",
                                    ![c].slot = Head(free_tasks_queue)]
        /\ UNCHANGED free_waiters
  /\ UNCHANGED <<tasks, tasks_queue, stop_flag, waiters, worker, owner>>

add_task_fill(c) ==
  /\ client[c].pc = "fill"
  /\ tasks' = [tasks EXCEPT ![client[c].slot] = client[c].job]
  /\ client' = [client EXCEPT ![c].pc = "push"]
  /\ UNCHANGED <<free_tasks_queue, tasks_queue, stop_flag, conds, worker, owner>>

\* Mutant: one worker is woken and not all of them.
add_task_push_Signal(c) ==
  /\ client[c].pc = "push"
  /\ tasks_queue' = Append(tasks_queue, client[c].slot)
  /\ IF Len(tasks_queue') = 1 /\ waiters # {}
     THEN \E w \in waiters : waiters' = waiters \ {w}
     ELSE UNCHANGED waiters
  /\ client' = [client EXCEPT ![c] = NoCall]
  /\ UNCHANGED <<tasks, free_tasks_queue, stop_flag, free_waiters, worker, owner>>

\* Mutant: the size of the queue is tested before the push.
add_task_push_TestFirst(c) ==
  /\ client[c].pc = "push"
  /\ tasks_queue' = Append(tasks_queue, client[c].slot)
  /\ waiters' = IF Len(tasks_queue) = 1 THEN {} ELSE waiters
  /\ client' = [client EXCEPT ![c] = NoCall]
  /\ UNCHANGED <<tasks, free_tasks_queue, stop_flag, free_waiters, worker, owner>>

add_task_push(c) ==
  /\ client[c].pc = "push"
  /\ tasks_queue' = Append(tasks_queue, client[c].slot)
  /\ waiters' = IF Len(tasks_queue') = 1 THEN {} ELSE waiters
  /\ client' = [client EXCEPT ![c] = NoCall]
  /\ UNCHANGED <<tasks, free_tasks_queue, stop_flag, free_waiters, worker, owner>>

-----------------------------------------------------------------------------
(* worker_routine *)

WorkerAt(w, pc, slot) == worker' = [worker EXCEPT ![w] = [pc |-> pc, slot |-> slot]]

\* The test of stop_flag before the lock; a NULL task ends the worker.
get_task_to_do(w) ==
  /\ worker[w].pc = "get"
  /\ WorkerAt(w, IF stop_flag THEN "exit" ELSE "lock", NULL)
  /\ UNCHANGED <<queues, stop_flag, conds, client, owner>>

\* Mutant: the loop that waits for a task does not look at stop_flag.
get_task_to_do_locked_StopIgnored(w) ==
  /\ worker[w].pc = "lock"
  /\ w \notin waiters
  /\ \/ /\ tasks_queue = <<>>
        /\ waiters' = waiters \cup {w}
        /\ UNCHANGED <<worker, tasks_queue>>
     \/ /\ tasks_queue # <<>>
        /\ stop_flag
        /\ WorkerAt(w, "exit", NULL)
        /\ UNCHANGED <<waiters, tasks_queue>>
     \/ /\ tasks_queue # <<>>
        /\ ~stop_flag
        /\ tasks_queue' = Tail(tasks_queue)
        /\ WorkerAt(w, "run", Head(tasks_queue))
        /\ UNCHANGED waiters
  /\ UNCHANGED <<tasks, free_tasks_queue, stop_flag, free_waiters, client, owner>>

\* Mutant: the second test of stop_flag is missing.
get_task_to_do_locked_AfterStop(w) ==
  /\ worker[w].pc = "lock"
  /\ w \notin waiters
  /\ \/ /\ tasks_queue = <<>>
        /\ stop_flag
        /\ WorkerAt(w, "exit", NULL)
        /\ UNCHANGED <<waiters, tasks_queue>>
     \/ /\ tasks_queue = <<>>
        /\ ~stop_flag
        /\ waiters' = waiters \cup {w}
        /\ UNCHANGED <<worker, tasks_queue>>
     \/ /\ tasks_queue # <<>>
        /\ tasks_queue' = Tail(tasks_queue)
        /\ WorkerAt(w, "run", Head(tasks_queue))
        /\ UNCHANGED waiters
  /\ UNCHANGED <<tasks, free_tasks_queue, stop_flag, free_waiters, client, owner>>

\* Mutant: the task is read from the queue and stays there.
get_task_to_do_locked_NoPop(w) ==
  /\ worker[w].pc = "lock"
  /\ w \notin waiters
  /\ \/ /\ stop_flag
        /\ WorkerAt(w, "exit", NULL)
        /\ UNCHANGED waiters
     \/ /\ ~stop_flag
        /\ tasks_queue = <<>>
        /\ waiters' = waiters \cup {w}
        /\ UNCHANGED worker
     \/ /\ ~stop_flag
        /\ tasks_queue # <<>>
        /\ WorkerAt(w, "run", Head(tasks_queue))
        /\ UNCHANGED waiters
  /\ UNCHANGED <<queues, stop_flag, free_waiters, client, owner>>

get_task_to_do_locked(w) ==
  /\ worker[w].pc = "lock"
  /\ w \notin waiters
  /\ \/ /\ stop_flag
        /\ WorkerAt(w, "exit", NULL)
        /\ UNCHANGED <<waiters, tasks_queue>>
     \/ /\ ~stop_flag
        /\ tasks_queue = <<>>
        /\ waiters' = waiters \cup {w}
        /\ UNCHANGED <<worker, tasks_queue>>
     \/ /\ ~stop_flag
        /\ tasks_queue # <<>>
        /\ tasks_queue' = Tail(tasks_queue)
        /\ WorkerAt(w, "run", Head(tasks_queue))
        /\ UNCHANGED waiters
  /\ UNCHANGED <<tasks, free_tasks_queue, stop_flag, free_waiters, client, owner>>

\* Mutant: no task is released after its routine.
run_task_NoRelease(w) ==
  /\ worker[w].pc = "run"
  /\ tasks' = [tasks EXCEPT ![worker[w].slot] = NULL]
  /\ WorkerAt(w, "get", NULL)
  /\ UNCHANGED <<free_tasks_queue, tasks_queue, stop_flag, conds, client, owner>>

\* The routine returns and the slot is initialised; a task without a routine
\* is forgotten.
run_task(w) ==
  /\ worker[w].pc = "run"
  /\ LET s == worker[w].slot IN
     \/ /\ tasks[s] \in NullJobs
        /\ WorkerAt(w, "get", NULL)
        /\ UNCHANGED tasks
     \/ /\ tasks[s] \notin NullJobs
        /\ tasks' = [tasks EXCEPT ![s] = NULL]
        /\ WorkerAt(w, "release", s)
  /\ UNCHANGED <<free_tasks_queue, tasks_queue, stop_flag, conds, client, owner>>

\* Mutant: the size of the queue is tested before the push.
release_task_TestFirst(w) ==
  /\ worker[w].pc = "release"
  /\ free_tasks_queue' = Append(free_tasks_queue, worker[w].slot)
  /\ free_waiters' = IF Len(free_tasks_queue) = 1 THEN {} ELSE free_waiters
  /\ WorkerAt(w, "get", NULL)
  /\ UNCHANGED <<tasks, tasks_queue, stop_flag, waiters, client, owner>>

release_task(w) ==
  /\ worker[w].pc = "release"
  /\ free_tasks_queue' = Append(free_tasks_queue, worker[w].slot)
  /\ free_waiters' = IF Len(free_tasks_queue') = 1 THEN {} ELSE free_waiters
  /\ WorkerAt(w, "get", NULL)
  /\ UNCHANGED <<tasks, tasks_queue, stop_flag, waiters, client, owner>>

-----------------------------------------------------------------------------
(* The destructor, called when no call of add_task is under way. *)

stop ==
  /\ owner = "running"
  /\ \A c \in Clients : client[c].pc = "idle"
  /\ stop_flag' = TRUE
  /\ owner' = "broadcast"
  /\ UNCHANGED <<queues, conds, client, worker>>

stop_broadcast ==
  /\ owner = "broadcast"
  /\ waiters' = {}
  /\ owner' = "join"
  /\ UNCHANGED <<queues, stop_flag, free_waiters, client, worker>>

\* The frees that follow are not modelled: tasks, which is freed, is an array in
\* the pool itself (threadpool.hpp:25).
stop_join ==
  /\ owner = "join"
  /\ \A w \in Workers : worker[w].pc = "exit"
  /\ owner' = "joined"
  /\ UNCHANGED <<queues, stop_flag, conds, client, worker>>

\* pthread_cond_wait may return although nobody called signal or broadcast.
SpuriousWakeup(t) ==
  /\ t \in waiters \cup free_waiters
  /\ waiters' = waiters \ {t}
  /\ free_waiters' = free_waiters \ {t}
  /\ UNCHANGED <<queues, stop_flag, client, worker, owner>>

ClientStep(c) == add_task_take(c) \/ add_task_fill(c) \/ add_task_push(c)

WorkerStep(w) ==
  get_task_to_do(w) \/ get_task_to_do_locked(w) \/ run_task(w) \/ release_task(w)

StopStep == stop_broadcast \/ stop_join

Next ==
  \/ \E c \in Clients : (\E j \in Jobs : add_task(c, j)) \/ ClientStep(c)
  \/ \E w \in Workers : WorkerStep(w)
  \/ stop
  \/ StopStep
  \/ \E t \in Clients \cup Workers : SpuriousWakeup(t)

\* Threads that can run do, routines return; nobody has to call the pool.
Fairness ==
  /\ \A c \in Clients : WF_vars(ClientStep(c))
  /\ \A w \in Workers : WF_vars(WorkerStep(w))
  /\ WF_vars(StopStep)

Spec == Init /\ [][Next]_vars /\ Fairness

-----------------------------------------------------------------------------

PCClient == {"idle", "take", "fill", "push"}
PCWorker == {"get", "lock", "run", "release", "exit"}

(***************************************************************************)
(* The types of the queues and the threads; a slot that is free has been   *)
(* initialised, and one that is queued, or whose task runs, has not.       *)
(***************************************************************************)
TypeOK ==
  /\ tasks \in [Slots -> Jobs \cup {NULL}]
  /\ free_tasks_queue \in Seq(Slots)
  /\ tasks_queue \in Seq(Slots)
  /\ stop_flag \in BOOLEAN
  /\ client \in [Clients -> [pc : PCClient, job : Jobs \cup {NULL}, slot : Slots \cup {NULL}]]
  /\ worker \in [Workers -> [pc : PCWorker, slot : Slots \cup {NULL}]]
  /\ owner \in {"running", "broadcast", "join", "joined"}
  /\ \A s \in Range(free_tasks_queue) : tasks[s] = NULL
  /\ \A s \in Range(tasks_queue) : tasks[s] # NULL
  /\ \A c \in Clients :
       /\ client[c].job # NULL <=> client[c].pc # "idle"
       /\ client[c].slot # NULL <=> client[c].pc \in {"fill", "push"}
       /\ client[c].pc = "push" => tasks[client[c].slot] = client[c].job
  /\ \A w \in Workers :
       /\ worker[w].slot # NULL <=> worker[w].pc \in {"run", "release"}
       /\ worker[w].pc = "run" => tasks[worker[w].slot] # NULL
       /\ worker[w].pc = "release" => tasks[worker[w].slot] = NULL
  /\ \A c \in free_waiters : c \in Clients /\ client[c].pc = "take"
  /\ \A w \in waiters : w \in Workers /\ worker[w].pc = "lock"

InQueue(s) == s \in Range(free_tasks_queue) \cup Range(tasks_queue)

(***************************************************************************)
(* A slot is in one queue, once, or in the hands of one thread: no two     *)
(* jobs share a slot (threadpool.cpp:71-72, 104-105, 134).                 *)
(***************************************************************************)
NoSlotTwice ==
  /\ IsInjective(free_tasks_queue)
  /\ IsInjective(tasks_queue)
  /\ Range(free_tasks_queue) \cap Range(tasks_queue) = {}
  /\ \A c \in Clients :
       client[c].slot # NULL =>
         /\ ~InQueue(client[c].slot)
         /\ \A d \in Clients : d # c => client[d].slot # client[c].slot
         /\ \A w \in Workers : worker[w].slot # client[c].slot
  /\ \A w \in Workers :
       worker[w].slot # NULL =>
         /\ ~InQueue(worker[w].slot)
         /\ \A v \in Workers : v # w => worker[v].slot # worker[w].slot

InCirculation ==
  {s \in Slots : \/ InQueue(s)
                 \/ \E c \in Clients : client[c].slot = s
                 \/ \E w \in Workers : worker[w].slot = s}

(***************************************************************************)
(* "release the task by returning it to the free_tasks_queue"              *)
(* (threadpool.cpp:133): no slot leaves circulation, but with a job that   *)
(* has no routine, for which worker_routine skips that (lines 125-140).    *)
(***************************************************************************)
OnlyNullJobsLost == \A s \in Slots \ InCirculation : tasks[s] \in NullJobs

(***************************************************************************)
(* Although a condition is broadcast only when its queue gets its first    *)
(* element (threadpool.cpp:85, 135), nobody sleeps beside a queue that has *)
(* something for him.                                                      *)
(***************************************************************************)
NoSleepBesideWork ==
  /\ tasks_queue # <<>> => waiters = {}
  /\ free_tasks_queue # <<>> => free_waiters = {}

(***************************************************************************)
(* A queued task is taken by a worker, unless the pool is being destroyed. *)
(***************************************************************************)
TasksAreStarted ==
  \A s \in Slots :
    s \in Range(tasks_queue) ~> (s \notin Range(tasks_queue) \/ stop_flag)

(***************************************************************************)
(* Clients that wait for a free slot are all woken in the end, as long as  *)
(* there is a slot in circulation.                                         *)
(***************************************************************************)
WaitersAreWoken ==
  free_waiters # {} ~> (free_waiters = {} \/ InCirculation = {})

(***************************************************************************)
(* "This method stops all the worker threads (stop&exit) and frees the     *)
(* allocated memory. In case blocking != 0 the caller will block until all *)
(* workers have exited." (threadpool.hpp:70-72), of which this says the    *)
(* first and the last: once the destructor has set stop_flag, wherever the *)
(* workers are, all exit and are joined.  Nothing is said of the memory.   *)
(***************************************************************************)
WorkersAreJoined ==
  owner = "broadcast" ~> owner = "joined" /\ \A w \in Workers : worker[w].pc = "exit"

\* The pool as a bounded queue of jobs; a worker has its job until it is done.
Abstract == INSTANCE Executor
  WITH pending <- [i \in DOMAIN tasks_queue |-> tasks[tasks_queue[i]]],
       running <- [w \in Workers |->
                     IF worker[w].pc = "run" THEN tasks[worker[w].slot] ELSE NULL],
       stopped <- stop_flag,
       Capacity <- QUEUE_SIZE

(***************************************************************************)
(* The jobs given to add_task are run in their order, each once and by one *)
(* worker, with the routine and data it was given, and none is begun after *)
(* the pool was stopped.                                                   *)
(***************************************************************************)
ImplementsExecutor == Abstract!Spec
=============================================================================
