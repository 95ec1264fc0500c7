---------------------------- MODULE LocalProofs ----------------------------
(***************************************************************************)
(* Theorems about the programs of src/src/local: the thread pool, and at   *)
(* the end the benchmark that runs on it.  Those about the pool rest on    *)
(* ThreadpoolAssumption alone, and so hold for any jobs and callers.       *)
(***************************************************************************)
EXTENDS LocalClients, FiniteSetTheorems, SequenceTheorems, TLAPS

(***************************************************************************)
(* push: the new element comes last, and is the only new one.              *)
(***************************************************************************)
LEMMA PushLemma ==
  ASSUME NEW S, NEW q \in Seq(S), NEW x \in S
  PROVE  /\ Append(q, x) \in Seq(S)
         /\ Append(q, x) # <<>>
         /\ Range(Append(q, x)) = Range(q) \cup {x}
         /\ IsInjective(q) /\ x \notin Range(q) => IsInjective(Append(q, x))
         /\ Len(Append(q, x)) = 1 <=> q = <<>>
<1> DEFINE r == Append(q, x)
<1>1. r \in Seq(S) /\ Len(r) = Len(q) + 1 /\ Len(q) \in Nat
  OBVIOUS
<1>2. DOMAIN q = 1 .. Len(q) /\ DOMAIN r = 1 .. Len(r)
  BY <1>1
<1>3. r[Len(r)] = x /\ \A i \in 1 .. Len(q) : r[i] = q[i]
  BY <1>1
<1>4. 1 .. Len(r) = (1 .. Len(q)) \cup {Len(r)} /\ Len(r) \notin 1 .. Len(q)
  BY <1>1
<1>5. Len(q) = 0 <=> q = <<>>
  OBVIOUS
<1> HIDE DEF r
<1>6. Range(r) = Range(q) \cup {x}
  BY <1>2, <1>3, <1>4 DEF Range
<1>7. IsInjective(q) /\ x \notin Range(q) => IsInjective(r)
  BY <1>2, <1>3, <1>4 DEF Range, IsInjective
<1>8. r # <<>>
  BY <1>1
<1> QED
  BY <1>1, <1>5, <1>6, <1>7, <1>8 DEF r

(***************************************************************************)
(* pop: the first element leaves, and with it its only occurrence.         *)
(***************************************************************************)
LEMMA PopLemma ==
  ASSUME NEW S, NEW q \in Seq(S), q # <<>>
  PROVE  /\ Tail(q) \in Seq(S)
         /\ Head(q) \in S /\ Head(q) \in Range(q)
         /\ Range(Tail(q)) \subseteq Range(q)
         /\ Range(q) \subseteq Range(Tail(q)) \cup {Head(q)}
         /\ IsInjective(q) => IsInjective(Tail(q)) /\ Head(q) \notin Range(Tail(q))
<1> DEFINE r == Tail(q)
<1>1. r \in Seq(S) /\ Len(r) = Len(q) - 1 /\ Len(q) \in Nat \ {0}
  OBVIOUS
<1>2. DOMAIN q = 1 .. Len(q) /\ DOMAIN r = 1 .. Len(r)
  BY <1>1
<1>3. Head(q) = q[1] /\ \A i \in 1 .. Len(r) : r[i] = q[i + 1]
  BY <1>1
<1>4. 1 \in 1 .. Len(q) /\ q[1] \in S
  BY <1>1
<1>5. \A i \in 1 .. Len(r) : i + 1 \in 1 .. Len(q) /\ i + 1 # 1
  BY <1>1
<1>6. \A j \in 1 .. Len(q) : j = 1 \/ (j - 1 \in 1 .. Len(r) /\ (j - 1) + 1 = j)
  BY <1>1
<1> HIDE DEF r
<1>7. Range(r) \subseteq Range(q)
  BY <1>2, <1>3, <1>5 DEF Range
<1>8. Range(q) \subseteq Range(r) \cup {q[1]}
  <2> SUFFICES ASSUME NEW j \in 1 .. Len(q), j # 1
               PROVE  q[j] \in Range(r)
    BY <1>2 DEF Range
  <2>1. j - 1 \in 1 .. Len(r) /\ r[j - 1] = q[j]
    BY <1>3, <1>6
  <2> QED
    BY <1>2, <2>1 DEF Range
<1>9. ASSUME IsInjective(q) PROVE IsInjective(r) /\ q[1] \notin Range(r)
  <2>1. \A i \in 1 .. Len(r) : r[i] # q[1]
    BY <1>2, <1>3, <1>4, <1>5, <1>9 DEF IsInjective
  <2>2. \A i, j \in 1 .. Len(r) : r[i] = r[j] => i = j
    <3> TAKE i, j \in 1 .. Len(r)
    <3>1. r[i] = r[j] => i + 1 = j + 1
      BY <1>2, <1>3, <1>5, <1>9 DEF IsInjective
    <3> QED
      BY <3>1, <1>1
  <2> QED
    BY <1>2, <2>1, <2>2 DEF IsInjective, Range
<1>10. q[1] \in Range(q)
  BY <1>2, <1>4 DEF Range
<1> QED
  BY <1>1, <1>3, <1>4, <1>7, <1>8, <1>9, <1>10 DEF r

-----------------------------------------------------------------------------

\* Slots have one place each, and the threads are where their slots say.
PoolInv == TypeOK /\ NoSlotTwice

NullFacts == NULL \notin Jobs /\ NULL \notin Slots /\ NullJobs \subseteq Jobs

LEMMA Nulls == NullFacts
BY ThreadpoolAssumption DEF NullFacts, Slots

LEMMA InitPool == Init => PoolInv
<1> SUFFICES ASSUME Init PROVE PoolInv
  OBVIOUS
<1>1. free_tasks_queue = [i \in Slots |-> i] /\ Slots = 1 .. QUEUE_SIZE /\ QUEUE_SIZE \in Nat
  BY ThreadpoolAssumption DEF Init, Slots
<1>2. free_tasks_queue \in Seq(Slots)
  BY <1>1
<1>3. IsInjective(free_tasks_queue)
  BY <1>1 DEF IsInjective
<1>4. tasks_queue \in Seq(Slots) /\ Range(tasks_queue) = {} /\ IsInjective(tasks_queue)
  BY DEF Init, Range, IsInjective
<1>5. Range(free_tasks_queue) \subseteq Slots
  BY <1>1 DEF Range
<1>6. TypeOK
  BY <1>2, <1>4, <1>5 DEF Init, TypeOK, NoCall, PCClient, PCWorker
<1>7. NoSlotTwice
  BY <1>3, <1>4 DEF Init, NoSlotTwice, NoCall
<1> QED
  BY <1>6, <1>7 DEF PoolInv

LEMMA AddTaskInv ==
  ASSUME PoolInv, NEW c \in Clients, NEW j \in Jobs, add_task(c, j)
  PROVE  PoolInv'
<1> USE Nulls DEF NullFacts
<1>1. TypeOK'
  BY DEF PoolInv, TypeOK, add_task, queues, conds, PCClient
<1>2. NoSlotTwice'
  BY DEF PoolInv, TypeOK, NoSlotTwice, InQueue, add_task, queues, conds, PCClient
<1> QED
  BY <1>1, <1>2 DEF PoolInv

LEMMA TakeInv ==
  ASSUME PoolInv, NEW c \in Clients, add_task_take(c)
  PROVE  PoolInv'
<1> USE Nulls DEF NullFacts
<1>1. CASE free_tasks_queue = <<>>
  <2>1. TypeOK'
    BY <1>1 DEF PoolInv, TypeOK, add_task_take, PCClient
  <2>2. NoSlotTwice'
    BY <1>1 DEF PoolInv, TypeOK, NoSlotTwice, InQueue, add_task_take
  <2> QED
    BY <2>1, <2>2 DEF PoolInv
<1>2. CASE free_tasks_queue # <<>>
  <2> DEFINE q == free_tasks_queue
             x == Head(free_tasks_queue)
             r == Tail(free_tasks_queue)
  <2>1. /\ r \in Seq(Slots) /\ x \in Slots /\ x \in Range(q)
        /\ Range(r) \subseteq Range(q) /\ IsInjective(r) /\ x \notin Range(r)
    BY <1>2, PopLemma DEF PoolInv, TypeOK, NoSlotTwice
  <2>2. /\ free_tasks_queue' = r
        /\ client' = [client EXCEPT ![c].pc = "fill", ![c].slot = x]
        /\ client[c].pc = "take" /\ c \notin free_waiters
        /\ UNCHANGED <<free_waiters, tasks, tasks_queue, stop_flag, waiters, worker, owner>>
    BY <1>2 DEF add_task_take
  <2> HIDE DEF r, x
  <2>3. TypeOK'
    BY <2>1, <2>2 DEF PoolInv, TypeOK, PCClient
  <2>4. x \notin Range(free_tasks_queue') \cup Range(tasks_queue')
    BY <2>1, <2>2 DEF PoolInv, NoSlotTwice
  <2>5. NoSlotTwice'
    BY <2>1, <2>2, <2>4 DEF PoolInv, TypeOK, NoSlotTwice, InQueue
  <2> QED
    BY <2>3, <2>5 DEF PoolInv
<1> QED
  BY <1>1, <1>2

LEMMA FillInv ==
  ASSUME PoolInv, NEW c \in Clients, add_task_fill(c)
  PROVE  PoolInv'
<1> USE Nulls DEF NullFacts
<1>1. TypeOK'
  BY DEF PoolInv, TypeOK, NoSlotTwice, InQueue, add_task_fill, conds, PCClient
<1>2. NoSlotTwice'
  BY DEF PoolInv, TypeOK, NoSlotTwice, InQueue, add_task_fill, conds
<1> QED
  BY <1>1, <1>2 DEF PoolInv

LEMMA PushInv ==
  ASSUME PoolInv, NEW c \in Clients, add_task_push(c)
  PROVE  PoolInv'
<1> USE Nulls DEF NullFacts
<1> DEFINE x == client[c].slot
           r == Append(tasks_queue, client[c].slot)
<1>1. x \in Slots /\ x \notin Range(tasks_queue) /\ tasks[x] # NULL
  BY DEF PoolInv, TypeOK, NoSlotTwice, InQueue, add_task_push
<1>2. /\ r \in Seq(Slots) /\ IsInjective(r) /\ Range(r) = Range(tasks_queue) \cup {x}
  BY <1>1, PushLemma DEF PoolInv, TypeOK, NoSlotTwice
<1>3. /\ tasks_queue' = r /\ client[c].pc = "push"
      /\ client' = [client EXCEPT ![c] = NoCall]
      /\ waiters' \subseteq waiters
      /\ UNCHANGED <<tasks, free_tasks_queue, stop_flag, free_waiters, worker, owner>>
  BY DEF add_task_push
<1> HIDE DEF r
<1>4. TypeOK'
  BY <1>1, <1>2, <1>3 DEF PoolInv, TypeOK, NoCall, PCClient
<1>5. NoSlotTwice'
  BY <1>1, <1>2, <1>3 DEF PoolInv, TypeOK, NoSlotTwice, InQueue, NoCall
<1> QED
  BY <1>4, <1>5 DEF PoolInv

LEMMA GetInv ==
  ASSUME PoolInv, NEW w \in Workers, get_task_to_do(w)
  PROVE  PoolInv'
<1> USE Nulls DEF NullFacts
<1>1. TypeOK'
  BY DEF PoolInv, TypeOK, get_task_to_do, WorkerAt, queues, conds, PCWorker
<1>2. NoSlotTwice'
  BY DEF PoolInv, TypeOK, NoSlotTwice, InQueue, get_task_to_do, WorkerAt, queues, conds
<1> QED
  BY <1>1, <1>2 DEF PoolInv

LEMMA LockedInv ==
  ASSUME PoolInv, NEW w \in Workers, get_task_to_do_locked(w)
  PROVE  PoolInv'
<1> USE Nulls DEF NullFacts
<1>1. CASE stop_flag
  <2>1. /\ worker[w].pc = "lock" /\ w \notin waiters
        /\ worker' = [worker EXCEPT ![w] = [pc |-> "exit", slot |-> NULL]]
        /\ UNCHANGED <<waiters, tasks, free_tasks_queue, tasks_queue, stop_flag,
                       free_waiters, client, owner>>
    BY <1>1 DEF get_task_to_do_locked, WorkerAt
  <2>2. TypeOK'
    BY <2>1 DEF PoolInv, TypeOK, PCWorker
  <2>3. NoSlotTwice'
    BY <2>1 DEF PoolInv, TypeOK, NoSlotTwice, InQueue
  <2> QED
    BY <2>2, <2>3 DEF PoolInv
<1>2. CASE ~stop_flag /\ tasks_queue = <<>>
  <2>1. /\ worker[w].pc = "lock" /\ waiters' = waiters \cup {w}
        /\ UNCHANGED <<worker, tasks, free_tasks_queue, tasks_queue, stop_flag,
                       free_waiters, client, owner>>
    BY <1>2 DEF get_task_to_do_locked
  <2>2. TypeOK'
    BY <2>1 DEF PoolInv, TypeOK, PCWorker
  <2>3. NoSlotTwice'
    BY <2>1 DEF PoolInv, TypeOK, NoSlotTwice, InQueue
  <2> QED
    BY <2>2, <2>3 DEF PoolInv
<1>3. CASE ~stop_flag /\ tasks_queue # <<>>
  <2> DEFINE q == tasks_queue
             x == Head(tasks_queue)
             r == Tail(tasks_queue)
  <2>1. /\ r \in Seq(Slots) /\ x \in Slots /\ x \in Range(q)
        /\ Range(r) \subseteq Range(q) /\ IsInjective(r) /\ x \notin Range(r)
    BY <1>3, PopLemma DEF PoolInv, TypeOK, NoSlotTwice
  <2>2. /\ tasks_queue' = r
        /\ worker' = [worker EXCEPT ![w] = [pc |-> "run", slot |-> x]]
        /\ worker[w].pc = "lock" /\ w \notin waiters
        /\ UNCHANGED <<waiters, tasks, free_tasks_queue, stop_flag, free_waiters, client, owner>>
    BY <1>3 DEF get_task_to_do_locked, WorkerAt
  <2> HIDE DEF r, x
  <2>3. TypeOK'
    BY <2>1, <2>2 DEF PoolInv, TypeOK, PCWorker
  <2>4. x \notin Range(free_tasks_queue') \cup Range(tasks_queue')
    BY <2>1, <2>2 DEF PoolInv, NoSlotTwice
  <2>5. NoSlotTwice'
    BY <2>1, <2>2, <2>4 DEF PoolInv, TypeOK, NoSlotTwice, InQueue
  <2> QED
    BY <2>3, <2>5 DEF PoolInv
<1> QED
  BY <1>1, <1>2, <1>3

LEMMA RunInv ==
  ASSUME PoolInv, NEW w \in Workers, run_task(w)
  PROVE  PoolInv'
<1> USE Nulls DEF NullFacts
<1> DEFINE s == worker[w].slot
<1>0. s \in Slots /\ worker[w].pc = "run" /\ ~InQueue(s)
  BY DEF PoolInv, TypeOK, NoSlotTwice, run_task
<1>1. CASE tasks[s] \in NullJobs
  <2>1. /\ worker' = [worker EXCEPT ![w] = [pc |-> "get", slot |-> NULL]]
        /\ UNCHANGED <<queues, stop_flag, conds, client, owner>>
    BY <1>1 DEF run_task, WorkerAt, queues
  <2>2. TypeOK'
    BY <1>0, <2>1 DEF PoolInv, TypeOK, PCWorker, queues, conds
  <2>3. NoSlotTwice'
    BY <1>0, <2>1 DEF PoolInv, TypeOK, NoSlotTwice, InQueue, queues, conds
  <2> QED
    BY <2>2, <2>3 DEF PoolInv
<1>2. CASE tasks[s] \notin NullJobs
  <2>1. /\ worker' = [worker EXCEPT ![w] = [pc |-> "release", slot |-> s]]
        /\ tasks' = [tasks EXCEPT ![s] = NULL]
        /\ UNCHANGED <<free_tasks_queue, tasks_queue, stop_flag, conds, client, owner>>
    BY <1>2 DEF run_task, WorkerAt
  <2>2. TypeOK'
    BY <1>0, <2>1 DEF PoolInv, TypeOK, NoSlotTwice, InQueue, PCWorker, conds
  <2>3. NoSlotTwice'
    BY <1>0, <2>1 DEF PoolInv, TypeOK, NoSlotTwice, InQueue, conds
  <2> QED
    BY <2>2, <2>3 DEF PoolInv
<1> QED
  BY <1>1, <1>2

LEMMA ReleaseInv ==
  ASSUME PoolInv, NEW w \in Workers, release_task(w)
  PROVE  PoolInv'
<1> USE Nulls DEF NullFacts
<1> DEFINE x == worker[w].slot
           r == Append(free_tasks_queue, worker[w].slot)
<1>1. x \in Slots /\ x \notin Range(free_tasks_queue) /\ tasks[x] = NULL
  BY DEF PoolInv, TypeOK, NoSlotTwice, InQueue, release_task
<1>2. /\ r \in Seq(Slots) /\ IsInjective(r) /\ Range(r) = Range(free_tasks_queue) \cup {x}
  BY <1>1, PushLemma DEF PoolInv, TypeOK, NoSlotTwice
<1>3. /\ free_tasks_queue' = r /\ worker[w].pc = "release"
      /\ worker' = [worker EXCEPT ![w] = [pc |-> "get", slot |-> NULL]]
      /\ free_waiters' \subseteq free_waiters
      /\ UNCHANGED <<tasks, tasks_queue, stop_flag, waiters, client, owner>>
  BY DEF release_task, WorkerAt
<1> HIDE DEF r
<1>4. TypeOK'
  BY <1>1, <1>2, <1>3 DEF PoolInv, TypeOK, PCWorker
<1>5. NoSlotTwice'
  BY <1>1, <1>2, <1>3 DEF PoolInv, TypeOK, NoSlotTwice, InQueue
<1> QED
  BY <1>4, <1>5 DEF PoolInv

\* The destructor and wake-ups leave the slots where they are.
LEMMA OtherInv ==
  ASSUME PoolInv,
         \/ stop \/ StopStep
         \/ \E t \in Clients \cup Workers : SpuriousWakeup(t)
         \/ UNCHANGED vars
  PROVE  PoolInv'
<1>1. /\ waiters' \subseteq waiters /\ free_waiters' \subseteq free_waiters
      /\ stop_flag' \in BOOLEAN
      /\ owner' \in {"running", "broadcast", "join", "joined"}
      /\ UNCHANGED <<tasks, free_tasks_queue, tasks_queue, client, worker>>
  BY DEF PoolInv, TypeOK, stop, StopStep, stop_broadcast, stop_join, SpuriousWakeup,
         vars, queues, conds
<1>2. TypeOK'
  BY <1>1 DEF PoolInv, TypeOK
<1>3. NoSlotTwice'
  BY <1>1 DEF PoolInv, NoSlotTwice, InQueue
<1> QED
  BY <1>2, <1>3 DEF PoolInv

LEMMA NextPool == PoolInv /\ [Next]_vars => PoolInv'
<1> SUFFICES ASSUME PoolInv, [Next]_vars PROVE PoolInv'
  OBVIOUS
<1>1. ASSUME NEW c \in Clients, NEW j \in Jobs, add_task(c, j) PROVE PoolInv'
  BY <1>1, AddTaskInv
<1>2. ASSUME NEW c \in Clients, ClientStep(c) PROVE PoolInv'
  BY <1>2, TakeInv, FillInv, PushInv DEF ClientStep
<1>3. ASSUME NEW w \in Workers, WorkerStep(w) PROVE PoolInv'
  BY <1>3, GetInv, LockedInv, RunInv, ReleaseInv DEF WorkerStep
<1> QED
  BY <1>1, <1>2, <1>3, OtherInv DEF Next

LEMMA PoolCorrect == Spec => []PoolInv
<1> QED
  BY InitPool, NextPool, PTL DEF Spec

(***************************************************************************)
(* The queues hold slots, a thread has a slot exactly between taking it    *)
(* and passing it on, and a slot that is free has been initialised.        *)
(***************************************************************************)
THEOREM TypeCorrect == Spec => []TypeOK
<1>1. PoolInv => TypeOK
  BY DEF PoolInv
<1> QED
  BY <1>1, PoolCorrect, PTL

(***************************************************************************)
(* No two jobs ever share a slot (threadpool.cpp:71-72, 104-105, 134): for *)
(* any number of slots, callers and workers.                               *)
(***************************************************************************)
THEOREM SlotsHaveOnePlace == Spec => []NoSlotTwice
<1>1. PoolInv => NoSlotTwice
  BY DEF PoolInv
<1> QED
  BY <1>1, PoolCorrect, PTL

-----------------------------------------------------------------------------

(***************************************************************************)
(* One step keeps NoSleepBesideWork: who is put to sleep has found his     *)
(* queue empty, and the push that ends this state is the one that wakes    *)
(* all, since it makes the queue one element long.                         *)
(***************************************************************************)
LEMMA NextAwake == TypeOK /\ NoSleepBesideWork /\ [Next]_vars => NoSleepBesideWork'
<1> SUFFICES ASSUME TypeOK, NoSleepBesideWork, [Next]_vars PROVE NoSleepBesideWork'
  OBVIOUS
<1> USE Nulls DEF NullFacts
<1>1. CASE \/ UNCHANGED <<tasks_queue, waiters, free_tasks_queue, free_waiters>>
           \/ stop_broadcast \/ \E t \in Clients \cup Workers : SpuriousWakeup(t)
  BY <1>1 DEF NoSleepBesideWork, stop_broadcast, SpuriousWakeup, queues
<1>2. ASSUME NEW c \in Clients, add_task_take(c) PROVE NoSleepBesideWork'
  BY <1>2 DEF NoSleepBesideWork, add_task_take, TypeOK
<1>3. ASSUME NEW c \in Clients, add_task_push(c) PROVE NoSleepBesideWork'
  <2>1. client[c].slot \in Slots /\ tasks_queue \in Seq(Slots)
    BY <1>3 DEF TypeOK, add_task_push
  <2>2. Len(Append(tasks_queue, client[c].slot)) = 1 <=> tasks_queue = <<>>
    BY <2>1, PushLemma
  <2> QED
    BY <1>3, <2>2 DEF NoSleepBesideWork, add_task_push
<1>4. ASSUME NEW w \in Workers, get_task_to_do_locked(w) PROVE NoSleepBesideWork'
  BY <1>4 DEF NoSleepBesideWork, get_task_to_do_locked, TypeOK
<1>5. ASSUME NEW w \in Workers, release_task(w) PROVE NoSleepBesideWork'
  <2>1. worker[w].slot \in Slots /\ free_tasks_queue \in Seq(Slots)
    BY <1>5 DEF TypeOK, release_task
  <2>2. Len(Append(free_tasks_queue, worker[w].slot)) = 1 <=> free_tasks_queue = <<>>
    BY <2>1, PushLemma
  <2> QED
    BY <1>5, <2>2 DEF NoSleepBesideWork, release_task
<1>6. \/ UNCHANGED <<tasks_queue, waiters, free_tasks_queue, free_waiters>>
      \/ stop_broadcast \/ \E t \in Clients \cup Workers : SpuriousWakeup(t)
      \/ \E c \in Clients : add_task_take(c) \/ add_task_push(c)
      \/ \E w \in Workers : get_task_to_do_locked(w) \/ release_task(w)
  <2>1. ASSUME NEW c \in Clients, NEW j \in Jobs, add_task(c, j)
        PROVE  UNCHANGED <<tasks_queue, waiters, free_tasks_queue, free_waiters>>
    BY <2>1 DEF add_task, queues, conds
  <2>2. ASSUME NEW c \in Clients, add_task_fill(c)
        PROVE  UNCHANGED <<tasks_queue, waiters, free_tasks_queue, free_waiters>>
    BY <2>2 DEF add_task_fill, conds
  <2>3. ASSUME NEW w \in Workers, get_task_to_do(w) \/ run_task(w)
        PROVE  UNCHANGED <<tasks_queue, waiters, free_tasks_queue, free_waiters>>
    BY <2>3 DEF get_task_to_do, run_task, queues, conds
  <2>4. ASSUME stop \/ stop_join \/ UNCHANGED vars
        PROVE  UNCHANGED <<tasks_queue, waiters, free_tasks_queue, free_waiters>>
    BY <2>4 DEF stop, stop_join, vars, queues, conds
  <2> QED
    BY <2>1, <2>2, <2>3, <2>4 DEF Next, ClientStep, WorkerStep, StopStep
<1> QED
  BY <1>1, <1>2, <1>3, <1>4, <1>5, <1>6

(***************************************************************************)
(* Nobody sleeps beside a queue that has something for him, although       *)
(* threadpool.cpp:85 and 135 broadcast only when the length becomes 1.     *)
(***************************************************************************)
THEOREM NobodyIsForgotten == Spec => []NoSleepBesideWork
<1>1. Init => NoSleepBesideWork
  BY DEF Init, NoSleepBesideWork
<1> QED
  BY <1>1, NextAwake, TypeCorrect, PTL DEF Spec

-----------------------------------------------------------------------------

(***************************************************************************)
(* A step that keeps the routines of the slots out of circulation, and     *)
(* takes none out but one whose task has no routine, keeps                 *)
(* OnlyNullJobsLost.                                                       *)
(***************************************************************************)
LEMMA LossLemma ==
  ASSUME OnlyNullJobsLost,
         \A s \in Slots : s \notin InCirculation' =>
           \/ s \notin InCirculation /\ tasks'[s] = tasks[s]
           \/ tasks'[s] \in NullJobs
  PROVE  OnlyNullJobsLost'
BY DEF OnlyNullJobsLost

\* A slot that one thread has moves to the other end of its way, and the rest stay.
LEMMA NextLoss == PoolInv /\ OnlyNullJobsLost /\ [Next]_vars => OnlyNullJobsLost'
<1> SUFFICES ASSUME PoolInv, OnlyNullJobsLost, [Next]_vars PROVE OnlyNullJobsLost'
  OBVIOUS
<1> USE Nulls DEF NullFacts
<1>1. CASE UNCHANGED <<tasks, tasks_queue, free_tasks_queue, client, worker>>
  BY <1>1 DEF OnlyNullJobsLost, InCirculation, InQueue
<1>2. ASSUME NEW c \in Clients, NEW j \in Jobs, add_task(c, j) PROVE OnlyNullJobsLost'
  <2>1. \A d \in Clients : client'[d].slot = client[d].slot
    BY <1>2 DEF add_task, PoolInv, TypeOK, PCClient
  <2>2. InCirculation' = InCirculation /\ tasks' = tasks
    BY <1>2, <2>1 DEF add_task, queues, InCirculation, InQueue
  <2> QED
    BY <2>2 DEF OnlyNullJobsLost
<1>3. ASSUME NEW c \in Clients, add_task_take(c), free_tasks_queue # <<>>
      PROVE  OnlyNullJobsLost'
  <2>1. Range(free_tasks_queue) \subseteq Range(free_tasks_queue') \cup {client'[c].slot}
    BY <1>3, PopLemma DEF add_task_take, PoolInv, TypeOK
  <2>2. \A d \in Clients : client[d].slot \in {NULL, client'[d].slot}
    BY <1>3 DEF add_task_take, PoolInv, TypeOK
  <2>3. UNCHANGED <<tasks, tasks_queue, worker>>
    BY <1>3 DEF add_task_take
  <2>4. InCirculation \subseteq InCirculation'
    BY <2>1, <2>2, <2>3 DEF InCirculation, InQueue
  <2> QED
    BY <2>3, <2>4, LossLemma
<1>4. ASSUME NEW c \in Clients, add_task_fill(c) PROVE OnlyNullJobsLost'
  <2>1. \A d \in Clients : client'[d].slot = client[d].slot
    BY <1>4 DEF add_task_fill, PoolInv, TypeOK
  <2>2. InCirculation' = InCirculation
    BY <1>4, <2>1 DEF add_task_fill, InCirculation, InQueue
  <2>3. \A s \in Slots : s # client[c].slot => tasks'[s] = tasks[s]
    BY <1>4 DEF add_task_fill, PoolInv, TypeOK
  <2>4. client[c].slot \in Slots => client[c].slot \in InCirculation
    BY DEF InCirculation
  <2> QED
    BY <2>2, <2>3, <2>4, LossLemma
<1>5. ASSUME NEW c \in Clients, add_task_push(c) PROVE OnlyNullJobsLost'
  <2>1. Range(tasks_queue') = Range(tasks_queue) \cup {client[c].slot}
    BY <1>5, PushLemma DEF add_task_push, PoolInv, TypeOK
  <2>2. \A d \in Clients : d # c => client'[d].slot = client[d].slot
    BY <1>5 DEF add_task_push, PoolInv, TypeOK
  <2>3. UNCHANGED <<tasks, free_tasks_queue, worker>>
    BY <1>5 DEF add_task_push
  <2>4. InCirculation \subseteq InCirculation'
    BY <2>1, <2>2, <2>3 DEF InCirculation, InQueue
  <2> QED
    BY <2>3, <2>4, LossLemma
<1>6. ASSUME NEW w \in Workers, get_task_to_do(w) \/ get_task_to_do_locked(w)
      PROVE  OnlyNullJobsLost'
  <2>1. /\ UNCHANGED <<tasks, free_tasks_queue, client>>
        /\ \A v \in Workers : worker[v].slot \in {NULL, worker'[v].slot}
    BY <1>6 DEF get_task_to_do, get_task_to_do_locked, WorkerAt, queues, PoolInv, TypeOK
  <2>2. Range(tasks_queue) \subseteq Range(tasks_queue') \cup {worker'[w].slot}
    <3>1. CASE UNCHANGED tasks_queue
      BY <3>1
    <3>2. CASE tasks_queue # <<>> /\ tasks_queue' = Tail(tasks_queue)
               /\ worker' = [worker EXCEPT ![w] = [pc |-> "run", slot |-> Head(tasks_queue)]]
      BY <3>2, PopLemma DEF PoolInv, TypeOK
    <3> QED
      BY <1>6, <3>1, <3>2 DEF get_task_to_do, get_task_to_do_locked, WorkerAt, queues
  <2>3. InCirculation \subseteq InCirculation'
    BY <2>1, <2>2 DEF InCirculation, InQueue
  <2> QED
    BY <2>1, <2>3, LossLemma
<1>7. ASSUME NEW w \in Workers, run_task(w) PROVE OnlyNullJobsLost'
  <2> DEFINE s == worker[w].slot
  <2>1. UNCHANGED <<free_tasks_queue, tasks_queue, client>>
    BY <1>7 DEF run_task
  <2>2. \A v \in Workers : v # w => worker'[v].slot = worker[v].slot
    BY <1>7 DEF run_task, WorkerAt, PoolInv, TypeOK
  <2>3. CASE tasks[s] \in NullJobs
    <3>1. tasks' = tasks
      BY <1>7, <2>3 DEF run_task
    <3>2. InCirculation \subseteq InCirculation' \cup {s}
      BY <2>1, <2>2 DEF InCirculation, InQueue
    <3> QED
      BY <2>3, <3>1, <3>2, LossLemma
  <2>4. CASE tasks[s] \notin NullJobs
    <3>1. worker'[w].slot = s
      BY <1>7, <2>4 DEF run_task, WorkerAt, PoolInv, TypeOK
    <3>2. InCirculation' = InCirculation
      BY <2>1, <2>2, <3>1 DEF InCirculation, InQueue
    <3>3. \A x \in Slots : x # s => tasks'[x] = tasks[x]
      BY <1>7, <2>4 DEF run_task, PoolInv, TypeOK
    <3>4. s \in Slots => s \in InCirculation
      BY DEF InCirculation
    <3> QED
      BY <3>2, <3>3, <3>4, LossLemma
  <2> QED
    BY <2>3, <2>4
<1>8. ASSUME NEW w \in Workers, release_task(w) PROVE OnlyNullJobsLost'
  <2>1. Range(free_tasks_queue') = Range(free_tasks_queue) \cup {worker[w].slot}
    BY <1>8, PushLemma DEF release_task, PoolInv, TypeOK
  <2>2. \A v \in Workers : v # w => worker'[v].slot = worker[v].slot
    BY <1>8 DEF release_task, WorkerAt, PoolInv, TypeOK
  <2>3. UNCHANGED <<tasks, tasks_queue, client>>
    BY <1>8 DEF release_task
  <2>4. InCirculation \subseteq InCirculation'
    BY <2>1, <2>2, <2>3 DEF InCirculation, InQueue
  <2> QED
    BY <2>3, <2>4, LossLemma
<1>9. CASE \/ stop \/ StopStep \/ UNCHANGED vars
           \/ \E t \in Clients \cup Workers : SpuriousWakeup(t)
  BY <1>9, <1>1 DEF stop, StopStep, stop_broadcast, stop_join, SpuriousWakeup, vars, queues
<1>10. ASSUME NEW c \in Clients, add_task_take(c), free_tasks_queue = <<>>
       PROVE  OnlyNullJobsLost'
  BY <1>1, <1>10 DEF add_task_take
<1> QED
  BY <1>2, <1>3, <1>4, <1>5, <1>6, <1>7, <1>8, <1>9, <1>10
     DEF Next, ClientStep, WorkerStep

(***************************************************************************)
(* Every slot stays in circulation, but with a job without a routine,      *)
(* after which worker_routine releases nothing (threadpool.cpp:125-140).   *)
(***************************************************************************)
THEOREM SlotsStay == Spec => []OnlyNullJobsLost
<1>1. Init => OnlyNullJobsLost
  <2>1. ASSUME Init, NEW s \in Slots PROVE s \in InCirculation
    <3>1. s \in DOMAIN free_tasks_queue /\ free_tasks_queue[s] = s
      BY <2>1 DEF Init
    <3> QED
      BY <3>1 DEF InCirculation, InQueue, Range
  <2> QED
    BY <2>1 DEF OnlyNullJobsLost
<1> QED
  BY <1>1, NextLoss, PoolCorrect, PTL DEF Spec

-----------------------------------------------------------------------------
(***************************************************************************)
(* Every step of the thread pool is a step of Executor, or does not change *)
(* what Executor sees.                                                     *)
(***************************************************************************)

\* What Executor sees of a state.
Pending == [i \in DOMAIN tasks_queue |-> tasks[tasks_queue[i]]]
Running == [w \in Workers |-> IF worker[w].pc = "run" THEN tasks[worker[w].slot] ELSE NULL]
BusyNow == {w \in Workers : Running[w] # NULL}

PendingFacts ==
  /\ Pending \in Seq(Jobs) /\ Len(Pending) = Len(tasks_queue)
  /\ Len(tasks_queue) \in Nat /\ DOMAIN tasks_queue = 1 .. Len(tasks_queue)
  /\ \A i \in 1 .. Len(tasks_queue) : Pending[i] = tasks[tasks_queue[i]]
  /\ Running \in [Workers -> Jobs \cup {NULL}]
  /\ \A w \in Workers : Running[w] # NULL <=> worker[w].pc = "run"

LEMMA PendingLemma == TypeOK => PendingFacts
<1> SUFFICES ASSUME TypeOK PROVE PendingFacts
  OBVIOUS
<1> USE Nulls DEF NullFacts
<1>1. Len(tasks_queue) \in Nat /\ DOMAIN tasks_queue = 1 .. Len(tasks_queue)
  BY DEF TypeOK
<1>2. \A i \in 1 .. Len(tasks_queue) : tasks[tasks_queue[i]] \in Jobs
  BY <1>1 DEF TypeOK, Range
<1>3. Pending \in [1 .. Len(tasks_queue) -> Jobs]
  BY <1>1, <1>2 DEF Pending
<1>4. Pending \in Seq(Jobs) /\ Len(Pending) = Len(tasks_queue)
  BY <1>1, <1>3
<1>5. \A w \in Workers : worker[w].pc = "run" => tasks[worker[w].slot] \in Jobs
  BY DEF TypeOK
<1> QED
  BY <1>1, <1>3, <1>4, <1>5 DEF Pending, Running, PendingFacts

LEMMA PendingLemmaNext == TypeOK' => PendingFacts'
BY PendingLemma, PTL

(***************************************************************************)
(* The slot a client is about to queue is neither queued nor run, and no   *)
(* other slot is counted twice: there is room for its job.                 *)
(***************************************************************************)
LEMMA RoomLemma ==
  ASSUME PoolInv, NEW c \in Clients, client[c].pc = "push"
  PROVE  Len(Pending) + Cardinality(BusyNow) < QUEUE_SIZE
<1> DEFINE n == Len(tasks_queue)
           A == Range(tasks_queue)
           f == [w \in BusyNow |-> worker[w].slot]
           B == Range(f)
           s == client[c].slot
<1>1. n \in Nat /\ tasks_queue \in Bijection(1 .. n, A)
  <2>1. n \in Nat /\ DOMAIN tasks_queue = 1 .. n /\ tasks_queue \in [1 .. n -> Slots]
    BY DEF PoolInv, TypeOK
  <2>2. tasks_queue \in [1 .. n -> A] /\ \A t \in A : \E i \in 1 .. n : tasks_queue[i] = t
    BY <2>1 DEF Range
  <2>3. IsInjective(tasks_queue)
    BY DEF PoolInv, NoSlotTwice
  <2> HIDE DEF n, A
  <2> QED
    BY <2>1, <2>2, <2>3 DEF Bijection, Injection, Surjection
<1>2. IsFiniteSet(A) /\ Cardinality(A) = n
  <2>1. ExistsBijection(1 .. n, A)
    BY <1>1 DEF ExistsBijection
  <2> QED
    BY <1>1, <2>1, FS_NatBijection, FS_CountingElements
<1>3. \A w \in BusyNow : w \in Workers /\ worker[w].pc = "run"
                         /\ worker[w].slot \in Slots /\ worker[w].slot # NULL
  BY PendingLemma, Nulls DEF PoolInv, TypeOK, BusyNow, NullFacts, PendingFacts
<1>4. IsFiniteSet(Slots) /\ Cardinality(Slots) = QUEUE_SIZE
  <2>1. 1 \in Int /\ QUEUE_SIZE \in Int /\ QUEUE_SIZE >= 1
    BY ThreadpoolAssumption
  <2>2. IsFiniteSet(1 .. QUEUE_SIZE) /\ Cardinality(1 .. QUEUE_SIZE) = QUEUE_SIZE
    BY <2>1, FS_Interval
  <2> QED
    BY <2>2 DEF Slots
<1>5. f \in Injection(BusyNow, Slots)
  BY <1>3 DEF PoolInv, NoSlotTwice, Injection, IsInjective
<1>6. IsFiniteSet(BusyNow)
  BY <1>4, <1>5, FS_Injection
<1>7. f \in Bijection(BusyNow, B)
  BY <1>5 DEF Injection, IsInjective, Surjection, Bijection, Range
<1>8. IsFiniteSet(B) /\ Cardinality(B) = Cardinality(BusyNow)
  BY <1>6, <1>7, FS_Bijection DEF ExistsBijection
<1>9. A \cap B = {} /\ A \cup B \subseteq Slots \ {s} /\ s \in Slots
  <2>1. s \in Slots /\ s # NULL
    BY DEF PoolInv, TypeOK
  <2>2. A \subseteq Slots \ {s}
    BY <2>1 DEF PoolInv, TypeOK, NoSlotTwice, InQueue, Range
  <2>3. \A w \in BusyNow : f[w] \in Slots \ {s} /\ f[w] \notin A
    BY <2>1, <1>3 DEF PoolInv, NoSlotTwice, InQueue
  <2> QED
    BY <2>1, <2>2, <2>3 DEF Range
<1> HIDE DEF A, B, n, f
<1>10. IsFiniteSet(A \cup B) /\ Cardinality(A \cup B) = n + Cardinality(BusyNow)
  <2>1. /\ IsFiniteSet(A \cup B)
        /\ Cardinality(A \cup B) = Cardinality(A) + Cardinality(B) - Cardinality(A \cap B)
    BY <1>2, <1>8, FS_Union
  <2>2. Cardinality(A \cap B) = 0 /\ Cardinality(BusyNow) \in Nat
    BY <1>6, <1>9, FS_EmptySet, FS_CardinalityType
  <2> QED
    BY <1>1, <1>2, <1>8, <2>1, <2>2
<1>11. IsFiniteSet(Slots \ {s}) /\ Cardinality(Slots \ {s}) = QUEUE_SIZE - 1
  BY <1>4, <1>9, FS_RemoveElement
<1>12. Cardinality(A \cup B) <= QUEUE_SIZE - 1
  BY <1>9, <1>11, FS_Subset
<1>13. n + Cardinality(BusyNow) < QUEUE_SIZE
  <2>1. Cardinality(BusyNow) \in Nat /\ QUEUE_SIZE \in Nat
    BY <1>6, FS_CardinalityType, ThreadpoolAssumption
  <2> QED
    BY <1>1, <1>10, <1>12, <2>1
<1> QED
  BY <1>13, PendingLemma DEF n, PoolInv, PendingFacts

-----------------------------------------------------------------------------

\* The pool is not stopped while a call of add_task is under way.
StopInv ==
  /\ stop_flag <=> owner # "running"
  /\ stop_flag => \A c \in Clients : client[c].pc = "idle"

LEMMA NextStop == TypeOK /\ StopInv /\ [Next]_vars => StopInv'
<1> SUFFICES ASSUME TypeOK, StopInv, [Next]_vars PROVE StopInv'
  OBVIOUS
<1>1. CASE \/ UNCHANGED <<stop_flag, owner, client>> \/ stop \/ StopStep
  BY <1>1 DEF TypeOK, StopInv, stop, StopStep, stop_broadcast, stop_join
<1>2. ASSUME NEW c \in Clients, NEW j \in Jobs, add_task(c, j) PROVE StopInv'
  BY <1>2 DEF StopInv, add_task
<1>3. ASSUME NEW c \in Clients, ClientStep(c) PROVE StopInv'
  <2>1. client[c].pc # "idle" /\ UNCHANGED <<stop_flag, owner>>
    BY <1>3 DEF ClientStep, add_task_take, add_task_fill, add_task_push
  <2> QED
    BY <2>1 DEF StopInv
<1>4. ASSUME NEW w \in Workers, WorkerStep(w) PROVE UNCHANGED <<stop_flag, owner, client>>
  BY <1>4 DEF WorkerStep, get_task_to_do, get_task_to_do_locked, run_task, release_task
<1>5. ASSUME \/ \E t \in Clients \cup Workers : SpuriousWakeup(t)
             \/ UNCHANGED vars
      PROVE  UNCHANGED <<stop_flag, owner, client>>
  BY <1>5 DEF SpuriousWakeup, vars
<1> QED
  BY <1>1, <1>2, <1>3, <1>4, <1>5 DEF Next

Seen == <<Pending, Running, stop_flag>>

\* What Executor sees changes with the queue of tasks to do, and with what the
\* slots in it, or in the hands of a running worker, contain.
LEMMA SeenLemma ==
  ASSUME UNCHANGED <<tasks_queue, stop_flag>>,
         \A s \in Range(tasks_queue) : tasks'[s] = tasks[s],
         \A w \in Workers : worker'[w].pc = "run" <=> worker[w].pc = "run",
         \A w \in Workers : worker[w].pc = "run" =>
           worker'[w].slot = worker[w].slot /\ tasks'[worker[w].slot] = tasks[worker[w].slot]
  PROVE  UNCHANGED Seen
<1>1. Pending' = Pending
  BY DEF Pending, Range
<1>2. Running' = Running
  BY DEF Running
<1> QED
  BY <1>1, <1>2 DEF Seen

LEMMA SameCardinality == \A S : Abstract!Cardinality(S) = Cardinality(S)
BY DEF Abstract!Cardinality, Cardinality

LEMMA PushStep ==
  ASSUME PoolInv, PoolInv', StopInv, NEW c \in Clients, add_task_push(c),
         NEW j \in Jobs, j = client[c].job
  PROVE  Abstract!Submit(j)
<1> USE Nulls DEF NullFacts
<1> DEFINE n == Len(tasks_queue)
<1>1. /\ ~stop_flag /\ client[c].slot \in Slots
      /\ tasks[client[c].slot] = j /\ tasks_queue \in Seq(Slots) /\ n \in Nat
  BY DEF PoolInv, TypeOK, StopInv, add_task_push
<1>2. /\ tasks_queue' = Append(tasks_queue, client[c].slot)
      /\ UNCHANGED <<tasks, stop_flag, worker>>
  BY DEF add_task_push
<1>3. Running' = Running
  BY <1>2 DEF Running
<1>4. Pending' = Append(Pending, j)
  <2>1. Pending \in Seq(Jobs) /\ Len(Pending) = n /\ \A i \in 1 .. n : Pending[i] = tasks[tasks_queue[i]]
    BY PendingLemma DEF PoolInv, PendingFacts
  <2>2. /\ Pending' \in Seq(Jobs) /\ Len(Pending') = Len(tasks_queue')
        /\ \A i \in 1 .. Len(tasks_queue') : Pending'[i] = tasks'[tasks_queue'[i]]
    BY PendingLemmaNext DEF PoolInv, PendingFacts
  <2>3. /\ Len(tasks_queue') = n + 1 /\ tasks_queue'[n + 1] = client[c].slot
        /\ \A i \in 1 .. n : tasks_queue'[i] = tasks_queue[i]
    BY <1>1, <1>2
  <2>4. /\ Append(Pending, j) \in Seq(Jobs) /\ Len(Append(Pending, j)) = n + 1
        /\ Append(Pending, j)[n + 1] = j
        /\ \A i \in 1 .. n : Append(Pending, j)[i] = Pending[i]
    BY <1>1, <2>1
  <2>5. \A i \in 1 .. n + 1 : i = n + 1 \/ i \in 1 .. n
    BY <1>1
  <2>6. \A i \in 1 .. n + 1 : Pending'[i] = Append(Pending, j)[i]
    BY <1>1, <1>2, <2>1, <2>2, <2>3, <2>4, <2>5
  <2> QED
    BY <2>2, <2>3, <2>4, <2>6, SeqEqual
<1>5. Len(Pending) + Cardinality(BusyNow) < QUEUE_SIZE
  BY RoomLemma DEF add_task_push
<1>6. Abstract!Busy = BusyNow
  BY DEF Abstract!Busy, BusyNow, Running
<1>7. Len(Pending) + Abstract!Cardinality(Abstract!Busy) < QUEUE_SIZE
  BY <1>5, <1>6, SameCardinality
<1> QED
  BY <1>1, <1>2, <1>3, <1>4, <1>7 DEF Abstract!Submit, Pending, Running

LEMMA BeginStep ==
  ASSUME PoolInv, PoolInv', NEW w \in Workers, get_task_to_do_locked(w),
         ~stop_flag, tasks_queue # <<>>
  PROVE  Abstract!Begin(w)
<1> USE Nulls DEF NullFacts
<1> DEFINE n == Len(tasks_queue)
<1>1. /\ tasks_queue \in Seq(Slots) /\ n \in Nat \ {0} /\ DOMAIN worker = Workers
      /\ \A v \in Workers : worker[v] \in [pc : PCWorker, slot : Slots \cup {NULL}]
  BY DEF PoolInv, TypeOK
<1>2. /\ tasks_queue' = Tail(tasks_queue) /\ worker[w].pc = "lock"
      /\ worker' = [worker EXCEPT ![w] = [pc |-> "run", slot |-> Head(tasks_queue)]]
      /\ UNCHANGED <<tasks, stop_flag>>
  BY DEF get_task_to_do_locked, WorkerAt
<1>3. /\ Pending \in Seq(Jobs) /\ Len(Pending) = n
      /\ \A i \in 1 .. n : Pending[i] = tasks[tasks_queue[i]]
  BY PendingLemma DEF PoolInv, PendingFacts
<1>4. /\ Pending' \in Seq(Jobs) /\ Len(Pending') = Len(tasks_queue')
      /\ \A i \in 1 .. Len(tasks_queue') : Pending'[i] = tasks'[tasks_queue'[i]]
  BY PendingLemmaNext DEF PoolInv, PendingFacts
<1>5. Pending # <<>> /\ Head(Pending) = tasks[Head(tasks_queue)]
  BY <1>1, <1>3
<1>6. Pending' = Tail(Pending)
  <2>1. /\ Tail(Pending) \in Seq(Jobs) /\ Len(Tail(Pending)) = n - 1
        /\ \A i \in 1 .. n - 1 : Tail(Pending)[i] = Pending[i + 1]
    BY <1>3, <1>5
  <2>2. /\ Len(tasks_queue') = n - 1
        /\ \A i \in 1 .. n - 1 : tasks_queue'[i] = tasks_queue[i + 1]
    BY <1>1, <1>2
  <2>3. \A i \in 1 .. n - 1 : i + 1 \in 1 .. n
    BY <1>1
  <2>4. \A i \in 1 .. n - 1 : Pending'[i] = Tail(Pending)[i]
    BY <1>2, <1>3, <1>4, <2>1, <2>2, <2>3
  <2> QED
    BY <1>4, <2>1, <2>2, <2>4, SeqEqual
<1>7. Running[w] = NULL
  BY <1>2 DEF Running
<1>8. Running' = [Running EXCEPT ![w] = Head(Pending)]
  <2>1. \A v \in Workers : Running'[v] = IF v = w THEN Head(Pending) ELSE Running[v]
    BY <1>1, <1>2, <1>5 DEF Running
  <2> QED
    BY <2>1 DEF Running
<1> QED
  BY <1>2, <1>5, <1>6, <1>7, <1>8 DEF Abstract!Begin, Pending, Running

LEMMA EndStep ==
  ASSUME PoolInv, PoolInv', NEW w \in Workers, run_task(w)
  PROVE  Abstract!End(w)
<1> USE Nulls DEF NullFacts
<1> DEFINE s == worker[w].slot
<1>1. /\ s \in Slots /\ worker[w].pc = "run" /\ tasks[s] \in Jobs /\ DOMAIN worker = Workers
      /\ DOMAIN tasks = Slots
      /\ \A v \in Workers : worker[v] \in [pc : PCWorker, slot : Slots \cup {NULL}]
  BY DEF PoolInv, TypeOK, run_task
<1>2. s \notin Range(tasks_queue) /\ \A v \in Workers : v # w => worker[v].slot # s
  BY <1>1 DEF PoolInv, NoSlotTwice, InQueue
<1>3. UNCHANGED <<tasks_queue, stop_flag>>
  BY DEF run_task
<1>4. /\ \A x \in Slots : x # s => tasks'[x] = tasks[x]
      /\ \A v \in Workers : v # w => worker'[v] = worker[v]
      /\ worker'[w].pc # "run"
  BY <1>1 DEF run_task, WorkerAt
<1>5. Pending' = Pending
  BY <1>2, <1>3, <1>4 DEF Pending, Range, PoolInv, TypeOK
<1>6. Running[w] # NULL
  BY <1>1 DEF Running
<1>7. Running' = [Running EXCEPT ![w] = NULL]
  <2>1. \A v \in Workers : worker[v].pc = "run" => worker[v].slot \in Slots
    BY DEF PoolInv, TypeOK
  <2>2. \A v \in Workers : Running'[v] = IF v = w THEN NULL ELSE Running[v]
    BY <1>1, <1>2, <1>4, <2>1 DEF Running
  <2> QED
    BY <2>2 DEF Running
<1> QED
  BY <1>3, <1>5, <1>6, <1>7 DEF Abstract!End, Pending, Running

\* The steps that Executor does not see.
LEMMA StutterStep ==
  ASSUME PoolInv,
         \/ \E c \in Clients : (\E j \in Jobs : add_task(c, j)) \/ add_task_take(c) \/ add_task_fill(c)
         \/ \E w \in Workers : get_task_to_do(w) \/ release_task(w)
         \/ \E w \in Workers : get_task_to_do_locked(w) /\ (stop_flag \/ tasks_queue = <<>>)
         \/ StopStep
         \/ \E t \in Clients \cup Workers : SpuriousWakeup(t)
         \/ UNCHANGED vars
  PROVE  UNCHANGED Seen
<1> USE Nulls DEF NullFacts
<1>1. CASE UNCHANGED <<tasks, tasks_queue, stop_flag, worker>>
  BY <1>1, SeenLemma
<1>2. ASSUME NEW c \in Clients, add_task_fill(c) PROVE UNCHANGED Seen
  <2>1. /\ client[c].slot \in Slots /\ client[c].slot \notin Range(tasks_queue)
        /\ \A w \in Workers : worker[w].slot # client[c].slot
    BY <1>2 DEF PoolInv, TypeOK, NoSlotTwice, InQueue, add_task_fill
  <2>2. \A s \in Slots : s # client[c].slot => tasks'[s] = tasks[s]
    BY <1>2 DEF add_task_fill, PoolInv, TypeOK
  <2>3. UNCHANGED <<tasks_queue, stop_flag, worker>>
    BY <1>2 DEF add_task_fill
  <2>4. \A s \in Range(tasks_queue) : s \in Slots
    BY DEF PoolInv, TypeOK, Range
  <2>5. \A w \in Workers : worker[w].pc = "run" => worker[w].slot \in Slots
    BY DEF PoolInv, TypeOK
  <2> QED
    BY <2>1, <2>2, <2>3, <2>4, <2>5, SeenLemma
<1>3. ASSUME NEW w \in Workers,
             \/ get_task_to_do(w) \/ release_task(w)
             \/ get_task_to_do_locked(w) /\ (stop_flag \/ tasks_queue = <<>>)
      PROVE  UNCHANGED Seen
  <2>1. /\ UNCHANGED <<tasks, tasks_queue, stop_flag>>
        /\ \A v \in Workers : v # w => worker'[v] = worker[v]
        /\ worker[w].pc # "run" /\ worker'[w].pc # "run"
    BY <1>3 DEF get_task_to_do, release_task, get_task_to_do_locked, WorkerAt, queues,
                PoolInv, TypeOK
  <2> QED
    BY <2>1, SeenLemma
<1>4. ASSUME \/ \E c \in Clients : (\E j \in Jobs : add_task(c, j)) \/ add_task_take(c)
             \/ StopStep
             \/ \E t \in Clients \cup Workers : SpuriousWakeup(t)
             \/ UNCHANGED vars
      PROVE  UNCHANGED <<tasks, tasks_queue, stop_flag, worker>>
  BY <1>4 DEF add_task, add_task_take, StopStep, stop_broadcast, stop_join, SpuriousWakeup,
              vars, queues
<1> QED
  BY <1>1, <1>2, <1>3, <1>4

LEMMA ExecutorInit == Init => Abstract!Init
<1> SUFFICES ASSUME Init PROVE Abstract!Init
  OBVIOUS
<1>1. tasks_queue = <<>> /\ stop_flag = FALSE /\ \A w \in Workers : worker[w].pc = "get"
  BY DEF Init
<1>2. [i \in DOMAIN tasks_queue |-> tasks[tasks_queue[i]]] = <<>>
  BY <1>1
<1> QED
  BY <1>1, <1>2 DEF Abstract!Init

LEMMA ExecutorNext ==
  PoolInv /\ PoolInv' /\ StopInv /\ [Next]_vars => (Abstract!Next \/ UNCHANGED Seen)
<1> SUFFICES ASSUME PoolInv, PoolInv', StopInv, [Next]_vars
             PROVE  Abstract!Next \/ UNCHANGED Seen
  OBVIOUS
<1>1. ASSUME NEW c \in Clients, add_task_push(c) PROVE Abstract!Next
  <2>1. PICK j \in Jobs : j = client[c].job
    BY <1>1, Nulls DEF add_task_push, PoolInv, TypeOK, NullFacts
  <2>2. Abstract!Submit(j)
    BY <1>1, <2>1, PushStep
  <2> QED
    BY <2>2 DEF Abstract!Next
<1>2. ASSUME NEW w \in Workers, get_task_to_do_locked(w), ~stop_flag, tasks_queue # <<>>
      PROVE  Abstract!Next
  BY <1>2, BeginStep DEF Abstract!Next
<1>3. ASSUME NEW w \in Workers, run_task(w) PROVE Abstract!Next
  BY <1>3, EndStep DEF Abstract!Next
<1>4. ASSUME stop PROVE Abstract!Next
  <2>1. ~stop_flag /\ stop_flag' = TRUE /\ UNCHANGED <<Pending, Running>>
    BY <1>4 DEF stop, queues, StopInv, PoolInv, TypeOK, Pending, Running
  <2> QED
    BY <2>1 DEF Abstract!Next, Abstract!Stop, Pending, Running
<1> QED
  BY <1>1, <1>2, <1>3, <1>4, StutterStep DEF Next, ClientStep, WorkerStep

(***************************************************************************)
(* The jobs given to add_task are begun in the order in which they were    *)
(* queued, each once, by one worker, with the routine and data it was      *)
(* given; never more than QUEUE_SIZE are there, and none is begun after    *)
(* stop_flag was set (threadpool.cpp:64-140): for any number of slots,     *)
(* callers and workers.                                                    *)
(***************************************************************************)
THEOREM PoolIsExecutor == Spec => ImplementsExecutor
<1>1. Init => Abstract!Init /\ StopInv
  BY ExecutorInit DEF Init, StopInv
<1>2. (Abstract!Next \/ UNCHANGED Seen) =>
        [Abstract!Next]_<<[i \in DOMAIN tasks_queue |-> tasks[tasks_queue[i]]],
                          [w \in Workers |-> IF worker[w].pc = "run"
                                             THEN tasks[worker[w].slot] ELSE NULL],
                          stop_flag>>
  BY DEF Seen, Pending, Running
<1>3. PoolInv => TypeOK
  BY DEF PoolInv
<1> QED
  BY <1>1, <1>2, <1>3, NextStop, ExecutorNext, PoolCorrect, PTL
     DEF Spec, ImplementsExecutor, Abstract!Spec

-----------------------------------------------------------------------------

(***************************************************************************)
(* The benchmark.  What it does with the pool is what the pool's callers   *)
(* and workers may do: the invariants of the pool are the benchmark's too. *)
(***************************************************************************)
LEMMA LocalPool == [LocalNext]_allvars => [Next]_vars
<1> SUFFICES ASSUME [LocalNext]_allvars PROVE Next \/ UNCHANGED vars
  OBVIOUS
<1>1. ASSUME NEW c \in Clients, client_call(c) PROVE Next
  BY <1>1, LocalClientsAssumption DEF client_call, Next
<1>2. ASSUME NEW c \in Clients, client_add(c) PROVE Next
  BY <1>2 DEF client_add, Next
<1>3. ASSUME NEW w \in Workers, worker_step(w) PROVE Next
  BY <1>3 DEF worker_step, Next
<1>4. ASSUME NEW c \in Clients, client_wait(c) \/ client_wakes(c) PROVE UNCHANGED vars
  BY <1>4 DEF client_wait, client_wakes
<1>5. ASSUME NEW w \in Workers, routine_op(w) \/ routine_signal(w) \/ routine_count(w)
      PROVE  UNCHANGED vars
  BY <1>5 DEF routine_op, routine_signal, routine_count
<1>6. CASE sleeper \/ main_prints \/ UNCHANGED allvars
  BY <1>6 DEF sleeper, main_prints, allvars
<1> QED
  BY <1>1, <1>2, <1>3, <1>4, <1>5, <1>6 DEF LocalNext

(***************************************************************************)
(* The sleeper has cout_mutex whenever main has printed, and without that  *)
(* mutex nobody counts.                                                    *)
(***************************************************************************)
PrintInv == printed # NULL => cout_locked /\ printed = nreq

LEMMA NextPrint == PrintInv /\ [LocalNext]_allvars => PrintInv'
<1> SUFFICES ASSUME PrintInv, [LocalNext]_allvars PROVE PrintInv'
  OBVIOUS
<1>1. ASSUME NEW c \in Clients,
             client_call(c) \/ client_add(c) \/ client_wait(c) \/ client_wakes(c)
      PROVE  UNCHANGED <<printed, cout_locked, nreq>>
  BY <1>1 DEF client_call, client_add, client_wait, client_wakes
<1>2. ASSUME NEW w \in Workers, routine_op(w) \/ routine_signal(w) \/ worker_step(w)
      PROVE  UNCHANGED <<printed, cout_locked, nreq>>
  BY <1>2 DEF routine_op, routine_signal, worker_step
<1>3. ASSUME NEW w \in Workers, routine_count(w) PROVE PrintInv'
  BY <1>3 DEF routine_count, PrintInv
<1>4. CASE sleeper \/ main_prints
  BY <1>4 DEF sleeper, main_prints, PrintInv
<1>5. CASE UNCHANGED allvars
  BY <1>5 DEF allvars, local, PrintInv
<1> QED
  BY <1>1, <1>2, <1>3, <1>4, <1>5 DEF LocalNext, PrintInv

(***************************************************************************)
(* main prints the final number of requests, although it reads nreq        *)
(* without the mutex (main.cpp:106).                                       *)
(***************************************************************************)
THEOREM PrintedForGood == LocalSpec => []PrintedIsFinal
<1>1. LocalInit => PrintInv
  BY DEF LocalInit, PrintInv
<1>2. PrintInv => PrintedIsFinal
  BY DEF PrintInv, PrintedIsFinal
<1> QED
  BY <1>1, <1>2, NextPrint, PTL DEF LocalSpec

\* Who is in add_task, and who has a request that is not counted yet.
Calling == {c \in Clients : client[c].pc # "idle"}
Serving == {w \in Workers : worker[w].pc = "run" /\ routine[w] # "return"}

(***************************************************************************)
(* A routine begins anew with each task; the requests that are on their    *)
(* way are finitely many, whatever the numbers of threads, for each was    *)
(* begun by a call.                                                        *)
(***************************************************************************)
CountInv ==
  /\ nreq \in Nat /\ ncalls \in Nat
  /\ routine \in [Workers -> {"op", "signal", "count", "return"}]
  /\ \A w \in Workers : worker[w].pc # "run" => routine[w] = "op"
  /\ IsFiniteSet(Calling) /\ IsFiniteSet(Serving)
  /\ CountedOnce

CountOf(n, q, C, S) == n + Len(q) + Cardinality(C) + Cardinality(S)

LEMMA CountedMeans == CountedOnce <=> ncalls = CountOf(nreq, tasks_queue, Calling, Serving)
BY DEF CountedOnce, CountOf, Calling, Serving

LEMMA CountedMeansNext ==
  CountedOnce' <=> ncalls' = CountOf(nreq', tasks_queue', Calling', Serving')
BY DEF CountedOnce, CountOf, Calling, Serving

\* What is known of the requests before a step.
CountFacts ==
  /\ 1 \in Slots /\ nreq \in Nat /\ ncalls \in Nat /\ tasks_queue \in Seq(Slots)
  /\ IsFiniteSet(Calling) /\ IsFiniteSet(Serving)
  /\ ncalls = CountOf(nreq, tasks_queue, Calling, Serving)

LEMMA CountsNow == TypeOK /\ CountInv => CountFacts
BY ThreadpoolAssumption, CountedMeans DEF TypeOK, CountInv, CountFacts, Slots

LEMMA StagesNat ==
  CountFacts => /\ Len(tasks_queue) \in Nat
                /\ Cardinality(Calling) \in Nat /\ Cardinality(Serving) \in Nat
BY FS_CardinalityType DEF CountFacts

(***************************************************************************)
(* A request goes from one stage to the next: a call begins; it becomes a  *)
(* queued task; a worker takes the task; it counts the request.            *)
(***************************************************************************)
LEMMA CallBegins ==
  ASSUME CountFacts, NEW e, e \notin Calling
  PROVE  /\ IsFiniteSet(Calling \cup {e})
         /\ CountOf(nreq, tasks_queue, Calling \cup {e}, Serving) = ncalls + 1
<1>1. /\ IsFiniteSet(Calling \cup {e})
      /\ Cardinality(Calling \cup {e}) = Cardinality(Calling) + 1
  BY FS_AddElement DEF CountFacts
<1> QED
  BY <1>1, StagesNat DEF CountFacts, CountOf

LEMMA CallIsQueued ==
  ASSUME CountFacts, NEW x \in Slots, NEW e \in Calling
  PROVE  /\ IsFiniteSet(Calling \ {e})
         /\ CountOf(nreq, Append(tasks_queue, x), Calling \ {e}, Serving) = ncalls
<1>1. /\ IsFiniteSet(Calling \ {e})
      /\ Cardinality(Calling \ {e}) = Cardinality(Calling) - 1
  BY FS_RemoveElement DEF CountFacts
<1>2. Len(Append(tasks_queue, x)) = Len(tasks_queue) + 1
  BY DEF CountFacts
<1> QED
  BY <1>1, <1>2, StagesNat DEF CountFacts, CountOf

LEMMA TaskIsTaken ==
  ASSUME CountFacts, NEW e, e \notin Serving, tasks_queue # <<>>
  PROVE  /\ IsFiniteSet(Serving \cup {e})
         /\ CountOf(nreq, Tail(tasks_queue), Calling, Serving \cup {e}) = ncalls
<1>1. /\ IsFiniteSet(Serving \cup {e})
      /\ Cardinality(Serving \cup {e}) = Cardinality(Serving) + 1
  BY FS_AddElement DEF CountFacts
<1>2. Len(Tail(tasks_queue)) = Len(tasks_queue) - 1
  BY DEF CountFacts
<1> QED
  BY <1>1, <1>2, StagesNat DEF CountFacts, CountOf

LEMMA RequestIsCounted ==
  ASSUME CountFacts, NEW e \in Serving
  PROVE  /\ IsFiniteSet(Serving \ {e})
         /\ CountOf(nreq + 1, tasks_queue, Calling, Serving \ {e}) = ncalls
<1>1. /\ IsFiniteSet(Serving \ {e})
      /\ Cardinality(Serving \ {e}) = Cardinality(Serving) - 1
  BY FS_RemoveElement DEF CountFacts
<1> QED
  BY <1>1, StagesNat DEF CountFacts, CountOf

\* What a step that no request takes part in leaves as it is.
Uncounted == <<nreq, ncalls, tasks_queue, Calling, Serving>>

LEMMA SameCount ==
  ASSUME CountInv, UNCHANGED Uncounted
  PROVE  nreq' \in Nat /\ ncalls' \in Nat /\ IsFiniteSet(Calling') /\ IsFiniteSet(Serving')
         /\ ncalls' = CountOf(nreq', tasks_queue', Calling', Serving')
BY CountedMeans DEF CountInv, Uncounted

LEMMA InitCount == LocalInit => CountInv
<1> SUFFICES ASSUME LocalInit PROVE CountInv
  OBVIOUS
<1>1. Calling = {} /\ Serving = {} /\ tasks_queue = <<>>
  BY DEF LocalInit, Init, NoCall, Calling, Serving
<1>2. Cardinality({}) = 0 /\ IsFiniteSet({}) /\ Len(<<>>) = 0
  BY FS_EmptySet
<1>3. CountedOnce
  BY <1>1, <1>2, CountedMeans DEF LocalInit, CountOf
<1> QED
  BY <1>1, <1>2, <1>3 DEF LocalInit, Init, CountInv

LEMMA CallCount ==
  ASSUME TypeOK, CountInv, NEW c \in Clients, client_call(c)
  PROVE  CountInv'
<1>1. /\ client[c].pc = "idle" /\ c \in Jobs
      /\ client' = [client EXCEPT ![c] = [pc |-> "take", job |-> c, slot |-> NULL]]
      /\ UNCHANGED <<tasks_queue, worker, routine, nreq>> /\ ncalls' = ncalls + 1
  BY LocalClientsAssumption DEF client_call, add_task, queues
<1>2. c \notin Calling /\ Calling' = Calling \cup {c} /\ Serving' = Serving
  BY <1>1 DEF TypeOK, Calling, Serving
<1>3. /\ IsFiniteSet(Calling')
      /\ CountOf(nreq, tasks_queue, Calling', Serving) = ncalls + 1
  BY <1>2, CountsNow, CallBegins
<1>4. CountedOnce'
  BY <1>1, <1>2, <1>3, CountedMeans, CountedMeansNext, CountsNow DEF CountFacts
<1> QED
  BY <1>1, <1>2, <1>3, <1>4 DEF CountInv

LEMMA AddCount ==
  ASSUME TypeOK, CountInv, NEW c \in Clients, client_add(c)
  PROVE  CountInv'
<1>0. UNCHANGED <<worker, routine, nreq, ncalls>> /\ Serving' = Serving
  BY DEF client_add, ClientStep, add_task_take, add_task_fill, add_task_push, Serving
<1>1. CASE add_task_take(c) \/ add_task_fill(c)
  <2>1. /\ tasks_queue' = tasks_queue /\ client[c].pc # "idle"
        /\ \A d \in Clients \ {c} : client'[d] = client[d]
        /\ client'[c].pc # "idle"
    BY <1>1 DEF add_task_take, add_task_fill, TypeOK
  <2>2. Calling' = Calling
    BY <2>1 DEF Calling
  <2> QED
    BY <1>0, <2>1, <2>2, SameCount, CountedMeansNext DEF CountInv, Uncounted
<1>2. CASE add_task_push(c)
  <2>1. /\ client[c].slot \in Slots /\ client[c].pc = "push"
        /\ tasks_queue' = Append(tasks_queue, client[c].slot)
        /\ client' = [client EXCEPT ![c] = NoCall]
    BY <1>2 DEF add_task_push, TypeOK
  <2>2. c \in Calling /\ Calling' = Calling \ {c}
    BY <2>1 DEF TypeOK, Calling, NoCall
  <2>3. /\ IsFiniteSet(Calling')
        /\ CountOf(nreq, tasks_queue', Calling', Serving) = ncalls
    BY <2>1, <2>2, CountsNow, CallIsQueued
  <2>4. CountedOnce'
    BY <1>0, <2>3, CountedMeans, CountedMeansNext, CountsNow DEF CountFacts
  <2> QED
    BY <1>0, <2>3, <2>4 DEF CountInv
<1> QED
  BY <1>1, <1>2 DEF client_add, ClientStep

LEMMA RoutineCount ==
  ASSUME TypeOK, CountInv, NEW w \in Workers, routine_count(w)
  PROVE  CountInv'
<1>1. /\ worker[w].pc = "run" /\ routine[w] = "count" /\ nreq' = nreq + 1
      /\ routine' = [routine EXCEPT ![w] = "return"]
      /\ UNCHANGED <<tasks_queue, worker, client, ncalls>>
  BY DEF routine_count, RoutineAt, vars, queues
<1>2. w \in Serving /\ Serving' = Serving \ {w} /\ Calling' = Calling
  BY <1>1 DEF CountInv, Serving, Calling
<1>3. /\ IsFiniteSet(Serving')
      /\ CountOf(nreq + 1, tasks_queue, Calling, Serving') = ncalls
  BY <1>2, CountsNow, RequestIsCounted
<1>4. CountedOnce'
  BY <1>1, <1>2, <1>3, CountedMeans, CountedMeansNext, CountsNow DEF CountFacts
<1> QED
  BY <1>1, <1>2, <1>3, <1>4 DEF CountInv

\* The other steps of a routine; it is not over.
LEMMA RoutineStays ==
  ASSUME TypeOK, CountInv, NEW w \in Workers, routine_op(w) \/ routine_signal(w)
  PROVE  CountInv'
<1>1. /\ worker[w].pc = "run" /\ routine[w] # "return"
      /\ \E pc \in {"signal", "count"} : routine' = [routine EXCEPT ![w] = pc]
      /\ UNCHANGED <<tasks_queue, worker, client, nreq, ncalls>>
  BY DEF routine_op, routine_signal, RoutineAt, vars, queues
<1>2. Serving' = Serving /\ Calling' = Calling
  BY <1>1 DEF CountInv, Serving, Calling
<1>3. UNCHANGED Uncounted
  BY <1>1, <1>2 DEF Uncounted
<1>4. CountedOnce'
  BY <1>3, SameCount, CountedMeans, CountedMeansNext
<1> QED
  BY <1>1, <1>2, <1>3, <1>4, SameCount DEF CountInv

LEMMA WorkerCount ==
  ASSUME TypeOK, CountInv, NEW w \in Workers, worker_step(w)
  PROVE  CountInv'
<1>0. /\ routine' = [routine EXCEPT ![w] = "op"] /\ UNCHANGED <<nreq, ncalls>>
      /\ WorkerStep(w) /\ (worker[w].pc = "run" => routine[w] = "return")
  BY DEF worker_step
<1>1. UNCHANGED client /\ \E r : worker' = [worker EXCEPT ![w] = r]
  BY <1>0 DEF WorkerStep, get_task_to_do, get_task_to_do_locked, run_task, release_task, WorkerAt, TypeOK
<1>2. Calling' = Calling /\ w \notin Serving
  BY <1>0, <1>1 DEF Calling, Serving
<1>3. /\ routine' \in [Workers -> {"op", "signal", "count", "return"}]
      /\ \A v \in Workers : worker'[v].pc # "run" => routine'[v] = "op"
  BY <1>0, <1>1 DEF CountInv, TypeOK
<1>4. CASE worker'[w].pc # "run" /\ UNCHANGED tasks_queue
  <2>1. Serving' = Serving
    BY <1>0, <1>1, <1>2, <1>4 DEF CountInv, TypeOK, Serving
  <2>2. UNCHANGED Uncounted
    BY <1>0, <1>2, <1>4, <2>1 DEF Uncounted
  <2>3. CountedOnce'
    BY <2>2, SameCount, CountedMeans, CountedMeansNext
  <2> QED
    BY <1>3, <2>2, <2>3, SameCount DEF CountInv
<1>5. CASE worker'[w].pc = "run" /\ tasks_queue # <<>> /\ tasks_queue' = Tail(tasks_queue)
  <2>1. Serving' = Serving \cup {w}
    BY <1>0, <1>1, <1>2, <1>5 DEF CountInv, TypeOK, Serving
  <2>2. /\ IsFiniteSet(Serving')
        /\ CountOf(nreq, tasks_queue', Calling, Serving') = ncalls
    BY <1>2, <1>5, <2>1, CountsNow, TaskIsTaken
  <2>3. CountedOnce'
    BY <1>0, <1>2, <2>2, CountedMeans, CountedMeansNext, CountsNow DEF CountFacts
  <2> QED
    BY <1>0, <1>2, <1>3, <2>2, <2>3 DEF CountInv
<1>6. \/ worker'[w].pc # "run" /\ UNCHANGED tasks_queue
      \/ worker'[w].pc = "run" /\ tasks_queue # <<>> /\ tasks_queue' = Tail(tasks_queue)
  <2>1. CASE get_task_to_do(w) \/ run_task(w) \/ release_task(w)
    BY <2>1 DEF get_task_to_do, run_task, release_task, WorkerAt, TypeOK, queues
  <2>2. CASE get_task_to_do_locked(w)
    BY <2>2 DEF get_task_to_do_locked, WorkerAt, TypeOK
  <2> QED
    BY <1>0, <2>1, <2>2 DEF WorkerStep
<1> QED
  BY <1>4, <1>5, <1>6

LEMMA NextCount == TypeOK /\ CountInv /\ [LocalNext]_allvars => CountInv'
<1> SUFFICES ASSUME TypeOK, CountInv, [LocalNext]_allvars PROVE CountInv'
  OBVIOUS
<1>1. CASE \/ \E c \in Clients : client_wait(c) \/ client_wakes(c)
           \/ sleeper \/ main_prints \/ UNCHANGED allvars
  <2>1. UNCHANGED <<tasks_queue, client, worker, routine, nreq, ncalls>>
    BY <1>1 DEF client_wait, client_wakes, sleeper, main_prints, allvars, local, vars, queues
  <2>2. UNCHANGED Uncounted
    BY <2>1 DEF Uncounted, Calling, Serving
  <2>3. CountedOnce'
    BY <2>2, SameCount, CountedMeans, CountedMeansNext
  <2> QED
    BY <2>1, <2>2, <2>3, SameCount DEF CountInv
<1> QED
  BY <1>1, CallCount, AddCount, RoutineCount, RoutineStays, WorkerCount DEF LocalNext

(***************************************************************************)
(* Every request is counted once: for any numbers of clients, workers and  *)
(* slots, none is counted by two workers and none is lost on its way       *)
(* through the pool.                                                       *)
(***************************************************************************)
THEOREM RequestsCountedOnce == LocalSpec => []CountedOnce
<1> DEFINE Inv == PoolInv /\ CountInv
<1>1. LocalInit => Inv
  BY InitPool, InitCount DEF LocalInit
<1>2. Inv /\ [LocalNext]_allvars => Inv'
  BY LocalPool, NextPool, NextCount DEF PoolInv
<1>3. Inv => CountedOnce
  BY DEF CountInv
<1> QED
  BY <1>1, <1>2, <1>3, PTL DEF LocalSpec
=============================================================================
