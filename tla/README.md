# A verification development for memcached4chaos

memcached4chaos is an in-process cache written in C++ after memcached 1.4, with
two programs around it: a benchmark in which client threads hand requests to a
thread pool, and a ZeroMQ server with a client.  This directory holds TLA+
modules of both and of the cache, TLC configurations that check them on small
instances, and proofs for TLAPS.  Paths below are relative to the repository's `src/`
directory unless they name a module of this directory.

## 1. The system

| part | source | state | operations | who calls it |
|---|---|---|---|---|
| slab allocator | `cache/slabs.{cpp,hpp}` | per slab class: free list, newest page, page list, bytes requested; bytes malloced; arena | constructor, `slabs_clsid`, `slabs_alloc`, `slabs_free` (each under `lock`) | LRU lists |
| hash table | `cache/assoc.{cpp,hpp}` | current and old table, `hashpower`, `expanding`, `expand_bucket`, `hash_items` | `assoc_find`, `assoc_insert`, `assoc_delete`, `assoc_expand`, the maintenance thread | LRU lists, and the thread it starts itself |
| LRU lists | `cache/lru.{cpp,hpp}`, `cache/const_types.h` | one queue per slab class, item headers (`refcount`, `iflag`, `time`, ...), `cache_lock` | `item_alloc`, `item_get`, `item_release`, `item_unlink`, `store_item` | DataCache |
| DataCache | `cache/datacache.hpp` | none of its own | `getItem`, `storeItem`, `deleteItem` | worker threads of everything below |
| hash function | `cache/hash.{c,h}` | none | `hash` | LRU lists |
| thread pool | `local/threadpool.{cpp,hpp}` | two queues of tasks, each with a mutex and a condition, `stop_flag` | constructor, `add_task`, worker loop, destructor | local benchmark |
| local benchmark | `local/main.cpp` | a buffer, a mutex and a condition per client | client loop, reader and writer tasks, sleeper | main |
| ZeroMQ server | `client-server/zmqserver.{cpp,hpp}`, `reqrep.hpp` | sockets, worker ids, `num_req` | start, worker loop, shutdown | main |
| ZeroMQ client | `client-server/zmqclient.{cpp,hpp}` | as the server | start, request loop, stopper | main |
| drivers | `testing/`, `overload/` | statistics | random load on a DataCache | main |

**How they interact.**  Everything in the hash table and the LRU lists happens
inside `cache_lock`, also the turns of the maintenance thread
(`assoc.cpp:78`); the slab allocator has a lock of its own, always taken inside
it.  So a public function of `LRU_Lists` is one atomic step.  `DataCache` is
not: its three calls are sequences of such steps with a `memcpy` of the data
in between, outside the lock.  What protects the data meanwhile is the item's
`refcount`.

**What is hard.**

* Chunks move between a page's end, a free list and the clients, while any
  `malloc` or `realloc` may fail half way through an operation.
* The table is migrated bucket by bucket while lookups, insertions and deletions
  go on in between; a thread or a table that cannot be had undoes an expansion.
* An item has four lives at once (flag, table, queue, references) which separate
  calls change; eviction and tail repair end them without asking the holders.
* `DataCache` reads and writes data, and unlinks items, on the strength of a
  lookup made in an earlier critical section.
* Reference counts are 16 bits, `hash_items` is never initialised, clocks have
  a resolution (`ITEM_UPDATE_INTERVAL`) coarser than what they are compared with.
* The pool, the benchmark and the ZeroMQ programs wait on conditions that are
  signalled only on some transitions, or with no predicate at all.
* A server that is told to stop kills its workers in the middle of requests, and
  its reply buffer keeps what the last request left in it.

**What makes each part correct.**

* Slab allocator: no chunk has two owners, none is mislaid, no array is written
  past its end, the memory limit is kept.
* Hash table: it is a map; a lookup finds the item that was linked, and an
  expansion loses nothing, is the only one, and ends.
* LRU lists: flag, table and queue agree; a held item is left alone; what nobody
  refers to is freed, once; eviction takes the least recently used item.
* DataCache: to its threads it looks like one map that may forget.
* Hash function: it depends on the bytes of the key, not on where they are.
* Thread pool, benchmark, server: every task is executed once, its answer goes to
  who asked, and nobody waits for a signal that has been sent already.

## 2. Modules

Each component has a module of *operators* on the value of one object, which is
its code, and a module with the *state machine* that calls them.  The cache's
state holds a slab allocator and a hash table as values, and the operators of
`LRULists` call those of `Slabs` and `Assoc` just as the C++ methods call each
other, so that the same definitions are checked alone, checked as parts of the
cache, and proved about.

| module | what it is |
|---|---|
| `Slabs` | `SlabAllocator` as operators |
| `SlabClasses` | the table of class sizes that its constructor computes |
| `SlabAllocator` | its clients: `slabs_alloc`, `slabs_free`; what it promises |
| `SlabAllocatorProofs` | theorems about both, for all constants |
| `Assoc` | `AssociativeArray` as operators, one critical section each |
| `AssocArray` | its callers and maintenance threads; what it promises |
| `KeyMap` | abstract specification of a hash table: a partial map |
| `AssocArrayProofs` | theorems: the table is exact, miscounts nothing, implements `KeyMap` |
| `LRULists` | `LRU_Lists` with the table, the allocator and the items, as operators |
| `ItemQueues` | the queues of `LRULists` as `prev` and `next` pointers |
| `LRUCache` | clients that keep the protocol of its five public functions |
| `LRUListsProofs` | lemmas: what each function of `LRU_Lists` does to table, queues, headers and memory; theorem: the pointers represent the queues |
| `LRUCacheProofs` | theorems about `LRUCache`, from those lemmas |
| `DataCache` | threads in `getItem`, `storeItem`, `deleteItem`, step by step |
| `LossyMap` | abstract specification of a shared cache |
| `DataCacheProofs` | theorems: nothing is freed or changed under a call, and it implements `LossyMap` |
| `Hash` | the hash function, block by block, in 32-bit arithmetic |
| `HashProofs` | theorems: a key has one hash, and mixing loses nothing |
| `Threadpool` | the thread pool, its callers and its destructor |
| `Executor` | abstract specification of a thread pool: a bounded queue of jobs |
| `LocalClients` | the benchmark: clients, routines, sleeper and main, on `Threadpool` |
| `LocalProofs` | theorems about the pool, that it implements `Executor`, and about the benchmark |
| `StartThreads` | how server and client start their threads, one at a time |
| `Messages` | requests and replies: building and reading them |
| `ZmqServer` | the server: start, proxy, workers on a `LossyMap`, shutdown |
| `ZmqClients` | the client program, and others', with the server |
| `CacheService` | abstract specification of both: each request is run once on a `LossyMap` |
| `ZmqProofs` | theorems: the threads of both programs read numbers of their own, and together they implement `CacheService` |
| `MC...` | the small instances |

**Composition.**  `SlabAllocator` and `AssocArray` check and prove the two parts
that `LRULists` calls; `LRUCache` and `DataCache` run all three.  `DataCache`
implements `LossyMap`, and `ZmqServer` takes `LossyMap` for its cache: its workers
call the actions of the abstract specification, and what holds of them holds
with any cache that implements it.  `LocalClients` runs on the actions of
`Threadpool`, and `ZmqClients` on those of `ZmqServer`; both of them instantiate
`StartThreads`.

**Correspondence.**  Operators and actions have the names of the functions they
translate; `PROJECT.json` gives the lines of each.  An operator takes the object
before the call and yields the *set* of outcomes, which has several members only
where the heap or `pthread_create` may fail (`HeapFails`, `CallocFails`,
`ThreadFails` say which answers occur).  Choices that recur:

* A chunk is named by class, page and place in the page in place of an address;
  `ptr + size` is the next place.  `slots` is a sequence, `sl_curr` its length.
* The chains `h_next` are sequences of entries, the queues `prev`/`next`
  sequences of chunks, head first.  `ItemQueues` has the queues with their pointers,
  which are proved to represent the sequences (section 5).  `sizes[]`, which nothing
  reads, is left out.
* Asserts are translated too: `ok` in `LRULists` becomes false when one fails.  Only
  `lru.cpp:137`, on the length of an item, is not: the class sizes imply it.
* `USE_SYSTEM_MALLOC` and `slabs_preallocate` are not compiled in.  The growth
  factor, a float in the code, is a fraction in `SlabClasses`.
* In the modules of the cache `hash` is an arbitrary function from keys to
  numbers, and `SameBytes` says which keys `memcmp` takes for each other when only
  `nkey` bytes are compared.  `Hash` models `hash.c` by itself: its three ways of
  reading a key, by words, by halves and by bytes.  A 32-bit word is a pair of
  16-bit halves there, for TLC has no larger numbers.  `^` is defined on halves of
  halves, down to bits, for `Bitwise` is recursive and cannot be used in a module
  with theorems; `XorIsXor` in `MCHash` compares the two.
* In `Threadpool` and `LocalClients` a critical section is one step, and
  `pthread_cond_wait` ends it with the thread in the wait set of the condition,
  which a broadcast, a signal or nothing at all (`SpuriousWakeup`,
  `client_wakes`) takes it out of.  The thread then runs the section again.  The
  two readings of `stop_flag` in `get_task_to_do` are one: when the queue is
  empty only the first decides, otherwise only the second.
* The pool may be destroyed whenever no call of `add_task` is under way; nobody in
  the repository destroys it.  The model ends with the last `pthread_join`: the
  second `free` after it (`threadpool.cpp:58`) is given a member array, that is the
  pool itself, and what that does is undefined.
* What the cache does is left out of `LocalClients`: it runs the thread pool's
  actions, with the routine of a task split into the cache operation, the
  signal and the count.  That the sleeper, whose `pthread_create` nobody checks
  (`main.cpp:101`), may not be created is not modelled.
* Time is a clock `now` that advances by `Tick`.  `MaxHold` bounds how long a
  client holds a reference or a call lasts; it is the premise under which
  `TAIL_REPAIR_TIME` makes sense.
* `refcount` and `hash_items` wrap at `RefMod` and `CounterMod`.
* What the constructors leave uninitialised: `hash_items` starts with any member
  of `InitHashItems`, `mem_malloced` with `initial_malloc` (parameters of the
  checks and of the proofs; the latter is a natural number, and that `mem_malloced`
  wraps when it starts near 2^64 is not modelled).  The modules of the cache start both at 0.
  `expanding` and `mem_base` are taken to be false and null: from other values
  the first operation follows a wild pointer, and there is no behaviour left to
  describe.

*The ZeroMQ programs.*  The repository's copy is incomplete: `zmqcache.hpp` is
missing and `zmqserver.cpp` reads a `success` that is not declared, which is
taken for `success_op`.  ZeroMQ itself is external and modelled from how it is
used.  A REQ socket has one request under way; the proxy in the main thread
takes it from there to the REP socket of some worker (`proxy_request`), which
receives requests in order and returns each reply to its requester (`Recv`).
What else is particular to them:

* `start.missed` and `start.early` record what `StartThreads` finds wrong with the
  handshake: a signal that came before the wait, and a wait that ended by itself.
  After the first the start hangs, which is followed.  After the second two
  threads may read the same number, and bind one address twice, or share an
  uninitialised slot of an array: only the start is followed then, and no worker
  receives a request (`Runs`).
* `ProxyInTime` is the premise for which the programmer put `usleep(10000)` before
  the end of the process (`zmqserver.cpp:112`): the reply to SHUT_DOWN is through.
  The threads that are cancelled after it end with the process, in one step.
* `Others` are programs that are not in the repository.  Its own clients set and
  get one key for ever; a client that deletes it makes the misses, and with them
  the stale buffers, occur.
* A call of the cache is the two or three steps it has in `LossyMap`.  `getItem`
  copies into a buffer of the caller's (1024 bytes), and that the data fits is a
  premise, which the clients of the repository keep.
* `num_req` and its mutex are left out, since it is only printed.

**History variables.**  `out` and `lost` (`SlabAllocator`) record who has each
chunk, `contents`, `migrators` and `started` (`AssocArray`) what was linked, how
many maintenance threads run and the garbage `hash_items` began with, `held`
(`LRUCache`) the references of the clients, `ret` (`DataCache`, `ZmqServer`) what
the calls returned, `got` (`ZmqClients`) what the last reply to a get said.
Guards read histories only where the code's callers know the same: a client
frees what it was given, unlinks what it holds.

## 3. Runs

Every run is exhaustive.  "Refuted" marks a run of one statement, made by a comment
of the repository, that the code does not keep (section 6).

| run | instance | what it shows |
|---|---|---|
| `SlabAllocator.cfg` | two classes (pages of two chunks and of one), limit 64 bytes, 16 of them gone at the start, arrays that start with room for 1 | `TypeOK`, `EndPageExact`, `ChunksPartitioned`, `ArraysInBounds`, `MemoryBounded`, `RequestedExact` when any malloc or realloc may fail; `ClassesFit`, also for other settings |
| `AssocArray.cfg` | 4 keys, 4 items, a table of 1 bucket; collisions that expansion does and does not resolve; `hash_items` starts at 0 or 3 | `FindExact`, `OnePlaceEach`, `OneMigrator`, `ExpansionEnds`; refines `KeyMap` |
| `AssocPrefix.cfg` | a key that is a prefix of a key with the same hash | refuted: `FindExact` |
| `AssocCount.cfg` | the same, `calloc` and `pthread_create` never failing | refuted: `HashItemsExact` |
| `LRUCache.cfg` | 2 clients, 3 keys with one hash, 3 chunks, search depth 2, update interval 1, clock to 4 | `AssertsHold`, `LinkedEverywhere`, `RefcountExact`, `NoChunkLeaked`, `HeldIntact`, `LeastRecentAtTail`, `TimeLagBounded`, `AllocFailsOnlyIfHeld`, `EvictsOldestUnused` |
| `DataCache.cfg` | 2 threads, 2 keys, 2 values, 2 chunks, 4 calls, clock to 4 with repair after 2 | `AssertsHold`, `UsedItemsAreNotFree`, `UsedItemsAreLocked`; refines `LossyMap` |
| `DataCacheLeak.cfg` | the same | refuted: `NoChunkLeaked` |
| `Hash.cfg` | keys of every length up to 27 bytes, at addresses of all four alignments, in two memories | `HashOfTheKey`, `MixIsReversible` |
| `Threadpool.cfg` | 2 workers, 3 clients, 2 slots, a job with a routine and one without | `NoSlotTwice`, `OnlyNullJobsLost`, `NoSleepBesideWork`, `TasksAreStarted`, `WaitersAreWoken`, `WorkersAreJoined`; refines `Executor` |
| `LocalClients.cfg` | 2 workers, 2 clients, 2 slots, 4 requests | `PrintedIsFinal`, `CountedOnce` |
| `LocalReply.cfg` | 2 workers, 1 client, 2 requests | refuted: `ClientsAnswered` |
| `ZmqClients.cfg` | 2 workers, 2 clients of the repository, another one that deletes, the stopper | `OwnSockets`, `StartsEnd`, `RequestsAreAnswered`; refines `CacheService` |

A type invariant is part of each: `TypeOK` is checked in `SlabAllocator.cfg`, is
a conjunct of `AssertsHold` in the two modules of the cache, and is proved where
it serves an inductive invariant (`Threadpool`, `AssocArray`).

**Bounds, and why they suffice.**

* Slab allocator: the limit allows each class several pages; arrays that start
  at 1 are grown (and fail to be) twice.  Classes do not interact but through
  `mem_malloced`, for which two are enough.  The run uses `malloc`; arena mode
  (`preallocate`) is in the proofs.  The classes are those that the constructor
  computes from `MCSettings`; `AllSettings` has DataCache's and others near to it,
  and for all that grow by a quarter `ClassesFit` is proved.
* Hash table: with one bucket the second item starts an expansion, with two
  buckets the fourth does, so that a table is migrated that was itself the
  result of a migration; keys 1 and 3 stay in one chain, 2 and 4 part company.
* LRU cache: queues of three items are longer than the search.  Two clients and
  the cache itself want the three chunks, which forces eviction, with a held item
  at either place that the search looks at, and failure when both are held.  Each
  item may have its own time, and may be used again within the update interval or
  after it.  One request is longer than any chunk.  Pages, once cut, are never
  given back, so the first allocations run with pages and all later ones with the
  free list.  A client that allocates holds nothing, so of two items searched one
  can be evicted unless it is the other client's, and the *repair* of the tail finds
  nothing to look at here: `DataCache.cfg` has it, with leaked references, and
  `LRUHeldIntact` is proved with it.
  All keys have one hash, for which they are interchangeable.  `MCView` leaves out
  what nothing reads before it is overwritten: the time of an item that is not
  linked (`do_item_link` sets it) and the key of a free chunk (`do_item_alloc` does).
* DataCache: four calls are two calls of each of two threads, and allow a store,
  a second store that must evict, and two calls that interleave with it.
  References are never given back, so that after two calls of one item memory is
  had only by tail repair; the clock goes far enough for one.  Calls are bounded
  by `MaxCalls` and time by `MaxTime`, hence `CHECK_DEADLOCK FALSE`: a behaviour
  ends when its calls are used up.  Threads, and the clients and keys of
  `LRUCache.cfg`, are interchangeable (`SYMMETRY`) in these runs of safety; values are
  not permuted.
* Hash function: 27 bytes are two full blocks and a last one of up to three
  bytes, and shorter keys have last blocks of every length.  One memory has bytes
  of all sizes, the other only 255, so that every sum carries.  Behind the key
  there are other bytes, which two of the three ways read with it.
* Thread pool: more clients than slots, so that clients wait, and as many slots
  as workers, so that a job waits in the queue while another one runs; two
  sleepers on each condition tell a broadcast from a signal.  Calls are not
  bounded: jobs are interchangeable once done.  Deadlock is not checked because a
  destroyed pool, and one whose slots are all lost, stops.
* Benchmark: two workers and two clients let one worker count while the other
  signals, and the sleeper come between any two steps; requests are bounded by
  `MaxCalls`.  It stops when the sleeper has the mutex.  One client is enough for
  a lost signal.
* ZeroMQ programs: two workers run requests at a time, three requesters and the
  stopper queue up before them, and the shutdown meets requests in every stage.
  Requests are not bounded: a requester has one at a time, as in the code.  There
  is one key and one value, for the clients of the repository use one each.
  Deadlock is not checked because the programs end.

**Fairness.**  Four modules state it, and always of the steps of one thread.

* `AssocArray`, for `ExpansionEnds`: weak fairness of `Maintain`.  The maintenance
  thread does nothing but lock, migrate one bucket and unlock, and the property
  needs that a thread which waits for `cache_lock` gets it in the end.  Nothing is
  assumed of the other threads, which may keep inserting, deleting or stop.
* `Threadpool`: weak fairness of each client inside `add_task`, of each worker,
  and of the destructor once begun: the scheduler lets every thread that can run
  run, mutexes are handed out in the end, and routines return.  Nobody has to
  call `add_task`, to destroy the pool or to wake up for no reason.  That a
  *particular* waiting client gets a slot is not claimed, for the code does not
  ensure it: others may be faster each time.
* `LocalClients`: the same, and clients go round their loop.  The time need not
  be up.
* `ZmqServer` and `ZmqClients`: weak fairness of the main threads, of each worker,
  of each client of the repository and of the stopper; the proxy takes from its
  peers in turn, as a ROUTER socket does, hence fairness for each requester.
  Others need not send, a wait need not end by itself, and a thread whose
  creation may fail need not be created: `StartsEnd` and `RequestsAreAnswered`
  say what happens then.

**Mutants.**  Operators named `f_Variant`, each below a comment that begins with
"Mutant", are plausible errors in `f`.  `PROJECT.json` pairs every property with
one: in place of `f` it makes the run fail by that property.

## 4. Refinement

* `AssocArray` implements `KeyMap` with `map[k] = assoc_find(k)`: what a caller
  sees through lookups changes only by its own insertions and deletions, and
  never by a step of the maintenance thread.  This is also proved.
* `DataCache` implements `LossyMap`.  A `getItem` takes effect at its lookup and
  still returns that value however long the copy takes; a `storeItem` takes
  effect in `store_item` and may have evicted keys in `item_alloc`; a `deleteItem`
  does not return while the value it found is bound.  It may find, when it comes
  to unlink the item, that the item has been replaced: then it leaves the new
  value alone, which is what serving it at the instant of the replacement means.
  This is also proved.
* `Threadpool` implements `Executor`: jobs begin in the order of their `push`, each
  is run once, by one worker, with the routine and data it was given (a slot is
  not reused under it), and none begins after `stop_flag` is set.  This is also
  proved.
* `ZmqClients` implements `CacheService`: a request is run once, by one worker, on
  a `LossyMap`, between the moment it is sent and the moment its reply is read,
  with the key and data that were sent; and its own requester gets the reply.
  The mapping takes a requester's call to be that of the worker which runs its
  request, and its answer to be what it reads from the message: so a reply that
  carries a previous hit's data (`zmqserver.cpp:83`) is right only because the
  client looks at `valret` first.  This is also proved.

The refinement of `LossyMap` holds under the premise `MaxHold <= TAIL_REPAIR_TIME -
ITEM_UPDATE_INTERVAL`, and only while no reference count has reached the
greatest value of its 16 bits (`NoCountAtMax` in the proof).

## 5. Proofs

All theorems hold for every value of the constants that satisfies the named
assumptions, and every theorem is about the same `Spec` as the runs.

**Slab allocator** (`SlabAllocatorProofs`), for every table of classes, limit,
request sizes, heap behaviour, `malloc` or arena mode, and every value
`mem_malloced` may start with:

| theorem | `Spec => []` | |
|---|---|---|
| `TypeCorrect` | `TypeOK` | field types |
| `EndPageCorrect` | `EndPageExact` | `end_page_ptr` is null exactly when nothing is left of the page |
| `NoChunkTwice` | `ChunksPartitioned` | no chunk has two owners or none |
| `ArraysCorrect` | `ArraysInBounds` | no write past `slots` or `slab_list` |
| `MemoryLimit` | `MemoryBounded` | the limit is exceeded by at most a page for each class in use |
| `RequestedIsExact` | `RequestedExact` | `requested` is the number of bytes held, and dropped, in a class |
| `ChunksAreTightest` | `TightestClass` | a chunk has room for its request, and no smaller class has |
| `ClassesAlwaysFit` | `ClassesFit` | the table that the constructor computes is what the allocator takes it for |

*Assumptions.* `SlabsAssumption` and `SlabAllocatorAssumption`: sizes and limits
are natural numbers, a page is no longer than `item_size_max` (the constructor
computes `perslab` as `item_size_max / size`), `NULL` is not a chunk.  For
`ClassesAlwaysFit` all settings are of those that `Grows` describes: a growth factor of
5/4 or more, that adds 8 bytes to the first item, and an `item_size_max` of 32 bits.
The constructor does not check any of it.  DataCache's own settings, factor 1.25 and
96 bytes, have 24 bytes where 8 are needed, and section 6 shows what a factor of 1.1
may do.

*Argument.* None of the middle three is inductive alone.  That a freshly cut
chunk is nobody's follows from the end-of-page pointer being exact (it is the
first chunk that is not `Carved`); that a popped chunk is nobody's follows from
the free list having no repetition; and both need the types.  The inductive
invariant `Bookkeeping` is their conjunction, with `TypeOK`.  The lemmas follow
the code: `FreeListLemma` and `PageEndLemma` for the two ways to hand out a
chunk, `AddPageLemma` and `NewSlabLemma` for a new page, put together in
`AllocLemma`; `FreeLemma` for a free.  They are stated of the operators of
`Slabs`, for any sets of given and dropped chunks, and not of the state machine,
so that proofs about the cache can cite them.  `MemoryLimit` rests on a second
induction: a class that has no page may exceed the limit once, and then it is
one more class in `Started`; any other page is added only below the limit.
`ChunksAreTightest` needs that `slabs_clsid` finds the *first* class that is large
enough, by the least counterexample.
`ClassesAlwaysFit` has to show that `SizeAt`, a recursion, defines a function at all
(`SizesExist`).  Rounding up to 8 bytes adds at most 7, and a turn of the loop at least
8, so that no class is longer than a page or as long as the one before it; and four
turns double a size (5/4 to the fourth is more than 2), so that 32 bits are passed
long before class 200, the end of the arrays of `LRU_Lists`.
`RequestedIsExact` is about a sum over the chunks on record, and so about a fold.
What the fold computes is proved by a smallest counterexample (`SmallestSet`): a sum
over a finite set is a number (`SumType`), depends on the values alone (`SumSame`), and
not only the element the fold takes first (`SumFirst`) but any element may be split off
(`SumMore`).  The invariant,
`RequestedInv`, adds to `Bookkeeping` that finitely many chunks are on record, without
which the sum would not say anything.

**Hash table** (`AssocArrayProofs`), for any sets of keys and items, hash, initial
power, failures, and garbage in `hash_items`:

| theorem | conclusion | |
|---|---|---|
| `OneThreadPerExpansion` | `[]OneMigrator` | one maintenance thread while an expansion lasts, none otherwise; `expand_bucket` in the old table |
| `FindIsExact` | `[]FindExact` | a lookup finds what was linked |
| `OnePlacePerItem` | `[]OnePlaceEach` | an item is in one chain, where its lookup goes |
| `HashItemsCount` | `[]HashItemsOffByStart` | `hash_items` is off by what the constructor found in its memory, modulo 2^32, and by nothing else |
| `TableIsMap` | `ImplementsMap` | refines `KeyMap` |

*Assumptions.* `AssocAssumption`, and for all but the first `NoPrefixes`: of two
keys with one hash none is a prefix of the other.  `AssocPrefix.cfg` shows that
it cannot be dropped.

*Argument.* `ShapeInv` (types and `OneMigrator`) is inductive by itself: an
expansion starts only when none is under way, for `assoc_insert` tests `expanding`
before.  `TableInv` adds `InPlace`, every entry is in the chain where a lookup of its
key goes *now*, and `Holds`, each key's entry occurs once and says what `contents`
does.  The turn of the maintenance thread is the hard case: it moves the
entries of an old bucket to the two new ones in which their hashes now fall,
and `expand_bucket` passes the bucket in the same step, so that for each entry
either the chain and the lookup's choice of a table both change or neither does.
A chain is searched and unlinked by the first entry that matches; that there is
a first is an induction over its places (`WFMin`, by the least counterexample).
`HashItemsCount` adds `CountInv`, which relates the counter to the cardinality of
what is linked by arithmetic modulo `CounterMod`.  Since the map of the refinement
is then `contents`, each action changes it as `KeyMap` says.

**LRU cache** (`LRUListsProofs`, `LRUCacheProofs`), for any keys, hash, classes of
chunks, memory limit, clients, times and failures:

| theorem | `Spec => []` | |
|---|---|---|
| `LRUAssertsHold` | `AssertsHold` | no assert fails, and the types hold |
| `LRULinkedEverywhere` | `LinkedEverywhere` | flag, table and queues agree |
| `LRURefcountExact` | `RefcountExact` | `refcount` is the number of references |
| `LRUHeldIntact` | `HeldIntact` | what is held is neither changed nor freed |
| `LRUNoChunkLeaked` | `NoChunkLeaked` | a chunk is free, linked or held |
| `LRULeastRecentAtTail` | `LeastRecentAtTail` | the queues are ordered by time |
| `LRUTimeLagBounded` | `TimeLagBounded` | the time of an item lags at most `ITEM_UPDATE_INTERVAL` behind a reference to it |
| `LRUAllocFailsOnlyIfHeld` | `AllocFailsOnlyIfHeld` | a request fails only if it is of no class, or there is no memory and all that is searched is held |
| `LRUEvictsOldestUnused` | `EvictsOldestUnused` (an action property) | what is evicted was unused, for the longest time |

*Assumptions.* `LRUListsAssumption` and `LRUCacheAssumption` on the constants, and the
`Premises` of the theorems, none of which the code enforces: `NoPrefixes`, as for
the table; fewer clients than `refcount` can count; and `MaxHold +
ITEM_UPDATE_INTERVAL <= TAIL_REPAIR_TIME`.  `AssocPrefix.cfg` and §6 show what happens
without them.  `LRUNoChunkLeaked` and `LRUAllocFailsOnlyIfHeld` also suppose that no
`malloc` fails (`HeapFails = {FALSE}`), since `slabs_free` drops a chunk when its list
cannot grow; the other seven do not.  `LRUCache.cfg` satisfies the premises.

*Argument.* The invariant `AllOK` has two halves.  `CacheOK(c, E)` is about the value of
the cache alone: flags, table and queues agree, the allocator is sound, and its
chunks outside its free lists are the items that are not slabbed and those of `E`,
chunks on the way from one list to another in the middle of a function.
`LRUListsProofs` has a lemma for each function, in the order in which they call each
other (`LinkItem`, `DoUnlink`, `UpdateItem`, `GetItem`, `ReleaseItem`, `StoreItem`,
`AllocItem`), which says that it keeps `CacheOK` and what else it changes.  They
rest on the lemmas about `Slabs` and `Assoc`, reached by INSTANCE: so the proofs
compose as the components do.  `RefsOK`, the other half, relates the references to
the items: the count is exact, a new item has one reference and no place in the
table, and a linked item is at most `ITEM_UPDATE_INTERVAL` older than any reference
to it (`TimeLagBounded`).  That last conjunct is what the premise on `MaxHold` is for: it makes the
repair of the tail, which resets a count, unreachable (`NothingStuck`).  Neither
half is inductive without the other: an eviction is safe for the clients because
the count is exact, and the count stays exact because what `item_alloc` takes to
make room is either unused or old enough to be repaired (`MayGo`, part of `Made`), and
so unused (`NothingGoes`).  `LRULeastRecentAtTail` adds that the queues are sorted,
of which `LRUEvictsOldestUnused` is a consequence: the search goes from the tail
to the first item that it may take.  `LRUAllocFailsOnlyIfHeld` follows a request
through its three attempts: each fails for want of memory only (`AllocFails`), an
eviction or a repair would have put a chunk on the free list (`NothingLeft`), and
so neither search had anything to take (`FailsOutOfMemory`).

*Pointers.*  `LinkedQueues` (`LRUListsProofs`) is about the code's queues, `heads`, `tails`,
`prev` and `next`, in module `ItemQueues`.  They `Represent` the sequences of `LRULists` when
head and tail of each class are the ends of its sequence, and `prev` and `next` of each
of its items the neighbours; those of other items may be anything.  `item_link_q` and
`item_unlink_q` keep this, and no assert of theirs fails, wherever in its queue the
item is, provided that no item is in two queues or twice in one (`QueuesApart`).
They keep that, too; it holds in the beginning (`EmptyQueues`) and follows from
`CacheOK` (`QueuesStayApart`).  What `item_alloc` writes to the pointers of a new item is
harmless (`FreshPointers`).  The cases are the ends of a queue and the neighbours of the
item, and that the queue of another class, whose items have their pointers in the
same memory, is not disturbed.  TLC evaluates `PointersRepresent` in `MCLRUCache`, the same
for every six calls on two classes and three items.

**DataCache** (`DataCacheProofs`), for any keys, values, hash, classes of chunks,
memory limit and failures, and any finite set of threads:

| theorem | conclusion | |
|---|---|---|
| `DataCacheAssertsHold` | `[]AssertsHold` | no assert fails, and the types hold |
| `UsedItemsNeverFree` | `[]UsedItemsAreNotFree` | memory that a call copies from or to is not free, a new item is one call's alone |
| `UsedItemsStayLocked` | `[]UsedItemsAreLocked` | the item of a call has a `refcount` |
| `DataCacheIsLossyMap` | `ImplementsLossyMap` | refines `LossyMap` |

*Assumptions.* `DataCacheAssumption`; the `Premises`: `NoPrefixes`, and `MaxHold +
ITEM_UPDATE_INTERVAL <= TAIL_REPAIR_TIME` for the duration of a call; and of the
behaviour, `[]NoCountAtMax`: no reference count reaches the greatest value of its 16
bits.  That is what the code owes to its leaks, for `getItem` and `storeItem` never
give their references back, and an item that is read often enough does wrap
(section 6).  The number of calls is not limited: what bounds a count is how often
one item is used before it is replaced, deleted, evicted or repaired.  `DataCache.cfg` satisfies all
of this.

*Argument.* `AllOK` is `CacheOK`, from the lemmas of `LRUListsProofs`, with `CallsOK`:
the count of an item is *at least* the number of the calls that use it, for the
leaked references are in it too; an item that a call fills is linked nowhere and no other call's; an item about to be
released by a delete is no longer linked; and a linked item is at most
`ITEM_UPDATE_INTERVAL` older than a call that uses it.  The tail may be repaired here,
to get leaked items back, but then no call uses the item (`UsedStays`).  For the
refinement, `AMap` is the map and `ACalls` the calls as `LossyMap` sees them.  A step
that unlinks an item `y`, by replacement, deletion or eviction, changes the map at
the key of `y` alone, and is the effect of every delete that waits to unlink `y`
(`ServedBy`); all other calls see nothing (`OtherCalls`), since the key and the
value of an item are not written while a call uses it.  Steps with no effect on
the map are shown to be stutters, or the begin or return of a call
(`BeginStep`, `QuietSteps`, `AbstractStep`).

**Thread pool and benchmark** (`LocalProofs`), for any sets of
clients, workers and jobs and any number of slots:

| theorem | conclusion | |
|---|---|---|
| `SlotsHaveOnePlace` | `[]NoSlotTwice` | a slot is in one queue or one thread's hands |
| `NobodyIsForgotten` | `[]NoSleepBesideWork` | nobody sleeps unsignalled beside work |
| `SlotsStay` | `[]OnlyNullJobsLost` | only tasks without a routine take their slot with them |
| `PoolIsExecutor` | `ImplementsExecutor` | refines `Executor` |
| `PrintedForGood` | `[]PrintedIsFinal` | what `main` prints is final, though it reads `nreq` without the mutex |
| `RequestsCountedOnce` | `[]CountedOnce` | each request is counted once |

*Assumptions.* `ThreadpoolAssumption`: there is a slot, and `NULL` is neither a
job nor a slot.  The last two are about `LocalSpec`, the pool with the benchmark on
it.

*Argument.* `PoolInv`, which is `TypeOK` with `NoSlotTwice`, is inductive: `TypeOK`
says that a thread has a slot exactly between taking it and passing it on.  The
two others are inductive beside it.  `NoSleepBesideWork` is, although a push
wakes only when the queue was empty, since it then wakes all: no push to a
longer queue finds a sleeper.  For the refinement a push must find room in the
abstract queue, which is bounded by `QUEUE_SIZE`; that is a statement about
cardinalities, for queued and running jobs have distinct slots, and the slot
that is pushed is none of theirs (`RoomLemma` and those before it).  `StopInv`
says that the destructor does not begin while a call of `add_task` is under way.
Every step of the benchmark is one of the pool or leaves the pool alone
(`LocalPool`), so `PoolInv` holds there too.  `PrintInv` adds that the sleeper has
`cout_mutex` once `main` has printed.  `CountInv` adds to `CountedOnce` that a routine
begins anew with every task, and that the requests on their way are finitely
many however many threads there are, without which their number has no meaning.

**Hash function** (`HashProofs`), for any memories, addresses, lengths of keys and
initial value:

| theorem | conclusion | |
|---|---|---|
| `OneHash` | `[]HashOfTheKey` | the hash depends on the bytes of the key alone |
| `MixCanBeUndone` | `[]MixIsReversible` | `mix` can be undone, whatever a key has made of `a`, `b` and `c` |
| `MixIsInjective` | `mix(s) = mix(t) => s = t` | and so it is for all states |

*Assumptions.* `HashAssumption`: bytes are bytes, and so are the two behind the key that
the last word may have.

*Argument.* Subtraction modulo 2^32 undoes addition (`PlusMinus`), and `^` undoes itself
(`XorLemma`), from one bit to 32 by halves; so a line of `mix` can be undone
(`RoundLemma`), and with it all six.  For `OneHash` the invariant `HashInv` says that
there is a sequence of states which `Follows` the blocks of the *key*, the last of which
is `abc`.  Each of the three ways to read a word yields the bytes of the word that
belong to the key, with zeros behind them (`WordIs`, `BytesIs`, and `BlockIsKeyBlock` for
all three), so a step adds one block to the sequence; and `Mixed`, the recursive definition to
which the result is compared, is the only such sequence (`MixedFollows`, `SameBlocks`,
by the least counterexample).

**ZeroMQ programs** (`ZmqProofs`), for any numbers of threads and requesters:

| theorem | conclusion | |
|---|---|---|
| `SocketsAreOwn` | `[]OwnSockets` | each thread reads a number of its own |
| `ServiceIsImplemented` | `ImplementsService` | refines `CacheService` |

*Assumptions.* `ZmqServerAssumption`, `ZmqClientsAssumption`; and for the second `KeysAreStrings`:
keys are not empty and have no null character in them, data may have.  The
messages are read by searching for the null character after the key, so it
cannot be dropped.

*Argument.* For `SocketsAreOwn`: all threads read their number from one
variable of the main thread, and the inductive invariant `OneAtATime` says that
until a wait ends by itself at most the last thread created has not read it, and
that it is still this thread's.  The proof is made once, of the start of any number
of threads (`StartKeeps`), and applies to server and client since each of their steps
is shown to be a step of such a start or to leave it alone (`ServerStarts`,
`ClientStarts`).

For `ServiceIsImplemented` the invariant `ServiceInv` has three parts.  `FlightOK`: the
request of a requester is in at most one place, its own socket, one worker's
queue, one worker's call, or its reply, and it is there as it was asked, so that
the request which a worker runs, and the reply which a requester reads, can only
be its own.  `AsksOK`: who asks what.  `CallsOK`: a worker is in a call of the cache
exactly while it runs a request, and in the call that was asked for.
`RequestIsRead` and `ReplyIsRead` say that reading a message yields the key and the
data it was built from, whatever was left in the buffer.  The refinement maps the
state to what the service sees of it (`H`, `R`, `Q`, `B` and `G`: the calls, the
returns, the requests, those begun and the answers); each step of the programs
changes one of the places above, and so the views of one requester.

*Only model-checked*: liveness, which is out of the prover's reach, that is
`ExpansionEnds`, `TasksAreStarted`, `WaitersAreWoken`, `WorkersAreJoined`, `StartsEnd` and
`RequestsAreAnswered`; and `XorIsXor`, on samples.  Every other property of a passing
run is a theorem.

## 6. What the code does not keep

| statement | code | run |
|---|---|---|
| `lru.hpp:63` "pointer to the item if it exists or NULL otherwise" | `assoc.cpp:27` compares `nkey` bytes and not the lengths: a prefix with the same hash finds another key's item | `AssocPrefix.cfg` |
| `assoc.hpp:21` "Number of items in the hash table." | `hash_items` starts with whatever the memory held (`assoc.cpp:6`) and is only added to and subtracted from | `AssocCount.cfg` |
| `lru.cpp:91-92` "There is a very rare bug which causes refcount leaks. We've fixed most of them, but it still happens" | not rare: `storeItem` and `getItem` never release: whatever is deleted or replaced is lost | `DataCacheLeak.cfg` |
| `local/main.cpp:23` "wait for reply from server" | a signal sent before the client waits is lost (`main.cpp:156` has no predicate) | `LocalReply.cfg` |

Other disagreements were met while modelling; no run is kept for them.

* `datacache.hpp:48`: `storeItem` returns 0 when there was no memory, and
  `testing.cpp:118-121` counts a result other than 0 as a failed store.
* `lru.cpp:75` "it may be locked: refcount>0": the count wraps to 0 after 2^16
  references, none of which is given back.  With `RefMod = 3` in `DataCache.cfg`,
  `UsedItemsAreLocked` is violated.
* `lru.cpp:94-96` "no item can stay locked for more than three hours": the item's
  time lags up to `ITEM_UPDATE_INTERVAL` behind the reference, and so an item held
  for a minute less than that may be harvested.  With a third client and `MaxHold =
  2` in `LRUCache.cfg` (the repair time is 2, the interval 1), `RefcountExact` and
  `HeldIntact` are violated.
* `zmqserver.cpp:55`, `zmqclient.cpp:49`: the start hangs if the thread signals
  before the main thread waits.  `StartsEnd` says that it ends otherwise.
* `zmqserver.cpp:83`: after a miss the reply has the length and data of the last
  hit; only `valret` tells.
* `slabs.cpp:23`: the loop compares the next size with `item_size_max / factor`, and
  rounds up afterwards: with items of 16 bytes, `item_size_max` 20 and a factor of
  1.1 the second class has chunks of 24 bytes and none to a page.  With a factor of
  1.25 it cannot happen, which is proved (`ClassesAlwaysFit`).
* `slabs.cpp:173` subtracts nothing from `mem_avail` when a page takes all of it,
  and the next page lies beyond the arena.  Latent: `DataCache` does not
  preallocate.
* `threadpool.cpp:125`: a task without a routine takes its slot with it;
  `OnlyNullJobsLost` states that nothing else does.
* `threadpool.cpp:58` frees a member array, that is the pool itself.  "frees the
  allocated memory" (`threadpool.hpp:71`) is not what it does; `WorkersAreJoined` says
  only that the destructor gets there.
* `zmqserver.cpp:112`: nothing ensures that the reply to SHUT_DOWN is through after
  10 ms.  With `ProxyInTime = FALSE` in `ZmqClients.cfg`, `RequestsAreAnswered` is
  violated: the stopper waits for ever.
* `zmqserver.cpp:117`: requests that other workers have begun, or that wait in their
  sockets, are dropped with the process, and their clients wait for ever;
  `RequestsAreAnswered` says so of no others.
* `main.cpp:156`: a wake-up without a signal lets a client reuse its buffer while
  a worker copies into it.
* `slabs.cpp:40`, `slabs.cpp:160`, `assoc.hpp:41` read fields that the constructors
  leave unset.
* `hash.c:167`, `hash.c:181-182`: on a big-endian machine the path that reads bytes
  advances its pointer twice.

## 7. Not modelled, and what is left

Not modelled, and why: the drivers in `testing/` and `overload/` (random or
constant load on a DataCache, whose behaviours `DataCache` has; statistics), the
result scripts (file processing), the big-endian half of `hash.c` (not compiled on
the machines the code is for), logging, the bytes of the data,
`slabs_preallocate` and `USE_SYSTEM_MALLOC` (not compiled in; arena mode is in
`Slabs` all the same), an uninitialised `expanding` or `mem_base`.

Left: the chains of the hash table with their `h_next` pointers, shown to represent the
sequences of `Assoc`, as is done for the queues.
