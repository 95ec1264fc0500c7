----------------------------- MODULE ZmqServer -----------------------------
(***************************************************************************)
(* The server of src/src/client-server/zmqserver.cpp: worker threads that  *)
(* receive a request, run it on the cache, reply and count it.  ZeroMQ     *)
(* carries a request from its client to the ROUTER socket (to_server), the *)
(* proxy in the main thread hands it to the REP socket of one worker       *)
(* (queue), and the reply goes back the same way (to_client).              *)
(*                                                                         *)
(* The cache is what DataCache implements, a LossyMap whose threads are    *)
(* the workers.  num_req and its mutex are left out: it is only printed.   *)
(***************************************************************************)
EXTENDS Messages

CONSTANTS
  nworkerthreads,
  Requesters,    \* whoever has a REQ socket connected to the server
  Keys, Vals,
  ProxyInTime    \* the usleep before the end is enough for the last reply

ASSUME ZmqServerAssumption == nworkerthreads \in Nat \ {0}

Workers == 0 .. nworkerthreads - 1

VARIABLES
  server,         \* how far the start is
  map, calls, ret,  \* the cache
  worker,         \* where every worker is, for what request
  cachebuffer,    \* of every worker: the data of the last item it got
  to_server,      \* the request of every requester on its way to the proxy
  queue,          \* the requests in the socket of every worker
  to_client       \* the reply for every requester, in the socket of its worker

Start == INSTANCE StartThreads WITH nthreads <- nworkerthreads, start <- server

Cache == INSTANCE LossyMap WITH Threads <- Workers

cache == <<map, calls, ret>>
net == <<to_server, queue, to_client>>
servervars == <<server, cache, worker, cachebuffer, net>>

NoRequest == [pc |-> "recv", from |-> NULL, op |-> NULL]

ServerInit ==
  /\ Start!Init
  /\ Cache!Init
  /\ worker = [w \in Workers |-> NoRequest]
  /\ cachebuffer = [w \in Workers |-> <<>>]
  /\ to_server = [r \in Requesters |-> NULL]
  /\ queue = [w \in Workers |-> <<>>]
  /\ to_client = [r \in Requesters |-> NULL]

\* A worker that has left its loop ends the process with abort.
Alive == server.main # "aborted" /\ \A w \in Workers : worker[w].pc # "aborted"

At(w, pc) == Alive /\ Start!Runs(w) /\ worker[w].pc = pc

-----------------------------------------------------------------------------
(* work *)

server_main ==
  /\ Alive
  /\ Start!MainStep
  /\ UNCHANGED <<cache, worker, cachebuffer, net>>

server_main_wakes ==
  /\ Alive
  /\ Start!SpuriousWakeup
  /\ UNCHANGED <<cache, worker, cachebuffer, net>>

\* The beginning of server_thread and worker.
worker_start(w) ==
  /\ Alive
  /\ Start!ThreadStep(w)
  /\ UNCHANGED <<cache, worker, cachebuffer, net>>

proxy_request(r) ==
  /\ Alive
  /\ ~server.early
  /\ server.main = "started"
  /\ to_server[r] # NULL
  /\ \E w \in Workers :
       queue' = [queue EXCEPT ![w] = Append(@, [from |-> r, req |-> to_server[r]])]
  /\ to_server' = [to_server EXCEPT ![r] = NULL]
  /\ UNCHANGED <<server, cache, worker, cachebuffer, to_client>>

-----------------------------------------------------------------------------
(* worker *)

\* A case begins with the receipt of its request, and ends with its reply.
Receives(w, op) ==
  /\ At(w, "recv")
  /\ queue[w] # <<>>
  /\ Head(queue[w]).req.op = op
  /\ queue' = [queue EXCEPT ![w] = Tail(@)]

\* Mutant: success_op is not looked at.
ReplyOf_Success(op, found, buffer) ==
  Reply(op, TRUE, IF op = GET_VALUE_BY_KEY THEN buffer ELSE <<>>)

\* storeItem and deleteItem always return 0; a getItem that does not leaves
\* the buffer and the length as the last one set them.
ReplyOf(op, found, buffer) ==
  IF op = GET_VALUE_BY_KEY THEN Reply(op, found, buffer) ELSE Reply(op, TRUE, <<>>)

\* A call of the cache goes on, or has returned and the reply is sent.
Executes(w, from, op) ==
  IF calls'[w] # Cache!Idle
  THEN /\ worker' = [worker EXCEPT ![w] = [pc |-> "cache", from |-> from, op |-> op]]
       /\ UNCHANGED to_client
  ELSE /\ worker' = [worker EXCEPT ![w] =
                       IF op = SHUT_DOWN
                       THEN [pc |-> "usleep", from |-> from, op |-> op] ELSE NoRequest]
       /\ to_client' = [to_client EXCEPT ![from] =
                          ReplyOf(op, ret'[w] # NULL, cachebuffer'[w])]

worker_get(w) ==
  /\ Receives(w, GET_VALUE_BY_KEY)
  /\ Cache!Get(w, RequestKey(Head(queue[w]).req))
  /\ UNCHANGED <<server, cachebuffer, to_server>>
  /\ Executes(w, Head(queue[w]).from, GET_VALUE_BY_KEY)

worker_set(w) ==
  /\ Receives(w, SET_KEY_VALUE)
  /\ LET m == Head(queue[w]).req IN Cache!Store(w, RequestKey(m), RequestData(m))
  /\ UNCHANGED <<server, cachebuffer, to_server>>
  /\ Executes(w, Head(queue[w]).from, SET_KEY_VALUE)

worker_delete(w) ==
  /\ Receives(w, DELETE_BY_KEY)
  /\ LET k == RequestKey(Head(queue[w]).req) IN
     \/ Cache!Delete(w, k)
     \/ map[k] = NULL /\ UNCHANGED cache
  /\ UNCHANGED <<server, cachebuffer, to_server>>
  /\ Executes(w, Head(queue[w]).from, DELETE_BY_KEY)

\* The rest of a call that did not return at once.
worker_cache(w) ==
  /\ At(w, "cache")
  /\ \/ /\ Cache!GetReturn(w)
        /\ cachebuffer' = [cachebuffer EXCEPT ![w] = ret'[w]]
     \/ /\ \/ Cache!StoreTakesEffect(w)
           \/ Cache!DeleteTakesEffect(w)
           \/ Cache!DeleteReturn(w)
        /\ UNCHANGED cachebuffer
  /\ UNCHANGED <<server, to_server, queue>>
  /\ Executes(w, worker[w].from, worker[w].op)

worker_shut_down(w) ==
  /\ Receives(w, SHUT_DOWN)
  /\ UNCHANGED <<server, cache, cachebuffer, to_server>>
  /\ Executes(w, Head(queue[w]).from, SHUT_DOWN)

\* Mutant: no usleep.
worker_abort_AtOnce(w) ==
  /\ At(w, "usleep")
  /\ worker' = [worker EXCEPT ![w].pc = "aborted"]
  /\ UNCHANGED <<server, cache, cachebuffer, net>>

\* The other workers are cancelled, and with them the whole process ends.
worker_abort(w) ==
  /\ At(w, "usleep")
  /\ ProxyInTime => to_client[worker[w].from] = NULL
  /\ worker' = [worker EXCEPT ![w].pc = "aborted"]
  /\ UNCHANGED <<server, cache, cachebuffer, net>>

WorkerStep(w) ==
  \/ worker_start(w)
  \/ worker_get(w) \/ worker_set(w) \/ worker_delete(w) \/ worker_shut_down(w)
  \/ worker_cache(w)
  \/ worker_abort(w)

ServerNext ==
  \/ server_main \/ server_main_wakes
  \/ \E r \in Requesters : proxy_request(r)
  \/ \E w \in Workers : WorkerStep(w)

\* Every thread that can run does, and the proxy takes from its peers in turn.
\* A wait need not end by itself.
ServerFairness ==
  /\ WF_servervars(server_main)
  /\ \A r \in Requesters : WF_servervars(proxy_request(r))
  /\ \A w \in Workers : WF_servervars(WorkerStep(w))
=============================================================================
