----------------------------- MODULE ZmqClients -----------------------------
(***************************************************************************)
(* The client of src/src/client-server/zmqclient.cpp with its server.      *)
(* Client 0 stores one key for ever, the others get it, each waiting for a *)
(* reply before it sends again; after some time the stopper asks the       *)
(* server to shut down, waits for its reply, and ends the clients.  Others *)
(* are clients that are not part of the repository, which delete keys      *)
(* whenever they have no reply to wait for.                                *)
(***************************************************************************)
EXTENDS ZmqServer

CONSTANTS
  nvirtualclient, Others, STOPPER,
  key, value    \* "giorgio" and "mastrota"

Clients == 0 .. nvirtualclient - 1

\* What is asked for, before it is made a message; and what replies can say.
Asks ==
  [op : {SHUT_DOWN, SET_KEY_VALUE, GET_VALUE_BY_KEY, DELETE_BY_KEY},
   key : Keys \cup {<<>>}, data : Vals \cup {<<>>}]

Replies ==
  {Reply(a.op, found, a.data) : a \in Asks, found \in BOOLEAN}

ASSUME ZmqClientsAssumption ==
  /\ nvirtualclient \in Nat \ {0}
  /\ Requesters = Clients \cup Others \cup {STOPPER}
  /\ STOPPER \notin Clients \cup Others
  /\ key \in Keys /\ value \in Vals
  /\ NULL \notin Requesters /\ NULL \notin Keys \cup Vals
  /\ NULL \notin Asks /\ NULL \notin Replies

VARIABLES
  client,   \* how far the start is
  asked,    \* the request for which a requester waits, or NULL
  got,      \* what the last reply to a get said
  stopper   \* where the stopper is

clientvars == <<client, asked, got, stopper>>
allvars == <<servervars, clientvars>>

ClientStart == INSTANCE StartThreads WITH nthreads <- nvirtualclient, start <- client

Init ==
  /\ ServerInit
  /\ ClientStart!Init
  /\ asked = [r \in Requesters |-> NULL]
  /\ got = [r \in Requesters |-> NULL]
  /\ stopper = "none"

ClientAlive == client.main # "aborted" /\ stopper # "stopped"

client_main ==
  /\ ClientAlive
  /\ ClientStart!MainStep
  /\ UNCHANGED <<servervars, asked, got, stopper>>

client_thread(c) ==
  /\ ClientAlive
  /\ ClientStart!ThreadStep(c)
  /\ UNCHANGED <<servervars, asked, got, stopper>>

-----------------------------------------------------------------------------

Send(r, op, k, data) ==
  /\ asked[r] = NULL
  /\ asked' = [asked EXCEPT ![r] = [op |-> op, key |-> k, data |-> data]]
  /\ to_server' = [to_server EXCEPT ![r] = Request(op, k, data)]
  /\ UNCHANGED <<server, cache, worker, cachebuffer, queue, to_client, client, got>>

\* The proxy passes the reply on, and its requester gets it.
Recv(r) ==
  /\ Alive
  /\ to_client[r] # NULL
  /\ asked' = [asked EXCEPT ![r] = NULL]
  /\ got' = [got EXCEPT ![r] = IF asked[r].op = GET_VALUE_BY_KEY
                               THEN ReplyData(to_client[r]) ELSE @]
  /\ to_client' = [to_client EXCEPT ![r] = NULL]
  /\ UNCHANGED <<server, cache, worker, cachebuffer, to_server, queue, client>>

client_send(c) ==
  /\ ClientAlive
  /\ ClientStart!Runs(c)
  /\ IF c = 0 THEN Send(c, SET_KEY_VALUE, key, value)
              ELSE Send(c, GET_VALUE_BY_KEY, key, <<>>)
  /\ UNCHANGED stopper

client_recv(c) == ClientAlive /\ Recv(c) /\ UNCHANGED stopper

other_send(r) ==
  /\ \E k \in Keys : Send(r, DELETE_BY_KEY, k, <<>>)
  /\ UNCHANGED stopper

other_recv(r) == Recv(r) /\ UNCHANGED stopper

stop_create_fails ==
  /\ ClientAlive
  /\ client.main = "started" /\ stopper = "none"
  /\ client' = [client EXCEPT !.main = "aborted"]
  /\ UNCHANGED <<servervars, asked, got, stopper>>

\* The thread is created and its time is up.
stop_send ==
  /\ ClientAlive
  /\ client.main = "started" /\ stopper = "none"
  /\ Send(STOPPER, SHUT_DOWN, <<>>, <<>>)
  /\ stopper' = "waiting"

stop_recv == ClientAlive /\ Recv(STOPPER) /\ stopper' = "stopped"

ClientStep(c) == client_thread(c) \/ client_send(c) \/ client_recv(c)

Next ==
  \/ ServerNext /\ UNCHANGED clientvars
  \/ client_main
  \/ \E c \in Clients : ClientStep(c)
  \/ \E r \in Others : other_send(r) \/ other_recv(r)
  \/ stop_create_fails \/ stop_send \/ stop_recv

Fairness ==
  /\ ServerFairness
  /\ WF_allvars(client_main)
  /\ \A c \in Clients : WF_allvars(ClientStep(c))
  /\ WF_allvars(stop_send \/ stop_recv)

Spec == Init /\ [][Next]_allvars /\ Fairness

-----------------------------------------------------------------------------

(***************************************************************************)
(* The threads share one thread_param_t (zmqserver.cpp:12-15, 47-56), and  *)
(* yet each reads a number of its own, in the server and in the client, as *)
(* long as no pthread_cond_wait ends by itself.                            *)
(***************************************************************************)
OwnSockets == Start!OwnSocket /\ ClientStart!OwnSocket

(***************************************************************************)
(* Both programs start all their threads, unless a thread signals before   *)
(* the main thread waits (zmqserver.cpp:55, 63; zmqclient.cpp:49, 65), or  *)
(* a thread cannot be created.                                             *)
(***************************************************************************)
StartsEnd == []<>(Start!Ended /\ ClientStart!Ended)

\* The server does not get through its start, or gets through with a thread
\* that has not its own socket.
StartFails == server.missed \/ server.early \/ server.main = "aborted"

ShutDown == \E w \in Workers : worker[w].pc \in {"usleep", "aborted"}

(***************************************************************************)
(* Whoever sends a request gets a reply from a server that has started,    *)
(* unless the server is being shut down: nobody waits for ever.  The       *)
(* stopper gets its reply also then, provided that the proxy is done with  *)
(* it when the usleep before abort ends (zmqserver.cpp:112).               *)
(***************************************************************************)
RequestsAreAnswered ==
  \A r \in Clients \cup {STOPPER} :
    []<>(\/ asked[r] = NULL
         \/ StartFails
         \/ r # STOPPER /\ (ShutDown \/ ~ClientAlive))

-----------------------------------------------------------------------------

\* The workers in the middle of a call of the cache for r.
RunningFor(r) == {w \in Workers : worker[w].from = r /\ worker[w].pc = "cache"}

\* The last get of a client as the cache answered it; the reply may be on its way.
CacheAnswer(r) ==
  IF to_client[r] # NULL /\ asked[r].op = GET_VALUE_BY_KEY
  THEN ReplyData(to_client[r]) ELSE got[r]

CacheClients == Clients \cup Others

Service == INSTANCE CacheService
  WITH Threads <- CacheClients,
       calls <- [r \in CacheClients |->
                   IF RunningFor(r) = {} THEN Cache!Idle
                   ELSE calls[CHOOSE w \in RunningFor(r) : TRUE]],
       ret <- [r \in CacheClients |-> CacheAnswer(r)],
       request <- [r \in CacheClients |-> asked[r]],
       begun <- {r \in CacheClients : RunningFor(r) # {} \/ to_client[r] # NULL},
       answer <- [r \in CacheClients |-> got[r]]

(***************************************************************************)
(* Every request is run once, by one worker, with the key and data that    *)
(* were sent, and its own client gets the reply.  In particular the data   *)
(* that a miss leaves in the buffers of the worker (zmqserver.cpp:82-83)   *)
(* is never taken for an answer by a client that looks at valret.          *)
(***************************************************************************)
ImplementsService == Service!ServiceSpec
=============================================================================
