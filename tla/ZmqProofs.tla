----------------------------- MODULE ZmqProofs -----------------------------
(***************************************************************************)
(* Theorems about the ZeroMQ server and client, for any number of threads  *)
(* of each.  Their starts are those of StartThreads: neither the requests  *)
(* nor the end of a program disturb them.  And what they do for their      *)
(* requesters is what CacheService promises.                               *)
(***************************************************************************)
EXTENDS ZmqClients, SequenceTheorems, TLAPS

-----------------------------------------------------------------------------
(* The start of n threads, of the server or of the client; s is its state. *)

Numbers(n) == 0 .. n - 1

StartType(n) ==
  [main : {"create", "created", "waiting", "started", "aborted"},
   nsocket : Nat,
   thread : [Numbers(n) -> {"none", "created", "read", "running"}],
   index : [Numbers(n) -> Nat],
   missed : BOOLEAN,
   early : BOOLEAN]

\* The main thread goes on only when the thread it has made has read its number,
\* unless its wait ends by itself: there is one thread at most between
\* its creation and its signal, and its number is params.nsocket.
OneAtATime(n, s) ==
  \A i \in Numbers(n) :
    /\ s.thread[i] \in {"created", "read"} =>
         i = s.nsocket /\ s.main \in {"created", "waiting"}
    /\ i > s.nsocket \/ (i = s.nsocket /\ s.main = "create") => s.thread[i] = "none"

OwnNumber(n, s) ==
  ~s.early => \A i \in Numbers(n) : s.thread[i] \in {"read", "running"} => s.index[i] = i

StartInv(n, s) ==
  /\ s \in StartType(n)
  /\ s.main \in {"create", "created", "waiting"} => s.nsocket < n
  /\ ~s.early => OneAtATime(n, s)
  /\ OwnNumber(n, s)

\* What the steps of StartThreads, and an abort after the start, make of s.
TurnOf(n, s) ==
  [s EXCEPT !.main = IF s.nsocket + 1 < n THEN "create" ELSE "started", !.nsocket = @ + 1]

Reads(s, i, t) ==
  /\ s.main # "aborted" /\ s.thread[i] = "created"
  /\ t = [s EXCEPT !.thread[i] = "read", !.index[i] = s.nsocket]

Signals(n, s, i, t) ==
  /\ s.main # "aborted" /\ s.thread[i] = "read"
  /\ t = [(IF s.main = "waiting" THEN TurnOf(n, s) ELSE [s EXCEPT !.missed = TRUE])
          EXCEPT !.thread[i] = "running"]

StartStep(n, s, t) ==
  \/ s.main = "create" /\ t = [s EXCEPT !.main = "created", !.thread[s.nsocket] = "created"]
  \/ s.main \in {"create", "started"} /\ t = [s EXCEPT !.main = "aborted"]
  \/ s.main = "created" /\ t = [s EXCEPT !.main = "waiting"]
  \/ s.main = "waiting" /\ t = [TurnOf(n, s) EXCEPT !.early = TRUE]
  \/ \E i \in Numbers(n) : Reads(s, i, t) \/ Signals(n, s, i, t)

LEMMA StartKeeps ==
  ASSUME NEW n \in Nat \ {0}, NEW s, NEW t, StartInv(n, s), StartStep(n, s, t)
  PROVE  StartInv(n, t)
<1> USE DEF StartInv, StartType, OwnNumber, Numbers
<1>a. /\ s = [main |-> s.main, nsocket |-> s.nsocket, thread |-> s.thread,
              index |-> s.index, missed |-> s.missed, early |-> s.early]
      /\ s.nsocket \in Nat /\ s.thread \in [Numbers(n) -> {"none", "created", "read", "running"}]
      /\ s.index \in [Numbers(n) -> Nat] /\ s.missed \in BOOLEAN /\ s.early \in BOOLEAN
  OBVIOUS
<1> DEFINE main == IF s.nsocket + 1 < n THEN "create" ELSE "started"
<1>b. main \in {"create", "started"} /\ s.nsocket + 1 \in Nat
  BY <1>a
<1>1. ASSUME s.main = "create",
             t = [s EXCEPT !.main = "created", !.thread[s.nsocket] = "created"]
      PROVE  StartInv(n, t)
  <2>1. /\ s.nsocket \in Numbers(n)
        /\ t = [s EXCEPT !.main = "created",
                         !.thread = [s.thread EXCEPT ![s.nsocket] = "created"]]
    BY <1>a, <1>1
  <2>2. /\ t.main = "created" /\ t.nsocket = s.nsocket
        /\ t.thread = [s.thread EXCEPT ![s.nsocket] = "created"]
        /\ t.index = s.index /\ t.early = s.early
        /\ t \in StartType(n)
    BY <1>a, <2>1
  <2>3. t.early \in BOOLEAN /\ (~s.early => OneAtATime(n, t))
    BY <1>a, <1>1, <2>1, <2>2 DEF OneAtATime
  <2>4. OwnNumber(n, t)
    BY <1>a, <1>1, <2>1, <2>2
  <2> QED
    BY <1>a, <2>1, <2>2, <2>3, <2>4
<1>2. ASSUME s.main \in {"create", "started"}, t = [s EXCEPT !.main = "aborted"]
      PROVE  StartInv(n, t)
  BY <1>2 DEF OneAtATime
<1>3. ASSUME s.main = "created", t = [s EXCEPT !.main = "waiting"] PROVE StartInv(n, t)
  BY <1>3 DEF OneAtATime
<1>4. ASSUME s.main = "waiting", t = [TurnOf(n, s) EXCEPT !.early = TRUE] PROVE StartInv(n, t)
  <2>1. t = [s EXCEPT !.main = main, !.nsocket = s.nsocket + 1, !.early = TRUE]
    BY <1>a, <1>4 DEF TurnOf
  <2>2. /\ t.main = main /\ t.nsocket = s.nsocket + 1 /\ t.early = TRUE
        /\ t \in StartType(n)
    <3> HIDE DEF main
    <3> QED
      BY <1>a, <1>b, <2>1
  <2> QED
    BY <1>a, <2>2
<1>5. ASSUME NEW i \in Numbers(n), Reads(s, i, t) PROVE StartInv(n, t)
  BY <1>5 DEF Reads, OneAtATime
<1>6. ASSUME NEW i \in Numbers(n), Signals(n, s, i, t) PROVE StartInv(n, t)
  <2>1. s.thread[i] = "read" /\ s.main # "aborted"
    BY <1>6 DEF Signals
  <2> DEFINE thread == [s.thread EXCEPT ![i] = "running"]
  <2>2. CASE s.main = "waiting"
    <3>1. t = [s EXCEPT !.main = main, !.nsocket = s.nsocket + 1, !.thread = thread]
      BY <1>a, <1>6, <2>2 DEF Signals, TurnOf
    <3>2. /\ t.main = main /\ t.nsocket = s.nsocket + 1
          /\ t.thread = thread /\ t.index = s.index
          /\ t.early = s.early /\ t \in StartType(n)
      <4>1. thread \in [Numbers(n) -> {"none", "created", "read", "running"}]
        BY <1>a
      <4> HIDE DEF main, thread
      <4> QED
        BY <1>a, <1>b, <3>1, <4>1
    <3>3. s.early \in BOOLEAN /\ (~s.early => OneAtATime(n, t))
      BY <1>a, <2>1, <2>2, <3>2 DEF OneAtATime
    <3>4. OwnNumber(n, t)
      BY <1>a, <2>1, <3>2
    <3> QED
      BY <1>a, <3>2, <3>3, <3>4
  <2>3. CASE s.main # "waiting"
    <3>1. t = [s EXCEPT !.missed = TRUE, !.thread = thread]
      BY <1>a, <1>6, <2>3 DEF Signals
    <3>2. /\ t.main = s.main /\ t.nsocket = s.nsocket /\ t.thread = thread
          /\ t.index = s.index /\ t.early = s.early /\ t \in StartType(n)
      BY <1>a, <3>1
    <3>3. s.early \in BOOLEAN /\ (~s.early => OneAtATime(n, t))
      BY <1>a, <2>1, <2>3, <3>2 DEF OneAtATime
    <3>4. OwnNumber(n, t)
      BY <1>a, <2>1, <3>2
    <3> QED
      BY <1>a, <3>2, <3>3, <3>4
  <2> QED
    BY <2>2, <2>3
<1> QED
  BY <1>1, <1>2, <1>3, <1>4, <1>5, <1>6 DEF StartStep

(***************************************************************************)
(* Each start goes on as StartStep says: neither the requests nor the      *)
(* other program disturb it.                                               *)
(***************************************************************************)
LEMMA ServerStarts ==
  ASSUME [Next]_allvars
  PROVE  StartStep(nworkerthreads, server, server') \/ UNCHANGED server
<1>1. CASE server_main
  BY <1>1 DEF server_main, Start!MainStep, StartStep, Start!pthread_create,
    Start!pthread_create_fails, Start!pthread_cond_wait
<1>2. CASE server_main_wakes
  BY <1>2 DEF server_main_wakes, Start!SpuriousWakeup, Start!NextTurn, StartStep, TurnOf
<1>3. ASSUME NEW w \in Workers, worker_start(w)
      PROVE  StartStep(nworkerthreads, server, server')
  <2>1. Reads(server, w, server') \/ Signals(nworkerthreads, server, w, server')
    BY <1>3 DEF worker_start, Start!ThreadStep, Start!read_nsocket, Start!pthread_cond_signal,
      Start!NextTurn, Reads, Signals, TurnOf
  <2> QED
    BY <2>1 DEF StartStep, Workers, Numbers
<1>4. ASSUME NEW r \in Requesters, proxy_request(r) PROVE UNCHANGED server
  BY <1>4 DEF proxy_request
<1>5. ASSUME NEW w \in Workers,
             \/ worker_get(w) \/ worker_set(w) \/ worker_delete(w) \/ worker_shut_down(w)
             \/ worker_cache(w) \/ worker_abort(w)
      PROVE  UNCHANGED server
  BY <1>5 DEF worker_get, worker_set, worker_delete, worker_shut_down, worker_cache, worker_abort
<1>6. ASSUME NEW r, Send(r, SET_KEY_VALUE, key, value) \/ Send(r, GET_VALUE_BY_KEY, key, <<>>)
             \/ Send(r, SHUT_DOWN, <<>>, <<>>) \/ Recv(r)
             \/ \E k \in Keys : Send(r, DELETE_BY_KEY, k, <<>>)
      PROVE  UNCHANGED server
  BY <1>6 DEF Send, Recv
<1>7. CASE client_main \/ stop_create_fails \/ UNCHANGED allvars
  BY <1>7 DEF client_main, stop_create_fails, allvars, servervars
<1>8. ASSUME NEW c \in Clients, ClientStep(c) PROVE UNCHANGED server
  BY <1>6, <1>8 DEF ClientStep, client_thread, client_send, client_recv, servervars
<1>9. ASSUME NEW r \in Others, other_send(r) \/ other_recv(r) PROVE UNCHANGED server
  BY <1>6, <1>9 DEF other_send, other_recv
<1>10. CASE stop_send \/ stop_recv
  BY <1>6, <1>10 DEF stop_send, stop_recv
<1> QED
  BY <1>1, <1>2, <1>3, <1>4, <1>5, <1>7, <1>8, <1>9, <1>10 DEF Next, ServerNext, WorkerStep

LEMMA ClientStarts ==
  ASSUME [Next]_allvars
  PROVE  StartStep(nvirtualclient, client, client') \/ UNCHANGED client
<1>1. CASE client_main
  BY <1>1 DEF client_main, ClientStart!MainStep, StartStep, ClientStart!pthread_create,
    ClientStart!pthread_create_fails, ClientStart!pthread_cond_wait
<1>2. ASSUME NEW c \in Clients, client_thread(c)
      PROVE  StartStep(nvirtualclient, client, client')
  <2>1. Reads(client, c, client') \/ Signals(nvirtualclient, client, c, client')
    BY <1>2 DEF client_thread, ClientStart!ThreadStep, ClientStart!read_nsocket,
      ClientStart!pthread_cond_signal, ClientStart!NextTurn, Reads, Signals, TurnOf
  <2> QED
    BY <2>1 DEF StartStep, Clients, Numbers
<1>3. CASE stop_create_fails
  BY <1>3 DEF stop_create_fails, StartStep
<1>4. ASSUME NEW r, Send(r, SET_KEY_VALUE, key, value) \/ Send(r, GET_VALUE_BY_KEY, key, <<>>)
             \/ Send(r, SHUT_DOWN, <<>>, <<>>) \/ Recv(r)
             \/ \E k \in Keys : Send(r, DELETE_BY_KEY, k, <<>>)
      PROVE  UNCHANGED client
  BY <1>4 DEF Send, Recv
<1>5. ASSUME NEW c \in Clients, client_send(c) \/ client_recv(c) PROVE UNCHANGED client
  BY <1>4, <1>5 DEF client_send, client_recv
<1>6. ASSUME NEW r \in Others, other_send(r) \/ other_recv(r) PROVE UNCHANGED client
  BY <1>4, <1>6 DEF other_send, other_recv
<1>7. CASE stop_send \/ stop_recv
  BY <1>4, <1>7 DEF stop_send, stop_recv
<1>8. CASE (ServerNext /\ UNCHANGED clientvars) \/ UNCHANGED allvars
  BY <1>8 DEF allvars, clientvars
<1> QED
  BY <1>1, <1>2, <1>3, <1>5, <1>6, <1>7, <1>8 DEF Next, ClientStep

StartsInv == StartInv(nworkerthreads, server) /\ StartInv(nvirtualclient, client)

(***************************************************************************)
(* Every thread of both programs works on a socket of its own, as long as  *)
(* no pthread_cond_wait ends by itself.                                    *)
(***************************************************************************)
THEOREM SocketsAreOwn == Spec => []OwnSockets
<1>1. nworkerthreads \in Nat \ {0} /\ nvirtualclient \in Nat \ {0}
  BY ZmqServerAssumption, ZmqClientsAssumption
<1>2. Init => StartsInv
  BY <1>1 DEF Init, ServerInit, Start!Init, Start!Threads, ClientStart!Init, ClientStart!Threads,
    StartsInv, StartInv, StartType, OneAtATime, OwnNumber, Numbers
<1>3. StartsInv /\ [Next]_allvars => StartsInv'
  <2> SUFFICES ASSUME StartsInv, [Next]_allvars PROVE StartsInv'
    OBVIOUS
  <2>1. StartInv(nworkerthreads, server')
    <3> PICK t : t = server'
      OBVIOUS
    <3> QED
      BY <1>1, ServerStarts, StartKeeps DEF StartsInv
  <2>2. StartInv(nvirtualclient, client')
    <3> PICK t : t = client'
      OBVIOUS
    <3> QED
      BY <1>1, ClientStarts, StartKeeps DEF StartsInv
  <2> QED
    BY <2>1, <2>2 DEF StartsInv
<1>4. StartsInv => OwnSockets
  BY DEF StartsInv, StartInv, OwnNumber, Numbers, OwnSockets, Start!OwnSocket,
    ClientStart!OwnSocket, Start!Threads, ClientStart!Threads
<1> QED
  BY <1>2, <1>3, <1>4, PTL DEF Spec

-----------------------------------------------------------------------------

(***************************************************************************)
(* The service.  Keys are not empty and have no null character in them;    *)
(* the data may.                                                           *)
(***************************************************************************)
KeysAreStrings ==
  \E Char : /\ NUL \notin Char
            /\ Keys \subseteq Seq(Char) \ {<<>>}
            /\ Vals \subseteq Seq(Char \cup {NUL})

IsConcat(s, s1, s2, S) ==
  /\ s \in Seq(S) /\ Len(s) = Len(s1) + Len(s2)
  /\ \A i \in 1 .. Len(s1) + Len(s2) : s[i] = IF i <= Len(s1) THEN s1[i] ELSE s2[i - Len(s1)]

LEMMA Concat ==
  ASSUME NEW S, NEW s1 \in Seq(S), NEW s2 \in Seq(S)
  PROVE  IsConcat(s1 \o s2, s1, s2, S)
BY ConcatProperties DEF IsConcat

(***************************************************************************)
(* A worker reads from a request the key and the data it was made of.      *)
(***************************************************************************)
LEMMA RequestIsRead ==
  ASSUME NEW Char, NUL \notin Char, NEW k \in Seq(Char), k # <<>>,
         NEW d \in Seq(Char \cup {NUL}), NEW op
  PROVE  RequestKey(Request(op, k, d)) = k /\ RequestData(Request(op, k, d)) = d
<1> DEFINE C == Char \cup {NUL}
           m == Request(op, k, d)
           b == (k \o <<NUL>>) \o d
           n == Len(k) + 1
           Nulls == {i \in DOMAIN b : b[i] = NUL}
<1>1. k \in Seq(C) /\ Len(k) \in Nat \ {0} /\ <<NUL>> \in Seq(C) /\ Len(<<NUL>>) = 1
      /\ d \in Seq(C) /\ Len(d) \in Nat
  BY SeqMonotonic, EmptySeq
<1>2. /\ k \o <<NUL>> \in Seq(C) /\ Len(k \o <<NUL>>) = n
      /\ \A i \in 1 .. Len(k) : (k \o <<NUL>>)[i] = k[i]
      /\ (k \o <<NUL>>)[n] = NUL
  BY <1>1, ConcatProperties
<1>3. /\ b \in Seq(C) /\ Len(b) = n + Len(d)
      /\ \A i \in 1 .. n + Len(d) : b[i] = IF i <= n THEN (k \o <<NUL>>)[i]
                                           ELSE d[i - n]
  <2> DEFINE a == k \o <<NUL>>
  <2>1. a \in Seq(C) /\ Len(a) = n
    BY <1>2
  <2> HIDE DEF a, n, C
  <2>2. /\ a \o d \in Seq(C) /\ Len(a \o d) = Len(a) + Len(d)
        /\ \A i \in 1 .. Len(a) + Len(d) : (a \o d)[i] = IF i <= Len(a) THEN a[i] ELSE d[i - Len(a)]
    <3>1. IsConcat(a \o d, a, d, C)
      BY <1>1, <2>1, Concat
    <3> QED BY <3>1 DEF IsConcat
  <2>3. b = a \o d /\ k \o <<NUL>> = a
    BY DEF a
  <2> HIDE DEF b
  <2> QED
    BY <2>1, <2>2, <2>3
<1>4. m.nkey = Len(k) /\ m.nbytes = Len(d) /\ m.body = b
  BY DEF Request
<1> HIDE DEF m, b
<1>5. /\ DOMAIN b = 1 .. n + Len(d)
      /\ \A i \in 1 .. Len(k) : b[i] = k[i] /\ k[i] \in Char
      /\ b[n] = NUL
      /\ \A j \in 1 .. Len(d) : b[n + j] = d[j]
  <2>1. DOMAIN b = 1 .. n + Len(d) /\ n \in 1 .. n + Len(d)
    BY <1>1, <1>3
  <2>2. ASSUME NEW i \in 1 .. Len(k) PROVE b[i] = k[i] /\ k[i] \in Char
    <3>1. i \in 1 .. n + Len(d) /\ i <= n /\ k[i] \in Char
      BY <1>1
    <3> QED
      BY <1>2, <1>3, <3>1
  <2>3. b[n] = NUL
    BY <1>1, <1>2, <1>3, <2>1
  <2>4. ASSUME NEW j \in 1 .. Len(d) PROVE b[n + j] = d[j]
    <3>1. n + j \in 1 .. n + Len(d) /\ ~(n + j <= n) /\ n + j - n = j
      BY <1>1
    <3> QED
      BY <1>3, <3>1
  <2> QED
    BY <2>1, <2>2, <2>3, <2>4
<1>6. n \in Nulls /\ \A i \in Nulls : n <= i
  BY <1>1, <1>5
<1>7. Min(Nulls) = n
  <2>1. \A x \in Nulls : (\A y \in Nulls : x <= y) => x = n
    BY <1>1, <1>5, <1>6
  <2> HIDE DEF Nulls, n
  <2> QED
    BY <1>6, <2>1 DEF Min
<1>8. SubSeq(b, 1, n - 1) = k
  <2>1. n - 1 = Len(k) /\ \A i \in 1 .. Len(k) : b[i] \in C
    BY <1>1, <1>5
  <2>2. /\ SubSeq(b, 1, Len(k)) \in Seq(C) /\ Len(SubSeq(b, 1, Len(k))) = Len(k)
        /\ \A i \in 1 .. Len(k) : SubSeq(b, 1, Len(k))[i] = b[i]
    BY <1>1, <2>1, SubSeqProperties
  <2> QED
    BY <1>1, <1>5, <2>1, <2>2, SeqEqual
<1>9. SubSeq(b, n + 1, n + Len(d)) = d
  <2> DEFINE s == SubSeq(b, n + 1, n + Len(d))
  <2>1. \A i \in (n + 1) .. (n + Len(d)) : b[i] \in C
    BY <1>1, <1>3
  <2>2. s \in Seq(C) /\ Len(s) = Len(d) /\ \A j \in 1 .. Len(d) : s[j] = b[n + j]
    <3>1. n + 1 \in Int /\ n + Len(d) \in Int /\ n \in Nat
      BY <1>1
    <3> HIDE DEF n
    <3>2. /\ s \in Seq(C) /\ Len(s) = IF n + 1 <= n + Len(d) THEN n + Len(d) - (n + 1) + 1 ELSE 0
          /\ \A j \in 1 .. n + Len(d) - (n + 1) + 1 : s[j] = b[n + 1 + j - 1]
      BY <2>1, <3>1, SubSeqProperties
    <3> HIDE DEF s
    <3> QED
      BY <1>1, <3>1, <3>2
  <2> HIDE DEF s
  <2>3. \A j \in 1 .. Len(s) : s[j] = d[j]
    BY <1>5, <2>2
  <2>4. s = d
    BY <1>1, <2>2, <2>3, SeqEqual
  <2> QED
    BY <2>4 DEF s
<1>10. RequestKey(m) = k
  <2>1. CString(b) = k
    BY <1>7, <1>8 DEF CString
  <2> QED
    BY <1>1, <1>4, <2>1 DEF RequestKey
<1>11. RequestData(m) = d
  <2>1. m.nkey + 2 = n + 1 /\ m.nkey + 1 + m.nbytes = n + Len(d)
    BY <1>1, <1>4
  <2> QED
    BY <1>4, <1>9, <2>1 DEF RequestData
<1> QED
  BY <1>10, <1>11 DEF m

\* What a client reads from a reply.
LEMMA ReplyIsRead ==
  ASSUME NEW C, NEW d \in Seq(C), NEW op, NEW found \in BOOLEAN
  PROVE  ReplyData(Reply(op, found, d)) = IF found THEN d ELSE NULL
<1>1. SubSeq(d, 1, Len(d)) = d
  BY SubSeqFull
<1> QED
  BY <1>1 DEF ReplyData, Reply

(***************************************************************************)
(* Where the request of r can be: on its way to the proxy, in the socket   *)
(* of a worker, run by a worker; or its reply is on the way to r.          *)
(***************************************************************************)
Sent(r) == to_server[r] # NULL
Queued(r, w, i) == i \in 1 .. Len(queue[w]) /\ queue[w][i].from = r
Run(r, w) == worker[w].pc = "cache" /\ worker[w].from = r
Replied(r) == to_client[r] # NULL

Nowhere(r) ==
  /\ ~Sent(r) /\ ~Replied(r)
  /\ \A w \in Workers : ~Run(r, w)
  /\ \A w \in Workers, i \in Nat : ~Queued(r, w, i)

\* It is in one place at most.
OnePlace(r) ==
  /\ Sent(r) => /\ ~Replied(r) /\ \A w \in Workers : ~Run(r, w)
                /\ \A w \in Workers, i \in Nat : ~Queued(r, w, i)
  /\ Replied(r) => /\ \A w \in Workers : ~Run(r, w)
                   /\ \A w \in Workers, i \in Nat : ~Queued(r, w, i)
  /\ \A v, w \in Workers : Run(r, v) /\ Run(r, w) => v = w
  /\ \A v, w \in Workers, i \in Nat : Queued(r, v, i) => ~Run(r, w)
  /\ \A v, w \in Workers, i, j \in Nat : Queued(r, v, i) /\ Queued(r, w, j) => v = w /\ i = j

Message(a) == Request(a.op, a.key, a.data)
Queueds == [from : Requesters, req : {Message(a) : a \in Asks}]

FlightFor(r) ==
  /\ OnePlace(r)
  /\ asked[r] = NULL => Nowhere(r)
  /\ Sent(r) => to_server[r] = Message(asked[r])
  /\ \A w \in Workers, i \in Nat : Queued(r, w, i) => queue[w][i].req = Message(asked[r])
  /\ \A w \in Workers : Run(r, w) => worker[w].op = asked[r].op

FlightOK ==
  /\ \A r \in Requesters : FlightFor(r)
  /\ queue \in [Workers -> Seq(Queueds)]
  /\ to_server = [r \in Requesters |-> to_server[r]]
  /\ to_client = [r \in Requesters |-> to_client[r]]

(***************************************************************************)
(* What the requesters ask: the stopper to shut down, and the others not.  *)
(***************************************************************************)
AskOK(r, a) ==
  /\ a \in Asks
  /\ r = STOPPER => a.op = SHUT_DOWN
  /\ r # STOPPER => /\ a.op \in {SET_KEY_VALUE, GET_VALUE_BY_KEY, DELETE_BY_KEY}
                    /\ a.key \in Keys
                    /\ a.op = SET_KEY_VALUE => a.data \in Vals

AsksOK ==
  /\ asked = [r \in Requesters |-> asked[r]]
  /\ got = [r \in Requesters |-> got[r]]
  /\ \A r \in Requesters : asked[r] # NULL => AskOK(r, asked[r])

(***************************************************************************)
(* A worker is in a call of the cache exactly while it runs the request of *)
(* a cache client, and in the call that was asked for.                     *)
(***************************************************************************)
CallOK(a, b) ==
  /\ a = [op |-> a.op, key |-> a.key, val |-> a.val]
  /\ a.op = "idle" => a = Cache!Idle
  /\ a.op \in {"get", "store"} => a.val \in Vals
  /\ b.pc = "cache" => /\ b.from \in CacheClients
                       /\ a.op = "get" => b.op = GET_VALUE_BY_KEY
                       /\ a.op = "store" => b.op = SET_KEY_VALUE
                       /\ a.op \in {"delete", "deleted"} => b.op = DELETE_BY_KEY
                       /\ a.op \in {"get", "store", "delete", "deleted"}
  /\ b.pc # "cache" => a.op = "idle"
  /\ b = [pc |-> b.pc, from |-> b.from, op |-> b.op]

CallsOK ==
  /\ map \in [Keys -> Vals \cup {NULL}]
  /\ calls = [w \in Workers |-> calls[w]]
  /\ ret = [w \in Workers |-> ret[w]]
  /\ worker = [w \in Workers |-> worker[w]]
  /\ cachebuffer \in [Workers -> Vals \cup {<<>>}]
  /\ \A w \in Workers : CallOK(calls[w], worker[w])

ServiceInv == FlightOK /\ AsksOK /\ CallsOK

LEMMA Names ==
  /\ SHUT_DOWN = "shut_down" /\ SET_KEY_VALUE = "set"
  /\ GET_VALUE_BY_KEY = "get" /\ DELETE_BY_KEY = "delete"
BY DEF SHUT_DOWN, SET_KEY_VALUE, GET_VALUE_BY_KEY, DELETE_BY_KEY

LEMMA InitService == Init => ServiceInv
<1> SUFFICES ASSUME Init PROVE ServiceInv
  OBVIOUS
<1>1. FlightOK
  <2>1. \A w \in Workers : worker[w].pc = "recv" /\ queue[w] = <<>>
    BY DEF Init, ServerInit, NoRequest
  <2>2. \A r \in Requesters : to_server[r] = NULL /\ to_client[r] = NULL
    BY DEF Init, ServerInit
  <2>3. \A r \in Requesters : Nowhere(r)
    BY <2>1, <2>2 DEF Nowhere, Sent, Replied, Run, Queued
  <2>4. \A r \in Requesters : OnePlace(r)
    BY <2>3 DEF Nowhere, OnePlace
  <2>5. queue \in [Workers -> Seq(Queueds)]
    BY DEF Init, ServerInit
  <2> QED
    BY <2>3, <2>4, <2>5 DEF FlightOK, FlightFor, Nowhere, Init, ServerInit
<1>2. AsksOK
  BY DEF Init, AsksOK
<1>3. CallsOK
  BY DEF Init, ServerInit, Cache!Init, Cache!Idle, NoRequest, CallsOK, CallOK
<1> QED
  BY <1>1, <1>2, <1>3 DEF ServiceInv

-----------------------------------------------------------------------------
(***************************************************************************)
(* A request moves from one place to the next.                             *)
(***************************************************************************)

\* The places of a requester that a step has nothing to do with.
Untouched(r) ==
  /\ asked'[r] = asked[r] /\ to_server'[r] = to_server[r]
  /\ Sent(r)' <=> Sent(r)
  /\ Replied(r)' <=> Replied(r)
  /\ \A w \in Workers : (Run(r, w)' <=> Run(r, w)) /\ (Run(r, w) => worker'[w].op = worker[w].op)
  /\ \A w \in Workers, i \in Nat : /\ Queued(r, w, i)' <=> Queued(r, w, i)
                                   /\ Queued(r, w, i) => queue'[w][i] = queue[w][i]

LEMMA UntouchedKeeps ==
  ASSUME FlightOK, NEW r \in Requesters, Untouched(r)
  PROVE  FlightFor(r)'
<1>1. FlightFor(r)
  BY DEF FlightOK, FlightFor
<1>2. OnePlace(r)'
  BY <1>1 DEF FlightFor, Untouched, OnePlace
<1>3. asked'[r] = NULL => Nowhere(r)'
  BY <1>1 DEF FlightFor, Untouched, Nowhere
<1> QED
  BY <1>1, <1>2, <1>3 DEF FlightFor, Untouched

LEMMA FlightSend ==
  ASSUME ServiceInv, NEW r \in Requesters, NEW a, AskOK(r, a), Send(r, a.op, a.key, a.data)
  PROVE  FlightOK' /\ AsksOK'
<1>1. /\ asked[r] = NULL /\ asked' = [asked EXCEPT ![r] = a]
      /\ to_server' = [to_server EXCEPT ![r] = Message(a)]
      /\ UNCHANGED <<worker, queue, to_client, got>>
  <2>1. a = [op |-> a.op, key |-> a.key, data |-> a.data]
    BY DEF AskOK, Asks
  <2> QED
    BY <2>1 DEF Send, Message
<1>2. a # NULL
  BY ZmqClientsAssumption DEF AskOK
<1>3. asked'[r] = a /\ \A s \in Requesters : s # r => asked'[s] = asked[s]
  BY <1>1 DEF ServiceInv, AsksOK
<1>4. to_server'[r] = Message(a) /\ \A s \in Requesters : s # r => to_server'[s] = to_server[s]
  BY <1>1 DEF ServiceInv, FlightOK
<1>5. ASSUME NEW s \in Requesters, s # r PROVE FlightFor(s)'
  <2>1. Untouched(s)
    BY <1>1, <1>3, <1>4, <1>5 DEF Untouched, Sent, Replied, Run, Queued
  <2> QED
    BY <2>1, UntouchedKeeps DEF ServiceInv
<1>6. FlightFor(r)'
  <2>1. Nowhere(r)
    BY <1>1 DEF ServiceInv, FlightOK, FlightFor
  <2>2. ~Replied(r)' /\ (\A w \in Workers : ~Run(r, w)')
        /\ \A w \in Workers, i \in Nat : ~Queued(r, w, i)'
    BY <1>1, <2>1 DEF Nowhere, Replied, Run, Queued
  <2> QED
    BY <1>2, <1>3, <1>4, <2>2 DEF FlightFor, OnePlace
<1>7. FlightOK'
  <2>1. /\ to_server' = [s \in Requesters |-> to_server'[s]]
        /\ to_client' = [s \in Requesters |-> to_client'[s]]
        /\ queue' \in [Workers -> Seq(Queueds)]
    BY <1>1 DEF ServiceInv, FlightOK
  <2> QED
    BY <1>5, <1>6, <2>1 DEF FlightOK
<1>8. AsksOK'
  BY <1>1, <1>2, <1>3 DEF ServiceInv, AsksOK
<1> QED
  BY <1>7, <1>8

LEMMA FlightProxy ==
  ASSUME ServiceInv, NEW r \in Requesters, proxy_request(r), UNCHANGED <<asked, got>>
  PROVE  FlightOK'
<1> PICK m : m = [from |-> r, req |-> to_server[r]]
  OBVIOUS
<1>1. PICK w \in Workers : queue' = [queue EXCEPT ![w] = Append(queue[w], m)]
  BY DEF proxy_request
<1>2. /\ Sent(r) /\ to_server' = [to_server EXCEPT ![r] = NULL]
      /\ UNCHANGED <<worker, to_client>>
  BY DEF proxy_request, Sent
<1> PICK n : n = Len(queue[w]) + 1
  OBVIOUS
<1>3. FlightFor(r) /\ asked[r] # NULL /\ to_server[r] = Message(asked[r])
  BY <1>2 DEF ServiceInv, FlightOK, FlightFor, Nowhere
<1>4. m \in Queueds /\ m.from = r /\ m.req = Message(asked[r])
  BY <1>3 DEF ServiceInv, AsksOK, AskOK, Queueds
<1>5. /\ queue'[w] \in Seq(Queueds) /\ Len(queue'[w]) = n /\ n \in Nat \ {0} /\ queue'[w][n] = m
      /\ \A i \in 1 .. Len(queue[w]) : queue'[w][i] = queue[w][i]
      /\ \A v \in Workers : v # w => queue'[v] = queue[v]
      /\ queue' \in [Workers -> Seq(Queueds)] /\ Len(queue[w]) = n - 1
  BY <1>1, <1>4 DEF ServiceInv, FlightOK
<1>6. \A s \in Requesters, v \in Workers, i \in Nat :
        Queued(s, v, i)' <=> Queued(s, v, i) \/ (s = r /\ v = w /\ i = n)
  BY <1>4, <1>5 DEF Queued
<1>7. ASSUME NEW s \in Requesters, s # r PROVE FlightFor(s)'
  <2>1. to_server'[s] = to_server[s]
    BY <1>2, <1>7 DEF ServiceInv, FlightOK
  <2>2. \A v \in Workers, i \in Nat : Queued(s, v, i) => queue'[v][i] = queue[v][i]
    BY <1>5 DEF Queued
  <2>3. Untouched(s)
    BY <1>2, <1>6, <1>7, <2>1, <2>2 DEF Untouched, Sent, Replied, Run
  <2> QED
    BY <2>3, UntouchedKeeps DEF ServiceInv
<1>8. FlightFor(r)'
  <2>1. /\ ~Sent(r)' /\ ~Replied(r)' /\ (\A v \in Workers : ~Run(r, v)')
        /\ \A v \in Workers, i \in Nat : Queued(r, v, i)' <=> v = w /\ i = n
    BY <1>2, <1>3, <1>6 DEF ServiceInv, FlightOK, FlightFor, OnePlace, Sent, Replied, Run
  <2> QED
    BY <1>3, <1>4, <1>5, <2>1 DEF FlightFor, OnePlace
<1> QED
  <2>1. /\ to_server' = [s \in Requesters |-> to_server'[s]]
        /\ to_client' = [s \in Requesters |-> to_client'[s]]
    BY <1>2 DEF ServiceInv, FlightOK
  <2> QED
    BY <1>5, <1>7, <1>8, <2>1 DEF FlightOK

(***************************************************************************)
(* What Executes makes of the worker w that has the request of r: it stays *)
(* in the call, or has sent a reply.                                       *)
(***************************************************************************)
Handled(w, r, op) ==
  /\ \A v \in Workers : v # w => worker'[v] = worker[v]
  /\ \/ /\ worker'[w] = [pc |-> "cache", from |-> r, op |-> op]
        /\ to_client' = to_client
     \/ /\ worker'[w].pc # "cache"
        /\ \E x \in Replies : to_client' = [to_client EXCEPT ![r] = x]

LEMMA HandledPlaces ==
  ASSUME ServiceInv, NEW r \in Requesters, NEW w \in Workers, NEW op, Handled(w, r, op)
  PROVE  /\ \A s \in Requesters, v \in Workers :
              Run(s, v)' <=> IF v = w THEN s = r /\ worker'[w].pc = "cache" ELSE Run(s, v)
         /\ \A s \in Requesters :
              Replied(s)' <=> Replied(s) \/ (s = r /\ worker'[w].pc # "cache")
         /\ Run(r, w)' => worker'[w].op = op
         /\ to_client' = [s \in Requesters |-> to_client'[s]]
         /\ \A s \in Requesters : s # r => to_client'[s] = to_client[s]
<1>1. NULL \notin Replies /\ to_client = [s \in Requesters |-> to_client[s]]
  BY ZmqClientsAssumption DEF ServiceInv, FlightOK
<1>2. CASE worker'[w] = [pc |-> "cache", from |-> r, op |-> op] /\ to_client' = to_client
  BY <1>1, <1>2 DEF Handled, Run, Replied
<1>3. CASE worker'[w].pc # "cache" /\ \E x \in Replies : to_client' = [to_client EXCEPT ![r] = x]
  BY <1>1, <1>3 DEF Handled, Run, Replied
<1> QED
  BY <1>2, <1>3 DEF Handled

\* A worker receives the first request in its socket.
LEMMA FlightReceive ==
  ASSUME ServiceInv, NEW w \in Workers, worker[w].pc # "cache", queue[w] # <<>>,
         NEW r, r = Head(queue[w]).from, queue' = [queue EXCEPT ![w] = Tail(queue[w])],
         Handled(w, r, Head(queue[w]).req.op), UNCHANGED <<to_server, asked, got>>
  PROVE  /\ FlightOK' /\ r \in Requesters /\ asked[r] # NULL
         /\ Head(queue[w]).req = Message(asked[r])
         /\ ~Replied(r) /\ \A v \in Workers : ~Run(r, v)
<1> PICK q : q = queue[w]
  OBVIOUS
<1> PICK op : op = Head(q).req.op
  OBVIOUS
<1>1. /\ q \in Seq(Queueds) /\ Len(q) \in Nat \ {0} /\ Head(q) = q[1] /\ q[1] \in Queueds
      /\ Tail(q) \in Seq(Queueds) /\ Len(Tail(q)) = Len(q) - 1
      /\ \A i \in 1 .. Len(q) - 1 : Tail(q)[i] = q[i + 1]
  BY HeadTailProperties, EmptySeq DEF ServiceInv, FlightOK
<1>2. r \in Requesters /\ Queued(r, w, 1)
  BY <1>1 DEF Queued, Queueds
<1>3. /\ FlightFor(r) /\ asked[r] # NULL /\ q[1].req = Message(asked[r]) /\ op = asked[r].op
      /\ ~Sent(r) /\ ~Replied(r) /\ \A v \in Workers : ~Run(r, v)
  <2>1. FlightFor(r)
    BY <1>2 DEF ServiceInv, FlightOK
  <2>2. asked[r] # NULL /\ ~Sent(r) /\ ~Replied(r) /\ \A v \in Workers : ~Run(r, v)
    BY <1>2, <2>1 DEF FlightFor, OnePlace, Nowhere
  <2>3. q[1].req = Message(asked[r])
    BY <1>2, <2>1 DEF FlightFor
  <2>4. Message(asked[r]).op = asked[r].op
    BY DEF Message, Request
  <2> QED
    BY <1>1, <2>1, <2>2, <2>3, <2>4
<1>4. /\ queue' \in [Workers -> Seq(Queueds)] /\ queue'[w] = Tail(q)
      /\ \A v \in Workers : v # w => queue'[v] = queue[v]
  BY <1>1 DEF ServiceInv, FlightOK
<1>5. \A s \in Requesters, v \in Workers, i \in Nat :
        Queued(s, v, i)' <=> IF v = w THEN i # 0 /\ Queued(s, w, i + 1) ELSE Queued(s, v, i)
  BY <1>1, <1>4 DEF Queued
<1>6. \A v \in Workers, i \in Nat \ {0} :
        (v = w /\ i + 1 \in 1 .. Len(q) => queue'[w][i] = queue[w][i + 1])
        /\ (v # w => queue'[v][i] = queue[v][i])
  BY <1>1, <1>4
<1>7. /\ \A s \in Requesters, v \in Workers :
           Run(s, v)' <=> IF v = w THEN s = r /\ worker'[w].pc = "cache" ELSE Run(s, v)
      /\ \A s \in Requesters :
           Replied(s)' <=> Replied(s) \/ (s = r /\ worker'[w].pc # "cache")
      /\ Run(r, w)' => worker'[w].op = op
      /\ to_client' = [s \in Requesters |-> to_client'[s]]
  BY <1>2, HandledPlaces
<1>8. \A s \in Requesters : Sent(s)' <=> Sent(s)
  BY DEF Sent
<1>9. \A s \in Requesters : ~Run(s, w)
  BY DEF Run
<1>10. ASSUME NEW s \in Requesters, s # r PROVE FlightFor(s)'
  <2>1. FlightFor(s)
    BY DEF ServiceInv, FlightOK
  <2>2. OnePlace(s)'
    BY <1>5, <1>7, <1>8, <1>9, <1>10, <2>1 DEF FlightFor, OnePlace
  <2>3. asked'[s] = NULL => Nowhere(s)'
    BY <1>5, <1>7, <1>8, <1>10, <2>1 DEF FlightFor, Nowhere
  <2>4. ASSUME NEW v \in Workers, NEW i \in Nat, Queued(s, v, i)'
        PROVE  queue'[v][i].req = Message(asked'[s])
    <3>1. CASE v = w
      <4>1. i # 0 /\ Queued(s, w, i + 1) /\ i + 1 \in Nat /\ i + 1 \in 1 .. Len(q)
        BY <1>5, <2>4, <3>1 DEF Queued
      <4>2. queue[w][i + 1].req = Message(asked[s])
        BY <2>1, <4>1 DEF FlightFor
      <4> QED
        BY <1>6, <3>1, <4>1, <4>2
    <3>2. CASE v # w
      BY <1>4, <1>5, <2>1, <2>4, <3>2 DEF FlightFor
    <3> QED
      BY <3>1, <3>2
  <2>5. ASSUME NEW v \in Workers, Run(s, v)' PROVE worker'[v].op = asked'[s].op
    <3>1. v # w /\ Run(s, v)
      BY <1>7, <1>10, <2>5
    <3>2. worker'[v] = worker[v]
      BY <3>1 DEF Handled
    <3> QED
      BY <2>1, <3>1, <3>2 DEF FlightFor
  <2> QED
    BY <1>8, <2>1, <2>2, <2>3, <2>4, <2>5 DEF FlightFor
<1>11. FlightFor(r)'
  <2>1. \A v \in Workers, i \in Nat : ~Queued(r, v, i)'
    <3> SUFFICES ASSUME NEW v \in Workers, NEW i \in Nat, Queued(r, v, i)' PROVE FALSE
      OBVIOUS
    <3>1. CASE v = w
      <4>1. Queued(r, w, i)'
        BY <3>1
      <4>2. i # 0 /\ Queued(r, w, i + 1)
        BY <1>2, <1>5, <4>1
      <4>3. i + 1 \in Nat /\ i + 1 # 1
        BY <4>2
      <4> QED
        BY <1>2, <1>3, <4>2, <4>3 DEF FlightFor, OnePlace
    <3>2. CASE v # w
      BY <1>2, <1>3, <1>5, <3>2 DEF FlightFor, OnePlace
    <3> QED
      BY <3>1, <3>2
  <2>2. OnePlace(r)'
    BY <1>2, <1>3, <1>7, <1>8, <2>1 DEF OnePlace
  <2>3. ASSUME NEW v \in Workers, Run(r, v)' PROVE worker'[v].op = asked'[r].op
    BY <1>2, <1>3, <1>7, <2>3
  <2>4. asked'[r] # NULL /\ ~Sent(r)'
    BY <1>2, <1>3, <1>8
  <2> QED
    BY <2>1, <2>2, <2>3, <2>4 DEF FlightFor
<1> QED
  <2>1. to_server' = [s \in Requesters |-> to_server'[s]]
    BY DEF ServiceInv, FlightOK
  <2>2. FlightOK'
    BY <1>4, <1>7, <1>10, <1>11, <2>1 DEF FlightOK
  <2> QED
    BY <1>1, <1>2, <1>3, <2>2

\* A worker goes on with a call of the cache.
LEMMA FlightContinue ==
  ASSUME ServiceInv, NEW w \in Workers, NEW r \in Requesters, Run(r, w),
         Handled(w, r, worker[w].op), UNCHANGED <<queue, to_server, asked, got>>
  PROVE  FlightOK' /\ ~Replied(r) /\ asked[r] # NULL
<1>1. FlightFor(r) /\ asked[r] # NULL /\ ~Sent(r) /\ ~Replied(r) /\ worker[w].op = asked[r].op
  BY DEF ServiceInv, FlightOK, FlightFor, OnePlace, Nowhere
<1>2. /\ \A s \in Requesters, v \in Workers :
           Run(s, v)' <=> IF v = w THEN s = r /\ worker'[w].pc = "cache" ELSE Run(s, v)
      /\ \A s \in Requesters :
           Replied(s)' <=> Replied(s) \/ (s = r /\ worker'[w].pc # "cache")
      /\ Run(r, w)' => worker'[w].op = asked[r].op
      /\ to_client' = [s \in Requesters |-> to_client'[s]]
  BY <1>1, HandledPlaces
<1>3. /\ \A s \in Requesters : Sent(s)' <=> Sent(s)
      /\ \A s \in Requesters, v \in Workers, i \in Nat : Queued(s, v, i)' <=> Queued(s, v, i)
  BY DEF Sent, Queued
<1>4. ASSUME NEW s \in Requesters, s # r PROVE FlightFor(s)'
  <2>1. Untouched(s)
    <3>1. ~Run(s, w)
      BY <1>4 DEF Run
    <3> QED
      BY <1>2, <1>3, <1>4, <3>1 DEF Untouched, Handled
  <2> QED
    BY <2>1, UntouchedKeeps DEF ServiceInv
<1>5. FlightFor(r)'
  <2>1. \A v \in Workers, i \in Nat : ~Queued(r, v, i)'
    BY <1>1, <1>3 DEF FlightFor, OnePlace
  <2>2. OnePlace(r)'
    BY <1>1, <1>2, <1>3, <2>1 DEF FlightFor, OnePlace
  <2>3. ASSUME NEW v \in Workers, Run(r, v)' PROVE worker'[v].op = asked'[r].op
    <3>1. v = w
      BY <1>1, <1>2, <2>3 DEF FlightFor, OnePlace
    <3> QED
      BY <1>2, <2>3, <3>1
  <2> QED
    BY <1>1, <1>3, <2>1, <2>2, <2>3 DEF FlightFor
<1> QED
  BY <1>1, <1>2, <1>4, <1>5 DEF FlightOK, ServiceInv

\* A requester gets its reply.
LEMMA FlightRecv ==
  ASSUME ServiceInv, NEW r \in Requesters, Recv(r)
  PROVE  /\ FlightOK' /\ AsksOK' /\ asked[r] # NULL /\ Replied(r)
         /\ \A v \in Workers : ~Run(r, v)
<1>1. /\ Replied(r) /\ asked' = [asked EXCEPT ![r] = NULL]
      /\ to_client' = [to_client EXCEPT ![r] = NULL]
      /\ \E x : got' = [got EXCEPT ![r] = x]
      /\ UNCHANGED <<worker, to_server, queue>>
  BY DEF Recv, Replied
<1>2. /\ FlightFor(r) /\ asked[r] # NULL /\ ~Sent(r)
      /\ (\A v \in Workers : ~Run(r, v))
      /\ \A v \in Workers, i \in Nat : ~Queued(r, v, i)
  BY <1>1 DEF ServiceInv, FlightOK, FlightFor, OnePlace, Nowhere
<1>3. /\ asked'[r] = NULL /\ ~Replied(r)'
      /\ \A s \in Requesters : s # r => asked'[s] = asked[s] /\ to_client'[s] = to_client[s]
      /\ asked' = [s \in Requesters |-> asked'[s]]
      /\ to_client' = [s \in Requesters |-> to_client'[s]]
      /\ got' = [s \in Requesters |-> got'[s]]
  BY <1>1 DEF ServiceInv, FlightOK, AsksOK, Replied
<1>4. ASSUME NEW s \in Requesters, s # r PROVE FlightFor(s)'
  <2>1. Untouched(s)
    BY <1>1, <1>3, <1>4 DEF Untouched, Sent, Replied, Run, Queued
  <2> QED
    BY <2>1, UntouchedKeeps DEF ServiceInv
<1>5. FlightFor(r)'
  <2>1. Nowhere(r)'
    BY <1>1, <1>2, <1>3 DEF Nowhere, Sent, Run, Queued
  <2> QED
    BY <2>1 DEF FlightFor, OnePlace, Nowhere
<1>6. FlightOK'
  BY <1>1, <1>3, <1>4, <1>5 DEF FlightOK, ServiceInv
<1>7. AsksOK'
  BY <1>3 DEF ServiceInv, AsksOK
<1> QED
  BY <1>1, <1>2, <1>6, <1>7

-----------------------------------------------------------------------------
(***************************************************************************)
(* The calls of the cache.                                                 *)
(***************************************************************************)
Ops == {SHUT_DOWN, SET_KEY_VALUE, GET_VALUE_BY_KEY, DELETE_BY_KEY}

CallOf(op, k, v) == [op |-> op, key |-> k, val |-> v]
NoCall == CallOf("idle", NULL, NULL)
ServedCall(c) == [op |-> "deleted", key |-> c.key, val |-> c.val]

\* The call of w becomes a, and the deletes S of other workers are served.
CallMoves(w, a, S) ==
  calls' = [v \in Workers |-> IF v = w THEN a
                              ELSE IF v \in S THEN ServedCall(calls[v]) ELSE calls[v]]

WaitFor(S, w, K) ==
  \A v \in S : v \in Workers /\ v # w /\ calls[v].op = "delete" /\ calls[v].key \in K

\* A call that a request for op can be in.
Fits(a, op) ==
  \/ a = NoCall
  \/ /\ a = CallOf(a.op, a.key, a.val)
     /\ \/ a.op = "get" /\ op = GET_VALUE_BY_KEY /\ a.val \in Vals
        \/ a.op = "store" /\ op = SET_KEY_VALUE /\ a.val \in Vals
        \/ a.op \in {"delete", "deleted"} /\ op = DELETE_BY_KEY

LEMMA Executed ==
  ASSUME ServiceInv, NEW w \in Workers, NEW r, NEW op \in Ops, Executes(w, r, op),
         cachebuffer' \in [Workers -> Vals \cup {<<>>}]
  PROVE  /\ Handled(w, r, op) /\ worker' = [v \in Workers |-> worker'[v]]
         /\ worker'[w] = [pc |-> worker'[w].pc, from |-> worker'[w].from, op |-> worker'[w].op]
         /\ calls'[w] # NoCall =>
              /\ worker'[w] = [pc |-> "cache", from |-> r, op |-> op]
              /\ to_client' = to_client
         /\ calls'[w] = NoCall =>
              /\ worker'[w].pc # "cache"
              /\ to_client' = [to_client EXCEPT ![r] =
                                 ReplyOf(op, ret'[w] # NULL, cachebuffer'[w])]
<1>1. worker = [v \in Workers |-> worker[v]]
  BY DEF ServiceInv, CallsOK
<1>2. CASE calls'[w] # Cache!Idle
  <2>1. /\ worker' = [worker EXCEPT ![w] = [pc |-> "cache", from |-> r, op |-> op]]
        /\ to_client' = to_client
    BY <1>2 DEF Executes
  <2> QED
    BY <1>1, <1>2, <2>1 DEF Handled, NoCall, CallOf, Cache!Idle
<1>3. CASE calls'[w] = Cache!Idle
  <2> PICK x : x = ReplyOf(op, ret'[w] # NULL, cachebuffer'[w])
    OBVIOUS
  <2> PICK b : b = IF op = SHUT_DOWN THEN [pc |-> "usleep", from |-> r, op |-> op] ELSE NoRequest
    OBVIOUS
  <2>1. worker' = [worker EXCEPT ![w] = b] /\ to_client' = [to_client EXCEPT ![r] = x]
    BY <1>3 DEF Executes
  <2>2. b.pc # "cache" /\ b = [pc |-> b.pc, from |-> b.from, op |-> b.op]
    BY DEF NoRequest
  <2>3. x \in Replies
    <3>1. PICK d \in Vals \cup {<<>>}, f \in BOOLEAN : x = Reply(op, f, d)
      BY DEF ReplyOf
    <3> PICK a : a = [op |-> op, key |-> <<>>, data |-> d]
      OBVIOUS
    <3>2. a \in Asks /\ a.op = op /\ a.data = d
      BY DEF Asks, Ops
    <3> QED
      BY <3>1, <3>2 DEF Replies
  <2>4. worker'[w] = b /\ \A v \in Workers : v # w => worker'[v] = worker[v]
    BY <1>1, <2>1
  <2>5. Handled(w, r, op)
    BY <2>1, <2>2, <2>3, <2>4 DEF Handled
  <2>6. worker' = [v \in Workers |-> worker'[v]]
    BY <1>1, <2>1
  <2> QED
    BY <1>3, <2>1, <2>2, <2>4, <2>5, <2>6 DEF NoCall, CallOf, Cache!Idle
<1> QED
  BY <1>2, <1>3

LEMMA CallsAfter ==
  ASSUME ServiceInv, NEW w \in Workers, NEW r, NEW op \in Ops, Executes(w, r, op),
         NEW a, NEW S, NEW K, CallMoves(w, a, S), WaitFor(S, w, K), Fits(a, op),
         a # NoCall => r \in CacheClients,
         map' \in [Keys -> Vals \cup {NULL}], ret' = [v \in Workers |-> ret'[v]],
         cachebuffer' \in [Workers -> Vals \cup {<<>>}]
  PROVE  CallsOK'
<1>1. /\ Handled(w, r, op) /\ worker' = [v \in Workers |-> worker'[v]]
      /\ worker'[w] = [pc |-> worker'[w].pc, from |-> worker'[w].from, op |-> worker'[w].op]
      /\ calls'[w] # NoCall => worker'[w] = [pc |-> "cache", from |-> r, op |-> op]
      /\ calls'[w] = NoCall => worker'[w].pc # "cache"
  BY Executed
<1>2. calls' = [v \in Workers |-> calls'[v]] /\ calls'[w] = a
  BY DEF CallMoves
<1>3. CallOK(a, worker'[w])
  <2>1. CASE a = NoCall
    BY <1>1, <1>2, <2>1 DEF CallOK, NoCall, CallOf, Cache!Idle
  <2>2. CASE a # NoCall
    <3>1. worker'[w] = [pc |-> "cache", from |-> r, op |-> op]
      BY <1>1, <1>2, <2>2
    <3>2. worker'[w].pc = "cache" /\ worker'[w].from = r /\ worker'[w].op = op
      BY <3>1
    <3>3. /\ a = [op |-> a.op, key |-> a.key, val |-> a.val]
          /\ a.op \in {"get", "store", "delete", "deleted"}
          /\ a.op \in {"get", "store"} => a.val \in Vals
          /\ a.op = "get" => op = GET_VALUE_BY_KEY
          /\ a.op = "store" => op = SET_KEY_VALUE
          /\ a.op \in {"delete", "deleted"} => op = DELETE_BY_KEY
      BY <2>2 DEF Fits, CallOf
    <3> QED
      BY <1>1, <2>2, <3>2, <3>3 DEF CallOK
  <2> QED
    BY <2>1, <2>2
<1>4. ASSUME NEW v \in Workers, v # w PROVE CallOK(calls'[v], worker'[v])
  <2>1. worker'[v] = worker[v] /\ CallOK(calls[v], worker[v])
    BY <1>1, <1>4 DEF Handled, ServiceInv, CallsOK
  <2>2. CASE v \in S
    <3>1. calls[v].op = "delete" /\ calls'[v] = ServedCall(calls[v])
      BY <1>4, <2>2 DEF WaitFor, CallMoves
    <3> QED
      BY <2>1, <3>1 DEF CallOK, ServedCall
  <2>3. CASE v \notin S
    BY <1>4, <2>1, <2>3 DEF CallMoves
  <2> QED
    BY <2>2, <2>3
<1> QED
  BY <1>1, <1>2, <1>3, <1>4 DEF CallsOK

\* What an operation of the cache does for w: to the map, to the calls, to ret.
LEMMA CacheGet ==
  ASSUME ServiceInv, NEW w \in Workers, NEW k \in Keys, Cache!Get(w, k)
  PROVE  /\ map' = map
         /\ map[k] = NULL => CallMoves(w, NoCall, {}) /\ ret' = [ret EXCEPT ![w] = NULL]
         /\ map[k] # NULL => /\ CallMoves(w, CallOf("get", k, map[k]), {})
                             /\ ret' = ret /\ map[k] \in Vals
<1>1. calls[w] = NoCall /\ calls = [v \in Workers |-> calls[v]] /\ map \in [Keys -> Vals \cup {NULL}]
  BY DEF ServiceInv, CallsOK, Cache!Get, NoCall, CallOf, Cache!Idle
<1>2. CASE map[k] = NULL
  BY <1>1, <1>2 DEF Cache!Get, CallMoves
<1>3. CASE map[k] # NULL
  <2>1. calls' = [calls EXCEPT ![w] = CallOf("get", k, map[k])] /\ ret' = ret /\ map' = map
    BY <1>3 DEF Cache!Get, Cache!Call, CallOf
  <2> QED
    BY <1>1, <1>3, <2>1 DEF CallMoves
<1> QED
  BY <1>2, <1>3 DEF Cache!Get

LEMMA CacheGetReturn ==
  ASSUME ServiceInv, NEW w \in Workers, Cache!GetReturn(w)
  PROVE  /\ map' = map /\ calls[w].op = "get" /\ calls[w].val \in Vals
         /\ CallMoves(w, NoCall, {}) /\ ret' = [ret EXCEPT ![w] = calls[w].val]
BY DEF ServiceInv, CallsOK, CallOK, Cache!GetReturn, NoCall, CallOf, Cache!Idle, CallMoves

LEMMA CacheServes ==
  ASSUME ServiceInv, NEW w \in Workers, NEW a, NEW S, NEW c, \A v \in S : v # w,
         c = [calls EXCEPT ![w] = a], calls' = Cache!Serve(c, S)
  PROVE  CallMoves(w, a, S)
<1>1. c[w] = a /\ \A v \in Workers : v # w => c[v] = calls[v]
  BY DEF ServiceInv, CallsOK
<1>2. ASSUME NEW v \in Workers
      PROVE  (IF v \in S THEN [c[v] EXCEPT !.op = "deleted"] ELSE c[v])
               = IF v = w THEN a ELSE IF v \in S THEN ServedCall(calls[v]) ELSE calls[v]
  <2>1. calls[v] = [op |-> calls[v].op, key |-> calls[v].key, val |-> calls[v].val]
    BY DEF ServiceInv, CallsOK, CallOK
  <2>2. [calls[v] EXCEPT !.op = "deleted"] = ServedCall(calls[v])
    BY <2>1 DEF ServedCall
  <2> QED
    BY <1>1, <2>2
<1> QED
  BY <1>2 DEF Cache!Serve, CallMoves

LEMMA CacheStore ==
  ASSUME ServiceInv, NEW w \in Workers, NEW k, NEW v \in Vals, Cache!Store(w, k, v)
  PROVE  /\ calls[w] = NoCall /\ ret' = ret
         /\ \E K \in SUBSET Keys, S \in SUBSET Workers, a \in {NoCall, CallOf("store", k, v)} :
              /\ map' = [x \in Keys |-> IF x \in K THEN NULL ELSE map[x]]
              /\ WaitFor(S, w, K) /\ CallMoves(w, a, S)
<1>1. calls[w] = NoCall
  BY DEF Cache!Store, NoCall, CallOf, Cache!Idle
<1>2. PICK K \in SUBSET Keys, S \in SUBSET Cache!Waiting(Keys) :
        /\ S \subseteq Cache!Waiting(K)
        /\ map' = [x \in Keys |-> IF x \in K THEN NULL ELSE map[x]]
        /\ \/ calls' = Cache!Serve([calls EXCEPT ![w] = Cache!Call("store", k, v)], S)
           \/ calls' = Cache!Serve(calls, S)
  BY DEF Cache!Store
<1>3. WaitFor(S, w, K) /\ S \in SUBSET Workers /\ \A u \in S : u # w
  BY <1>1, <1>2 DEF Cache!Waiting, WaitFor, NoCall, CallOf
<1>4. calls = [calls EXCEPT ![w] = NoCall]
  BY <1>1 DEF ServiceInv, CallsOK
<1>5. Cache!Call("store", k, v) = CallOf("store", k, v)
  BY DEF Cache!Call, CallOf
<1>6. CallMoves(w, CallOf("store", k, v), S) \/ CallMoves(w, NoCall, S)
  BY <1>2, <1>3, <1>4, <1>5, CacheServes
<1>7. ret' = ret
  BY DEF Cache!Store
<1> QED
  BY <1>1, <1>2, <1>3, <1>6, <1>7

LEMMA CacheStoreTakesEffect ==
  ASSUME ServiceInv, NEW w \in Workers, Cache!StoreTakesEffect(w)
  PROVE  /\ calls[w].op = "store" /\ calls[w].val \in Vals /\ ret' = ret
         /\ map' = [map EXCEPT ![calls[w].key] = calls[w].val]
         /\ \E S \in SUBSET Workers :
              WaitFor(S, w, {calls[w].key}) /\ CallMoves(w, NoCall, S)
<1>1. calls[w].op = "store" /\ calls[w].val \in Vals
  BY DEF Cache!StoreTakesEffect, ServiceInv, CallsOK, CallOK
<1>2. PICK S \in SUBSET Cache!Waiting({calls[w].key}) :
        calls' = Cache!Serve([calls EXCEPT ![w] = Cache!Idle], S)
  BY DEF Cache!StoreTakesEffect
<1>3. WaitFor(S, w, {calls[w].key}) /\ S \in SUBSET Workers /\ \A u \in S : u # w
  BY <1>1, <1>2 DEF Cache!Waiting, WaitFor
<1>4. Cache!Idle = NoCall
  BY DEF Cache!Idle, NoCall, CallOf
<1>5. CallMoves(w, NoCall, S)
  BY <1>2, <1>3, <1>4, CacheServes
<1> QED
  BY <1>1, <1>3, <1>5 DEF Cache!StoreTakesEffect

LEMMA CacheDelete ==
  ASSUME ServiceInv, NEW w \in Workers, NEW k, Cache!Delete(w, k)
  PROVE  /\ map' = map /\ map[k] # NULL /\ ret' = ret
         /\ CallMoves(w, CallOf("delete", k, NULL), {})
BY DEF ServiceInv, CallsOK, Cache!Delete, Cache!Call, CallOf, CallMoves

LEMMA CacheDeleteTakesEffect ==
  ASSUME ServiceInv, NEW w \in Workers, Cache!DeleteTakesEffect(w)
  PROVE  /\ calls[w].op = "delete" /\ ret' = ret
         /\ map' = [map EXCEPT ![calls[w].key] = NULL]
         /\ \E S \in SUBSET Workers :
              /\ WaitFor(S, w, {calls[w].key})
              /\ CallMoves(w, ServedCall(calls[w]), S)
<1>1. PICK S \in SUBSET Cache!Waiting({calls[w].key}) : calls' = Cache!Serve(calls, S \cup {w})
  BY DEF Cache!DeleteTakesEffect
<1> PICK T : T = S \ {w}
  OBVIOUS
<1>2. WaitFor(T, w, {calls[w].key}) /\ T \in SUBSET Workers
  BY <1>1 DEF Cache!Waiting, WaitFor
<1>3. ASSUME NEW v \in Workers
      PROVE  (IF v \in S \cup {w} THEN [calls[v] EXCEPT !.op = "deleted"] ELSE calls[v])
               = IF v = w THEN ServedCall(calls[w])
                 ELSE IF v \in T THEN ServedCall(calls[v]) ELSE calls[v]
  <2>1. calls[v] = [op |-> calls[v].op, key |-> calls[v].key, val |-> calls[v].val]
    BY DEF ServiceInv, CallsOK, CallOK
  <2>2. [calls[v] EXCEPT !.op = "deleted"] = ServedCall(calls[v])
    BY <2>1 DEF ServedCall
  <2> QED
    BY <2>2
<1>4. CallMoves(w, ServedCall(calls[w]), T)
  BY <1>1, <1>3 DEF Cache!Serve, CallMoves
<1> QED
  BY <1>2, <1>4 DEF Cache!DeleteTakesEffect

LEMMA CacheDeleteReturn ==
  ASSUME ServiceInv, NEW w \in Workers, Cache!DeleteReturn(w)
  PROVE  map' = map /\ calls[w].op = "deleted" /\ ret' = ret /\ CallMoves(w, NoCall, {})
BY DEF ServiceInv, CallsOK, Cache!DeleteReturn, NoCall, CallOf, Cache!Idle, CallMoves

LEMMA CacheUnchanged ==
  ASSUME ServiceInv, NEW w \in Workers, calls[w] = NoCall, UNCHANGED cache
  PROVE  map' = map /\ ret' = ret /\ CallMoves(w, NoCall, {})
BY DEF ServiceInv, CallsOK, CallMoves, cache

-----------------------------------------------------------------------------
(***************************************************************************)
(* What a worker does keeps the invariant.                                 *)
(***************************************************************************)
LEMMA Received ==
  ASSUME ServiceInv, NEW w \in Workers, NEW op \in Ops, Receives(w, op),
         NEW r, r = Head(queue[w]).from, Executes(w, r, op),
         cachebuffer' \in [Workers -> Vals \cup {<<>>}], UNCHANGED <<to_server, asked, got>>
  PROVE  /\ FlightOK' /\ AsksOK' /\ r \in Requesters /\ asked[r] # NULL
         /\ asked[r].op = op /\ AskOK(r, asked[r])
         /\ Head(queue[w]).req = Message(asked[r])
         /\ calls[w] = NoCall /\ worker[w].pc # "cache"
         /\ ~Replied(r) /\ \A v \in Workers : ~Run(r, v)
<1>1. /\ worker[w].pc # "cache" /\ queue[w] # <<>> /\ Head(queue[w]).req.op = op
      /\ queue' = [queue EXCEPT ![w] = Tail(queue[w])]
  BY DEF Receives, At
<1>2. Handled(w, r, op)
  BY Executed
<1>3. /\ FlightOK' /\ r \in Requesters /\ asked[r] # NULL
      /\ Head(queue[w]).req = Message(asked[r])
      /\ ~Replied(r) /\ \A v \in Workers : ~Run(r, v)
  BY <1>1, <1>2, FlightReceive
<1>4. Message(asked[r]).op = asked[r].op
  BY DEF Message, Request
<1>5. AskOK(r, asked[r]) /\ AsksOK'
  BY <1>3 DEF ServiceInv, AsksOK
<1>6. calls[w] = NoCall
  BY <1>1 DEF ServiceInv, CallsOK, CallOK, NoCall, CallOf, Cache!Idle
<1> QED
  BY <1>1, <1>3, <1>4, <1>5, <1>6

\* The key and the data that a worker reads are those that were asked for.
LEMMA AskIsRead ==
  ASSUME KeysAreStrings, NEW r, NEW a, AskOK(r, a), r # STOPPER
  PROVE  /\ RequestKey(Message(a)) = a.key /\ a.key \in Keys
         /\ RequestData(Message(a)) = a.data
         /\ a.op = SET_KEY_VALUE => a.data \in Vals
<1> PICK Char : /\ NUL \notin Char /\ Keys \subseteq Seq(Char) \ {<<>>}
                /\ Vals \subseteq Seq(Char \cup {NUL})
  BY DEF KeysAreStrings
<1>1. a.key \in Keys /\ a.data \in Vals \cup {<<>>}
  BY DEF AskOK, Asks
<1>2. a.key \in Seq(Char) /\ a.key # <<>> /\ a.data \in Seq(Char \cup {NUL})
  BY <1>1, EmptySeq
<1>3. /\ RequestKey(Request(a.op, a.key, a.data)) = a.key
      /\ RequestData(Request(a.op, a.key, a.data)) = a.data
  BY <1>2, RequestIsRead
<1> QED
  BY <1>1, <1>3 DEF Message, AskOK

LEMMA CacheClient ==
  ASSUME NEW r \in Requesters, NEW a, AskOK(r, a)
  PROVE  /\ a.op = SHUT_DOWN <=> r = STOPPER
         /\ r # STOPPER <=> r \in CacheClients
BY Names, ZmqClientsAssumption DEF AskOK, CacheClients

LEMMA KeepsGet ==
  ASSUME KeysAreStrings, ServiceInv, NEW w \in Workers, worker_get(w), UNCHANGED clientvars
  PROVE  ServiceInv'
<1> PICK r : r = Head(queue[w]).from
  OBVIOUS
<1>1. /\ Receives(w, GET_VALUE_BY_KEY) /\ Executes(w, r, GET_VALUE_BY_KEY)
      /\ Cache!Get(w, RequestKey(Head(queue[w]).req))
      /\ UNCHANGED <<cachebuffer, to_server, asked, got>>
  BY DEF worker_get, clientvars
<1>2. GET_VALUE_BY_KEY \in Ops /\ cachebuffer' \in [Workers -> Vals \cup {<<>>}]
  BY <1>1 DEF Ops, ServiceInv, CallsOK
<1>3. /\ FlightOK' /\ AsksOK' /\ r \in Requesters /\ AskOK(r, asked[r])
      /\ asked[r].op = GET_VALUE_BY_KEY /\ Head(queue[w]).req = Message(asked[r])
  BY <1>1, <1>2, Received
<1>4. r # STOPPER /\ r \in CacheClients
  BY <1>3, CacheClient, Names
<1> PICK k : k = asked[r].key
  OBVIOUS
<1>5. k \in Keys /\ Cache!Get(w, k)
  BY <1>1, <1>3, <1>4, AskIsRead
<1>6. map' = map /\ ret' = [v \in Workers |-> ret'[v]]
  BY <1>5, CacheGet DEF ServiceInv, CallsOK
<1>7. PICK a : CallMoves(w, a, {}) /\ Fits(a, GET_VALUE_BY_KEY)
  <2>1. CASE map[k] = NULL
    BY <1>5, <2>1, CacheGet DEF Fits
  <2>2. CASE map[k] # NULL
    <3>1. Fits(CallOf("get", k, map[k]), GET_VALUE_BY_KEY)
      BY <1>5, <2>2, CacheGet DEF Fits, CallOf
    <3> QED
      BY <1>5, <2>2, <3>1, CacheGet
  <2> QED
    BY <2>1, <2>2
<1>8. WaitFor({}, w, {})
  BY DEF WaitFor
<1>9. map' \in [Keys -> Vals \cup {NULL}]
  BY <1>6 DEF ServiceInv, CallsOK
<1>10. CallsOK'
  BY <1>1, <1>2, <1>4, <1>6, <1>7, <1>8, <1>9, CallsAfter
<1> QED
  BY <1>3, <1>10 DEF ServiceInv

LEMMA KeepsSet ==
  ASSUME KeysAreStrings, ServiceInv, NEW w \in Workers, worker_set(w), UNCHANGED clientvars
  PROVE  ServiceInv'
<1> PICK r : r = Head(queue[w]).from
  OBVIOUS
<1>1. /\ Receives(w, SET_KEY_VALUE) /\ Executes(w, r, SET_KEY_VALUE)
      /\ Cache!Store(w, RequestKey(Head(queue[w]).req), RequestData(Head(queue[w]).req))
      /\ UNCHANGED <<cachebuffer, to_server, asked, got>>
  BY DEF worker_set, clientvars
<1>2. SET_KEY_VALUE \in Ops /\ cachebuffer' \in [Workers -> Vals \cup {<<>>}]
  BY <1>1 DEF Ops, ServiceInv, CallsOK
<1>3. /\ FlightOK' /\ AsksOK' /\ r \in Requesters /\ AskOK(r, asked[r])
      /\ asked[r].op = SET_KEY_VALUE /\ Head(queue[w]).req = Message(asked[r])
  BY <1>1, <1>2, Received
<1>4. r # STOPPER /\ r \in CacheClients
  BY <1>3, CacheClient, Names
<1> PICK k : k = asked[r].key
  OBVIOUS
<1> PICK d : d = asked[r].data
  OBVIOUS
<1>5. k \in Keys /\ d \in Vals /\ Cache!Store(w, k, d)
  BY <1>1, <1>3, <1>4, AskIsRead
<1>6. ret' = ret
  BY <1>5, CacheStore
<1>7. PICK K \in SUBSET Keys, S \in SUBSET Workers, a \in {NoCall, CallOf("store", k, d)} :
        /\ map' = [x \in Keys |-> IF x \in K THEN NULL ELSE map[x]]
        /\ WaitFor(S, w, K) /\ CallMoves(w, a, S)
  BY <1>5, CacheStore
<1>8. Fits(a, SET_KEY_VALUE)
  BY <1>5 DEF Fits, CallOf
<1>9. map' \in [Keys -> Vals \cup {NULL}] /\ ret' = [v \in Workers |-> ret'[v]]
  BY <1>6, <1>7 DEF ServiceInv, CallsOK
<1>10. CallsOK'
  BY <1>1, <1>2, <1>4, <1>7, <1>8, <1>9, CallsAfter
<1> QED
  BY <1>3, <1>10 DEF ServiceInv

LEMMA KeepsDelete ==
  ASSUME KeysAreStrings, ServiceInv, NEW w \in Workers, worker_delete(w), UNCHANGED clientvars
  PROVE  ServiceInv'
<1> PICK r : r = Head(queue[w]).from
  OBVIOUS
<1> PICK k : k = RequestKey(Head(queue[w]).req)
  OBVIOUS
<1>1. /\ Receives(w, DELETE_BY_KEY) /\ Executes(w, r, DELETE_BY_KEY)
      /\ Cache!Delete(w, k) \/ (map[k] = NULL /\ UNCHANGED cache)
      /\ UNCHANGED <<cachebuffer, to_server, asked, got>>
  BY DEF worker_delete, clientvars
<1>2. DELETE_BY_KEY \in Ops /\ cachebuffer' \in [Workers -> Vals \cup {<<>>}]
  BY <1>1 DEF Ops, ServiceInv, CallsOK
<1>3. /\ FlightOK' /\ AsksOK' /\ r \in Requesters /\ AskOK(r, asked[r])
      /\ asked[r].op = DELETE_BY_KEY /\ calls[w] = NoCall
  BY <1>1, <1>2, Received
<1>4. r \in CacheClients
  BY <1>3, CacheClient, Names
<1>5. map' = map /\ ret' = ret
      /\ \E a \in {NoCall, CallOf("delete", k, NULL)} : CallMoves(w, a, {})
  BY <1>1, <1>3, CacheDelete, CacheUnchanged
<1>6. PICK a \in {NoCall, CallOf("delete", k, NULL)} : CallMoves(w, a, {})
  BY <1>5
<1>7. Fits(a, DELETE_BY_KEY)
  BY DEF Fits, CallOf
<1>8. map' \in [Keys -> Vals \cup {NULL}] /\ ret' = [v \in Workers |-> ret'[v]]
  BY <1>5 DEF ServiceInv, CallsOK
<1>9. WaitFor({}, w, {})
  BY DEF WaitFor
<1>10. CallsOK'
  BY <1>1, <1>2, <1>4, <1>6, <1>7, <1>8, <1>9, CallsAfter
<1> QED
  BY <1>3, <1>10 DEF ServiceInv

LEMMA KeepsShutDown ==
  ASSUME ServiceInv, NEW w \in Workers, worker_shut_down(w), UNCHANGED clientvars
  PROVE  ServiceInv'
<1> PICK r : r = Head(queue[w]).from
  OBVIOUS
<1>1. /\ Receives(w, SHUT_DOWN) /\ Executes(w, r, SHUT_DOWN)
      /\ UNCHANGED <<cache, cachebuffer, to_server, asked, got>>
  BY DEF worker_shut_down, clientvars
<1>2. SHUT_DOWN \in Ops /\ cachebuffer' \in [Workers -> Vals \cup {<<>>}]
  BY <1>1 DEF Ops, ServiceInv, CallsOK
<1>3. FlightOK' /\ AsksOK' /\ calls[w] = NoCall
  BY <1>1, <1>2, Received
<1>4. map' = map /\ ret' = ret /\ CallMoves(w, NoCall, {})
  BY <1>1, <1>3, CacheUnchanged
<1>5. map' \in [Keys -> Vals \cup {NULL}] /\ ret' = [v \in Workers |-> ret'[v]]
  BY <1>4 DEF ServiceInv, CallsOK
<1>6. WaitFor({}, w, {}) /\ Fits(NoCall, SHUT_DOWN)
  BY DEF WaitFor, Fits
<1>7. CallsOK'
  BY <1>1, <1>2, <1>4, <1>5, <1>6, CallsAfter
<1> QED
  BY <1>3, <1>7 DEF ServiceInv

\* The call that worker_cache goes on with, and what becomes of it.
CacheGoesOn(w, a, S, K) ==
  \/ /\ Cache!GetReturn(w)
     /\ calls[w].op = "get" /\ calls[w].val \in Vals /\ a = NoCall /\ S = {} /\ K = {}
     /\ map' = map /\ ret' = [ret EXCEPT ![w] = calls[w].val]
     /\ cachebuffer' = [cachebuffer EXCEPT ![w] = calls[w].val]
  \/ /\ calls[w].op = "store" /\ calls[w].val \in Vals /\ a = NoCall /\ K = {calls[w].key}
     /\ map' = [map EXCEPT ![calls[w].key] = calls[w].val]
     /\ ret' = ret /\ cachebuffer' = cachebuffer
  \/ /\ calls[w].op = "delete" /\ a = ServedCall(calls[w]) /\ K = {calls[w].key}
     /\ map' = [map EXCEPT ![calls[w].key] = NULL]
     /\ ret' = ret /\ cachebuffer' = cachebuffer
  \/ /\ calls[w].op = "deleted" /\ a = NoCall /\ S = {} /\ K = {}
     /\ map' = map /\ ret' = ret /\ cachebuffer' = cachebuffer

LEMMA Continued ==
  ASSUME ServiceInv, NEW w \in Workers, worker_cache(w), UNCHANGED clientvars,
         NEW r, r = worker[w].from, NEW op, op = worker[w].op
  PROVE  /\ r \in CacheClients /\ r \in Requesters /\ op \in Ops
         /\ Executes(w, r, op) /\ Run(r, w)
         /\ map' \in [Keys -> Vals \cup {NULL}] /\ ret' = [v \in Workers |-> ret'[v]]
         /\ cachebuffer' \in [Workers -> Vals \cup {<<>>}]
         /\ \E a, S, K : /\ CacheGoesOn(w, a, S, K) /\ Fits(a, op)
                         /\ WaitFor(S, w, K) /\ CallMoves(w, a, S)
<1>1. Executes(w, r, op) /\ worker[w].pc = "cache"
  BY DEF worker_cache, At
<1>2. CallOK(calls[w], worker[w])
  BY DEF ServiceInv, CallsOK
<1>3. r \in CacheClients /\ r \in Requesters /\ Run(r, w) /\ op \in Ops
  BY <1>1, <1>2, ZmqClientsAssumption DEF CallOK, Run, Ops, CacheClients
<1>4. /\ map \in [Keys -> Vals \cup {NULL}] /\ ret = [v \in Workers |-> ret[v]]
      /\ cachebuffer \in [Workers -> Vals \cup {<<>>}]
  BY DEF ServiceInv, CallsOK
<1>5. WaitFor({}, w, {}) /\ Fits(NoCall, op)
  BY DEF WaitFor, Fits
<1>6. CASE Cache!GetReturn(w) /\ cachebuffer' = [cachebuffer EXCEPT ![w] = ret'[w]]
  <2>1. /\ map' = map /\ calls[w].op = "get" /\ calls[w].val \in Vals
        /\ CallMoves(w, NoCall, {}) /\ ret' = [ret EXCEPT ![w] = calls[w].val]
    BY <1>6, CacheGetReturn
  <2>2. ret'[w] = calls[w].val
    BY <1>4, <2>1
  <2>3. CacheGoesOn(w, NoCall, {}, {})
    BY <1>6, <2>1, <2>2 DEF CacheGoesOn
  <2>4. ret' = [v \in Workers |-> ret'[v]] /\ cachebuffer' \in [Workers -> Vals \cup {<<>>}]
    BY <1>4, <1>6, <2>1, <2>2
  <2> QED
    BY <1>1, <1>3, <1>4, <1>5, <2>1, <2>3, <2>4
<1>7. CASE Cache!StoreTakesEffect(w) /\ UNCHANGED cachebuffer
  <2>1. /\ calls[w].op = "store" /\ calls[w].val \in Vals /\ ret' = ret
        /\ map' = [map EXCEPT ![calls[w].key] = calls[w].val]
    BY <1>7, CacheStoreTakesEffect
  <2>2. PICK S : WaitFor(S, w, {calls[w].key}) /\ CallMoves(w, NoCall, S)
    BY <1>7, CacheStoreTakesEffect
  <2>3. CacheGoesOn(w, NoCall, S, {calls[w].key})
    BY <1>7, <2>1 DEF CacheGoesOn
  <2>4. map' \in [Keys -> Vals \cup {NULL}]
    BY <1>4, <2>1
  <2> QED
    BY <1>1, <1>3, <1>4, <1>5, <1>7, <2>1, <2>2, <2>3, <2>4
<1>8. CASE Cache!DeleteTakesEffect(w) /\ UNCHANGED cachebuffer
  <2>1. /\ calls[w].op = "delete" /\ ret' = ret
        /\ map' = [map EXCEPT ![calls[w].key] = NULL]
    BY <1>8, CacheDeleteTakesEffect
  <2>2. PICK S : WaitFor(S, w, {calls[w].key}) /\ CallMoves(w, ServedCall(calls[w]), S)
    BY <1>8, CacheDeleteTakesEffect
  <2>3. CacheGoesOn(w, ServedCall(calls[w]), S, {calls[w].key})
    BY <1>8, <2>1 DEF CacheGoesOn
  <2>4. Fits(ServedCall(calls[w]), op)
    BY <1>1, <1>2, <2>1 DEF CallOK, Fits, ServedCall, CallOf
  <2>5. map' \in [Keys -> Vals \cup {NULL}]
    BY <1>4, <2>1
  <2> QED
    BY <1>1, <1>3, <1>4, <1>8, <2>1, <2>2, <2>3, <2>4, <2>5
<1>9. CASE Cache!DeleteReturn(w) /\ UNCHANGED cachebuffer
  <2>1. map' = map /\ calls[w].op = "deleted" /\ ret' = ret /\ CallMoves(w, NoCall, {})
    BY <1>9, CacheDeleteReturn
  <2>2. CacheGoesOn(w, NoCall, {}, {})
    BY <1>9, <2>1 DEF CacheGoesOn
  <2> QED
    BY <1>1, <1>3, <1>4, <1>5, <1>9, <2>1, <2>2
<1> QED
  BY <1>6, <1>7, <1>8, <1>9 DEF worker_cache

LEMMA KeepsCache ==
  ASSUME ServiceInv, NEW w \in Workers, worker_cache(w), UNCHANGED clientvars
  PROVE  ServiceInv'
<1> PICK r : r = worker[w].from
  OBVIOUS
<1> PICK op : op = worker[w].op
  OBVIOUS
<1>1. /\ r \in CacheClients /\ r \in Requesters /\ op \in Ops
      /\ Executes(w, r, op) /\ Run(r, w)
      /\ map' \in [Keys -> Vals \cup {NULL}] /\ ret' = [v \in Workers |-> ret'[v]]
      /\ cachebuffer' \in [Workers -> Vals \cup {<<>>}]
  BY Continued
<1>2. PICK a, S, K : Fits(a, op) /\ WaitFor(S, w, K) /\ CallMoves(w, a, S)
  BY Continued
<1>3. Handled(w, r, op)
  BY <1>1, Executed
<1>4. UNCHANGED <<queue, to_server, asked, got>>
  BY DEF worker_cache, clientvars
<1>5. FlightOK'
  BY <1>1, <1>3, <1>4, FlightContinue
<1>6. AsksOK'
  BY <1>4 DEF ServiceInv, AsksOK
<1>7. CallsOK'
  BY <1>1, <1>2, CallsAfter
<1> QED
  BY <1>5, <1>6, <1>7 DEF ServiceInv

\* A step that leaves the requests and the calls of the cache where they are.
LEMMA KeepsStill ==
  ASSUME ServiceInv, UNCHANGED <<cache, cachebuffer, net, asked, got>>,
         worker' = [v \in Workers |-> worker'[v]],
         \A v \in Workers :
           \/ worker'[v] = worker[v]
           \/ /\ worker[v].pc # "cache" /\ worker'[v].pc # "cache"
              /\ worker'[v] = [pc |-> worker'[v].pc, from |-> worker'[v].from,
                               op |-> worker'[v].op]
  PROVE  ServiceInv'
<1>1. UNCHANGED <<map, calls, ret, cachebuffer, to_server, queue, to_client, asked, got>>
  BY DEF cache, net
<1>2. ASSUME NEW r \in Requesters PROVE FlightFor(r)'
  <2>1. \A v \in Workers : (Run(r, v)' <=> Run(r, v)) /\ (Run(r, v) => worker'[v].op = worker[v].op)
    BY DEF Run
  <2>2. Untouched(r)
    BY <1>1, <2>1 DEF Untouched, Sent, Replied, Queued
  <2> QED
    BY <2>2, UntouchedKeeps DEF ServiceInv
<1>3. FlightOK'
  BY <1>1, <1>2 DEF ServiceInv, FlightOK
<1>4. AsksOK'
  BY <1>1 DEF ServiceInv, AsksOK
<1>5. ASSUME NEW v \in Workers PROVE CallOK(calls[v], worker'[v])
  <2>1. CallOK(calls[v], worker[v])
    BY DEF ServiceInv, CallsOK
  <2>2. CASE worker'[v] = worker[v]
    BY <2>1, <2>2
  <2>3. CASE /\ worker[v].pc # "cache" /\ worker'[v].pc # "cache"
             /\ worker'[v] = [pc |-> worker'[v].pc, from |-> worker'[v].from,
                              op |-> worker'[v].op]
    BY <2>1, <2>3 DEF CallOK
  <2> QED
    BY <2>2, <2>3
<1>6. CallsOK'
  BY <1>1, <1>5 DEF ServiceInv, CallsOK
<1> QED
  BY <1>3, <1>4, <1>6 DEF ServiceInv

-----------------------------------------------------------------------------
(***************************************************************************)
(* Every step, seen from the service: a requester asks or gets its reply,  *)
(* the proxy passes a request on, a worker works, or nothing happens.      *)
(***************************************************************************)
AskStep == \E r \in Requesters, a \in Asks : AskOK(r, a) /\ Send(r, a.op, a.key, a.data)

RecvStep == \E r \in Requesters : Recv(r)

ProxyStep == \E r \in Requesters : proxy_request(r) /\ UNCHANGED clientvars

WorkStep ==
  \E w \in Workers :
    /\ worker_get(w) \/ worker_set(w) \/ worker_delete(w) \/ worker_cache(w)
       \/ worker_shut_down(w)
    /\ UNCHANGED clientvars

StillStep ==
  /\ UNCHANGED <<cache, cachebuffer, net, asked, got>>
  /\ \/ worker' = worker
     \/ \E w \in Workers : /\ worker[w].pc = "usleep"
                           /\ worker' = [worker EXCEPT ![w].pc = "aborted"]

LEMMA ServiceSteps ==
  ASSUME [Next]_allvars
  PROVE  AskStep \/ RecvStep \/ ProxyStep \/ WorkStep \/ StillStep
<1>1. ASSUME ServerNext, UNCHANGED clientvars PROVE ProxyStep \/ WorkStep \/ StillStep
  <2>1. CASE server_main \/ server_main_wakes
    BY <1>1, <2>1 DEF server_main, server_main_wakes, StillStep, clientvars
  <2>2. CASE \E r \in Requesters : proxy_request(r)
    BY <1>1, <2>2 DEF ProxyStep
  <2>3. ASSUME NEW w \in Workers, worker_start(w) PROVE StillStep
    BY <1>1, <2>3 DEF worker_start, StillStep, clientvars
  <2>4. ASSUME NEW w \in Workers, worker_abort(w) PROVE StillStep
    BY <1>1, <2>4 DEF worker_abort, At, StillStep, clientvars
  <2>5. ASSUME NEW w \in Workers,
               worker_get(w) \/ worker_set(w) \/ worker_delete(w) \/ worker_cache(w)
                 \/ worker_shut_down(w)
        PROVE  WorkStep
    BY <1>1, <2>5 DEF WorkStep
  <2> QED
    BY <1>1, <2>1, <2>2, <2>3, <2>4, <2>5 DEF ServerNext, WorkerStep
<1>2. CASE client_main \/ stop_create_fails \/ UNCHANGED allvars
  BY <1>2 DEF client_main, stop_create_fails, StillStep, allvars, clientvars, servervars
<1>3. ASSUME NEW r \in Requesters, NEW op, NEW k, NEW d, Send(r, op, k, d),
             AskOK(r, [op |-> op, key |-> k, data |-> d])
      PROVE  AskStep
  <2> PICK a : a = [op |-> op, key |-> k, data |-> d]
    OBVIOUS
  <2>1. a \in Asks /\ AskOK(r, a) /\ Send(r, a.op, a.key, a.data)
    BY <1>3 DEF AskOK
  <2> QED
    BY <2>1 DEF AskStep
<1>4. ASSUME NEW c \in Clients, ClientStep(c) PROVE AskStep \/ RecvStep \/ StillStep
  <2>1. c \in Requesters /\ c # STOPPER /\ key \in Keys /\ value \in Vals
    BY ZmqClientsAssumption
  <2>2. CASE client_thread(c)
    BY <2>2 DEF client_thread, StillStep, servervars
  <2>3. CASE client_recv(c)
    BY <2>1, <2>3 DEF client_recv, RecvStep
  <2>4. CASE Send(c, SET_KEY_VALUE, key, value)
    BY <1>3, <2>1, <2>4 DEF AskOK, Asks
  <2>5. CASE Send(c, GET_VALUE_BY_KEY, key, <<>>)
    BY <1>3, <2>1, <2>5, Names DEF AskOK, Asks
  <2> QED
    BY <1>4, <2>2, <2>3, <2>4, <2>5 DEF ClientStep, client_send
<1>5. ASSUME NEW r \in Others, other_send(r) \/ other_recv(r) PROVE AskStep \/ RecvStep
  <2>1. r \in Requesters /\ r # STOPPER
    BY ZmqClientsAssumption
  <2>2. CASE other_recv(r)
    BY <2>1, <2>2 DEF other_recv, RecvStep
  <2>3. ASSUME NEW k \in Keys, Send(r, DELETE_BY_KEY, k, <<>>) PROVE AskStep
    BY <1>3, <2>1, <2>3, Names DEF AskOK, Asks
  <2> QED
    BY <1>5, <2>2, <2>3 DEF other_send
<1>6. CASE stop_send
  <2>1. STOPPER \in Requesters /\ Send(STOPPER, SHUT_DOWN, <<>>, <<>>)
    BY <1>6, ZmqClientsAssumption DEF stop_send
  <2> QED
    BY <1>3, <2>1 DEF AskOK, Asks
<1>7. CASE stop_recv
  BY <1>7, ZmqClientsAssumption DEF stop_recv, RecvStep
<1> QED
  BY <1>1, <1>2, <1>4, <1>5, <1>6, <1>7 DEF Next

LEMMA KeepsService == ASSUME KeysAreStrings, ServiceInv, [Next]_allvars PROVE ServiceInv'
<1>1. CASE AskStep
  <2> PICK r \in Requesters, a \in Asks : AskOK(r, a) /\ Send(r, a.op, a.key, a.data)
    BY <1>1 DEF AskStep
  <2>1. FlightOK' /\ AsksOK'
    BY FlightSend
  <2>2. CallsOK'
    BY DEF Send, cache, ServiceInv, CallsOK
  <2> QED
    BY <2>1, <2>2 DEF ServiceInv
<1>2. CASE RecvStep
  <2> PICK r \in Requesters : Recv(r)
    BY <1>2 DEF RecvStep
  <2>1. FlightOK' /\ AsksOK'
    BY FlightRecv
  <2>2. CallsOK'
    BY DEF Recv, cache, ServiceInv, CallsOK
  <2> QED
    BY <2>1, <2>2 DEF ServiceInv
<1>3. CASE ProxyStep
  <2> PICK r \in Requesters : proxy_request(r) /\ UNCHANGED clientvars
    BY <1>3 DEF ProxyStep
  <2>1. FlightOK'
    BY FlightProxy DEF clientvars
  <2>2. AsksOK' /\ CallsOK'
    BY DEF proxy_request, cache, clientvars, ServiceInv, AsksOK, CallsOK
  <2> QED
    BY <2>1, <2>2 DEF ServiceInv
<1>4. CASE WorkStep
  BY <1>4, KeepsGet, KeepsSet, KeepsDelete, KeepsCache, KeepsShutDown DEF WorkStep
<1>5. CASE StillStep
  <2>1. worker = [v \in Workers |-> worker[v]]
        /\ \A v \in Workers : worker[v] = [pc |-> worker[v].pc, from |-> worker[v].from,
                                           op |-> worker[v].op]
    BY DEF ServiceInv, CallsOK, CallOK
  <2>2. CASE worker' = worker
    BY <1>5, <2>1, <2>2, KeepsStill DEF StillStep
  <2>3. ASSUME NEW w \in Workers, worker[w].pc = "usleep",
               worker' = [worker EXCEPT ![w].pc = "aborted"]
        PROVE  ServiceInv'
    <3>1. worker' = [v \in Workers |-> worker'[v]]
          /\ \A v \in Workers : v # w => worker'[v] = worker[v]
      BY <2>1, <2>3
    <3>2. worker'[w] = [pc |-> "aborted", from |-> worker[w].from, op |-> worker[w].op]
      BY <2>1, <2>3
    <3>3. worker'[w].pc # "cache" /\ worker[w].pc # "cache"
          /\ worker'[w] = [pc |-> worker'[w].pc, from |-> worker'[w].from, op |-> worker'[w].op]
      BY <2>3, <3>2
    <3> QED
      BY <1>5, <3>1, <3>3, KeepsStill DEF StillStep
  <2> QED
    BY <1>5, <2>2, <2>3 DEF StillStep
<1> QED
  BY <1>1, <1>2, <1>3, <1>4, <1>5, ServiceSteps

-----------------------------------------------------------------------------
(***************************************************************************)
(* The service as its clients see it: their calls H, what the cache has    *)
(* returned to them R, their requests Q, those begun B, the answers G.     *)
(***************************************************************************)
Views(H, R, Q, B, G) ==
  /\ H = [r \in CacheClients |->
            IF RunningFor(r) = {} THEN Cache!Idle ELSE calls[CHOOSE w \in RunningFor(r) : TRUE]]
  /\ R = [r \in CacheClients |-> CacheAnswer(r)]
  /\ Q = [r \in CacheClients |-> asked[r]]
  /\ B = {r \in CacheClients : RunningFor(r) # {} \/ to_client[r] # NULL}
  /\ G = [r \in CacheClients |-> got[r]]

Answered(r) ==
  IF Replied(r) /\ asked[r].op = GET_VALUE_BY_KEY THEN ReplyData(to_client[r]) ELSE got[r]

\* The call of r is that of the worker that runs it.
LEMMA Seen ==
  ASSUME ServiceInv, NEW H, NEW R, NEW Q, NEW B, NEW G, Views(H, R, Q, B, G)
  PROVE  /\ H = [r \in CacheClients |-> H[r]]
         /\ \A r \in CacheClients, w \in Workers : Run(r, w) => H[r] = calls[w]
         /\ \A r \in CacheClients : (\A w \in Workers : ~Run(r, w)) => H[r] = NoCall
         /\ R = [r \in CacheClients |-> Answered(r)]
         /\ B \subseteq CacheClients
         /\ \A r \in CacheClients : r \in B <=> Replied(r) \/ \E w \in Workers : Run(r, w)
<1>1. \A r \in CacheClients : RunningFor(r) = {w \in Workers : Run(r, w)}
  BY DEF RunningFor, Run
<1>2. \A r \in CacheClients : r \in Requesters
  BY ZmqClientsAssumption DEF CacheClients
<1>3. ASSUME NEW r \in CacheClients, NEW w \in Workers, Run(r, w) PROVE H[r] = calls[w]
  <2>1. RunningFor(r) = {w}
    BY <1>1, <1>2, <1>3 DEF ServiceInv, FlightOK, FlightFor, OnePlace
  <2> QED
    BY <2>1 DEF Views
<1>4. ASSUME NEW r \in CacheClients, \A w \in Workers : ~Run(r, w) PROVE H[r] = NoCall
  BY <1>1, <1>4 DEF Views, NoCall, CallOf, Cache!Idle
<1>5. \A r \in CacheClients : CacheAnswer(r) = Answered(r)
  BY DEF CacheAnswer, Answered, Replied
<1>6. \A r \in CacheClients : r \in B <=> Replied(r) \/ \E w \in Workers : Run(r, w)
  BY <1>1 DEF Views, Replied
<1> QED
  BY <1>3, <1>4, <1>5, <1>6 DEF Views

LEMMA SeenNext ==
  ASSUME ServiceInv', NEW H, NEW R, NEW Q, NEW B, NEW G, Views(H, R, Q, B, G)'
  PROVE  /\ H = [r \in CacheClients |-> H[r]]
         /\ \A r \in CacheClients, w \in Workers : Run(r, w)' => H[r] = calls'[w]
         /\ \A r \in CacheClients : (\A w \in Workers : ~Run(r, w)') => H[r] = NoCall
         /\ R = [r \in CacheClients |-> Answered(r)']
         /\ B \subseteq CacheClients
         /\ \A r \in CacheClients : r \in B <=> Replied(r)' \/ \E w \in Workers : Run(r, w)'
<1>1. \A r \in CacheClients : RunningFor(r)' = {w \in Workers : Run(r, w)'}
  BY DEF RunningFor, Run
<1>2. \A r \in CacheClients : r \in Requesters
  BY ZmqClientsAssumption DEF CacheClients
<1>3. ASSUME NEW r \in CacheClients, NEW w \in Workers, Run(r, w)' PROVE H[r] = calls'[w]
  <2>1. RunningFor(r)' = {w}
    BY <1>1, <1>2, <1>3 DEF ServiceInv, FlightOK, FlightFor, OnePlace
  <2> QED
    BY <2>1 DEF Views
<1>4. ASSUME NEW r \in CacheClients, \A w \in Workers : ~Run(r, w)' PROVE H[r] = NoCall
  BY <1>1, <1>4 DEF Views, NoCall, CallOf, Cache!Idle
<1>5. \A r \in CacheClients : CacheAnswer(r)' = Answered(r)'
  BY DEF CacheAnswer, Answered, Replied
<1>6. \A r \in CacheClients : r \in B <=> Replied(r)' \/ \E w \in Workers : Run(r, w)'
  BY <1>1 DEF Views, Replied
<1> QED
  BY <1>3, <1>4, <1>5, <1>6 DEF Views

(***************************************************************************)
(* What the service sees of a worker that has worked for r: the call of r  *)
(* becomes a, the waiting deletes of the clients T are served.             *)
(***************************************************************************)
Serves(H, H2, r, a, T, K) ==
  /\ \A s \in T : s \in CacheClients /\ s # r /\ H[s].op = "delete" /\ H[s].key \in K
  /\ H2 = [s \in CacheClients |-> IF s = r THEN a
                                  ELSE IF s \in T THEN ServedCall(H[s]) ELSE H[s]]

\* What the cache has returned to r when its call has become a.
Returned(w, R, R2, r, op, a) ==
  IF a = NoCall /\ op = GET_VALUE_BY_KEY
  THEN R2 = [R EXCEPT ![r] =
               IF ret'[w] # NULL THEN SubSeq(cachebuffer'[w], 1, Len(cachebuffer'[w])) ELSE NULL]
  ELSE R2 = R

SeenAs(w, r, op, a, K, H, R, H2, R2) ==
  /\ \E T \in SUBSET CacheClients : Serves(H, H2, r, a, T, K)
  /\ Returned(w, R, R2, r, op, a)

LEMMA SeenWork ==
  ASSUME ServiceInv, ServiceInv', NEW w \in Workers, NEW r \in CacheClients, NEW op \in Ops,
         Executes(w, r, op), UNCHANGED <<asked, got>>, asked[r].op = op, ~Replied(r),
         \A v \in Workers : Run(r, v) => v = w,
         \A s \in Requesters : Run(s, w) => s = r,
         NEW a, NEW S, NEW K, CallMoves(w, a, S), WaitFor(S, w, K),
         NEW H, NEW R, NEW Q, NEW B, NEW G, Views(H, R, Q, B, G),
         NEW H2, NEW R2, NEW Q2, NEW B2, NEW G2, Views(H2, R2, Q2, B2, G2)'
  PROVE  /\ SeenAs(w, r, op, a, K, H, R, H2, R2)
         /\ B2 = B \cup {r} /\ Q2 = Q /\ G2 = G
<1>1. r \in Requesters /\ \A s \in CacheClients : s \in Requesters
  BY ZmqClientsAssumption DEF CacheClients
<1>2. cachebuffer' \in [Workers -> Vals \cup {<<>>}]
  BY DEF ServiceInv, CallsOK
<1>3. /\ Handled(w, r, op)
      /\ calls'[w] # NoCall =>
           worker'[w] = [pc |-> "cache", from |-> r, op |-> op] /\ to_client' = to_client
      /\ calls'[w] = NoCall =>
           /\ worker'[w].pc # "cache"
           /\ to_client' = [to_client EXCEPT ![r] = ReplyOf(op, ret'[w] # NULL, cachebuffer'[w])]
  <2>1. Handled(w, r, op)
    BY <1>2, Executed
  <2> Cache!Idle = NoCall
    BY DEF NoCall, CallOf, Cache!Idle
  <2>2. calls'[w] # NoCall => worker'[w] = [pc |-> "cache", from |-> r, op |-> op]
    <3>1. worker = [v \in Workers |-> worker[v]]
      BY DEF ServiceInv, CallsOK
    <3> QED
      BY <3>1 DEF Executes
  <2>3. calls'[w] # NoCall => to_client' = to_client
    BY <1>2, Executed
  <2>4. calls'[w] = NoCall => worker'[w].pc # "cache"
    BY <1>2, Executed
  <2>5. calls'[w] = NoCall =>
          to_client' = [to_client EXCEPT ![r] = ReplyOf(op, ret'[w] # NULL, cachebuffer'[w])]
    BY DEF Executes
  <2> QED
    BY <2>1, <2>2, <2>3, <2>4, <2>5
<1>4. /\ \A s \in Requesters, v \in Workers :
           Run(s, v)' <=> IF v = w THEN s = r /\ worker'[w].pc = "cache" ELSE Run(s, v)
      /\ \A s \in Requesters :
           Replied(s)' <=> Replied(s) \/ (s = r /\ worker'[w].pc # "cache")
      /\ \A s \in Requesters : s # r => to_client'[s] = to_client[s]
  BY <1>1, <1>3, HandledPlaces
<1>5. /\ H2 = [s \in CacheClients |-> H2[s]]
      /\ \A s \in CacheClients, v \in Workers : Run(s, v)' => H2[s] = calls'[v]
      /\ \A s \in CacheClients : (\A v \in Workers : ~Run(s, v)') => H2[s] = NoCall
      /\ R2 = [s \in CacheClients |-> Answered(s)']
      /\ B2 \subseteq CacheClients
      /\ \A s \in CacheClients : s \in B2 <=> Replied(s)' \/ \E v \in Workers : Run(s, v)'
  BY SeenNext
<1>6. /\ H = [s \in CacheClients |-> H[s]]
      /\ \A s \in CacheClients, v \in Workers : Run(s, v) => H[s] = calls[v]
      /\ \A s \in CacheClients : (\A v \in Workers : ~Run(s, v)) => H[s] = NoCall
      /\ R = [s \in CacheClients |-> Answered(s)]
      /\ B \subseteq CacheClients
      /\ \A s \in CacheClients : s \in B <=> Replied(s) \/ \E v \in Workers : Run(s, v)
  BY Seen
<1>7. calls'[w] = a
  BY DEF CallMoves
<1> PICK T : T = {s \in CacheClients : s # r /\ \E v \in S : Run(s, v)}
  OBVIOUS
<1>8. H2[r] = a
  <2>1. CASE a = NoCall
    BY <1>1, <1>3, <1>4, <1>5, <1>7, <2>1
  <2>2. CASE a # NoCall
    <3>1. worker'[w].pc = "cache"
      BY <1>3, <1>7, <2>2
    <3>2. Run(r, w)'
      BY <1>1, <1>4, <3>1
    <3> QED
      BY <1>5, <1>7, <3>2
  <2> QED
    BY <2>1, <2>2
<1>9. ASSUME NEW s \in CacheClients, s # r
      PROVE  H2[s] = IF s \in T THEN ServedCall(H[s]) ELSE H[s]
  <2>1. \A v \in Workers : (Run(s, v)' <=> Run(s, v)) /\ ~Run(s, w)
    BY <1>1, <1>4, <1>9
  <2>2. CASE \A v \in Workers : ~Run(s, v)
    <3>1. s \notin T
      BY <2>2 DEF WaitFor
    <3> QED
      BY <1>5, <1>6, <2>1, <2>2, <3>1
  <2>3. ASSUME NEW v \in Workers, Run(s, v)
        PROVE  H2[s] = IF s \in T THEN ServedCall(H[s]) ELSE H[s]
    <3>1. v # w /\ H[s] = calls[v] /\ H2[s] = calls'[v]
      BY <1>5, <1>6, <2>1, <2>3
    <3>2. s \in T <=> v \in S
      <4>1. \A u \in Workers : Run(s, u) => u = v
        BY <1>1, <2>3 DEF ServiceInv, FlightOK, FlightFor, OnePlace
      <4> QED
        BY <1>9, <2>3, <4>1 DEF WaitFor
    <3>3. calls'[v] = IF v \in S THEN ServedCall(calls[v]) ELSE calls[v]
      BY <3>1 DEF CallMoves
    <3> QED
      BY <3>1, <3>2, <3>3
  <2> QED
    BY <2>2, <2>3
<1>10. ASSUME NEW s \in T
       PROVE  s \in CacheClients /\ s # r /\ H[s].op = "delete" /\ H[s].key \in K
  <2> PICK v \in S : Run(s, v)
    BY <1>10
  <2>1. v \in Workers /\ calls[v].op = "delete" /\ calls[v].key \in K
    BY DEF WaitFor
  <2> QED
    BY <1>6, <1>10, <2>1
<1>11. Serves(H, H2, r, a, T, K) /\ T \in SUBSET CacheClients
  BY <1>5, <1>8, <1>9, <1>10 DEF Serves
<1>12. ASSUME NEW s \in CacheClients, s # r PROVE Answered(s)' = Answered(s)
  BY <1>1, <1>4, <1>12 DEF Answered
<1>13. Answered(r) = got[r]
  BY DEF Answered
<1>14. Answered(r)' = IF a = NoCall /\ op = GET_VALUE_BY_KEY
                      THEN IF ret'[w] # NULL
                           THEN SubSeq(cachebuffer'[w], 1, Len(cachebuffer'[w])) ELSE NULL
                      ELSE got[r]
  <2>1. CASE a = NoCall /\ op = GET_VALUE_BY_KEY
    <3>1. Replied(r)' /\ asked'[r].op = GET_VALUE_BY_KEY
      BY <1>1, <1>3, <1>4, <1>7, <2>1
    <3>2. to_client'[r] = Reply(op, ret'[w] # NULL, cachebuffer'[w])
      <4>1. to_client = [s \in Requesters |-> to_client[s]]
        BY DEF ServiceInv, FlightOK
      <4>2. to_client' = [to_client EXCEPT ![r] = ReplyOf(op, ret'[w] # NULL, cachebuffer'[w])]
        BY <1>3, <1>7, <2>1
      <4> QED
        BY <1>1, <2>1, <4>1, <4>2 DEF ReplyOf
    <3>3. ReplyData(to_client'[r]) =
            IF ret'[w] # NULL THEN SubSeq(cachebuffer'[w], 1, Len(cachebuffer'[w])) ELSE NULL
      <4> PICK m : m = to_client'[r]
        OBVIOUS
      <4> PICK d : d = cachebuffer'[w]
        OBVIOUS
      <4> PICK found \in BOOLEAN : found <=> ret'[w] # NULL
        OBVIOUS
      <4>1. m = Reply(op, found, d)
        BY <3>2
      <4>2. m.valret = found /\ m.nbytes = Len(d) /\ m.data = d
        BY <4>1 DEF Reply
      <4> QED
        BY <4>2 DEF ReplyData
    <3> QED
      BY <2>1, <3>1, <3>3 DEF Answered
  <2>2. CASE a = NoCall /\ op # GET_VALUE_BY_KEY
    BY <2>2 DEF Answered
  <2>3. CASE a # NoCall
    BY <1>1, <1>3, <1>4, <1>7, <2>3 DEF Answered
  <2> QED
    BY <2>1, <2>2, <2>3
<1>15. Returned(w, R, R2, r, op, a)
  <2> PICK x : x = Answered(r)'
    OBVIOUS
  <2>1. R2[r] = x /\ R[r] = got[r] /\ \A s \in CacheClients : s # r => R2[s] = R[s]
    BY <1>5, <1>6, <1>12, <1>13
  <2>2. R2 = [R EXCEPT ![r] = x]
    BY <1>5, <1>6, <2>1
  <2>3. x = got[r] => R2 = R
    BY <1>5, <1>6, <2>1
  <2> QED
    BY <1>14, <2>2, <2>3 DEF Returned
<1>16. B2 = B \cup {r}
  <2>1. r \in B2
    <3>1. CASE worker'[w].pc = "cache"
      BY <1>1, <1>4, <1>5, <3>1
    <3>2. CASE worker'[w].pc # "cache"
      BY <1>1, <1>4, <1>5, <3>2
    <3> QED
      BY <3>1, <3>2
  <2>2. \A s \in CacheClients : s # r => (s \in B2 <=> s \in B)
    BY <1>1, <1>4, <1>5, <1>6
  <2> QED
    BY <1>5, <1>6, <2>1, <2>2
<1>17. Q2 = Q /\ G2 = G
  BY DEF Views
<1> QED
  BY <1>11, <1>15, <1>16, <1>17 DEF SeenAs

-----------------------------------------------------------------------------
(***************************************************************************)
(* The actions of the service, in terms of these views.                    *)
(***************************************************************************)
LEMMA SeenCalls ==
  ASSUME ServiceInv, NEW H, NEW R, NEW Q, NEW B, NEW G, Views(H, R, Q, B, G)
  PROVE  \A s \in CacheClients : H[s] = CallOf(H[s].op, H[s].key, H[s].val)
<1>1. \A w \in Workers : calls[w] = CallOf(calls[w].op, calls[w].key, calls[w].val)
  BY DEF ServiceInv, CallsOK, CallOK, CallOf
<1>2. NoCall = CallOf(NoCall.op, NoCall.key, NoCall.val)
  BY DEF NoCall, CallOf
<1> SUFFICES ASSUME NEW s \in CacheClients PROVE H[s] = CallOf(H[s].op, H[s].key, H[s].val)
  OBVIOUS
<1>3. CASE \E w \in Workers : Run(s, w)
  <2>1. \E w \in Workers : H[s] = calls[w]
    BY <1>3, Seen
  <2> QED
    BY <1>1, <2>1
<1>4. CASE \A w \in Workers : ~Run(s, w)
  <2>1. H[s] = NoCall
    BY <1>4, Seen
  <2> QED
    BY <1>2, <2>1
<1> QED
  BY <1>3, <1>4

LEMMA ToServe ==
  ASSUME ServiceInv, NEW H, NEW R, NEW Q, NEW B, NEW G, Views(H, R, Q, B, G),
         NEW r \in CacheClients, NEW a, NEW T \in SUBSET CacheClients, NEW K, NEW H2,
         Serves(H, H2, r, a, T, K)
  PROVE  /\ T \in SUBSET Service!Waiting(K)
         /\ H2 = Service!Serve([H EXCEPT ![r] = a], T)
<1>1. H = [s \in CacheClients |-> H[s]]
  BY DEF Views
<1>2. T \in SUBSET Service!Waiting(K)
  BY DEF Serves, Service!Waiting, Views
<1>3. ASSUME NEW s \in CacheClients
      PROVE  (IF s \in T THEN [[H EXCEPT ![r] = a][s] EXCEPT !.op = "deleted"]
                         ELSE [H EXCEPT ![r] = a][s])
               = IF s = r THEN a ELSE IF s \in T THEN ServedCall(H[s]) ELSE H[s]
  <2>1. H[s] = CallOf(H[s].op, H[s].key, H[s].val)
    BY SeenCalls
  <2>2. [H[s] EXCEPT !.op = "deleted"] = ServedCall(H[s])
    BY <2>1 DEF CallOf, ServedCall
  <2>3. s \in T => s # r
    BY DEF Serves
  <2>4. [H EXCEPT ![r] = a][s] = IF s = r THEN a ELSE H[s]
    BY <1>1
  <2> QED
    BY <2>2, <2>3, <2>4
<1> QED
  BY <1>2, <1>3 DEF Serves, Service!Serve

\* No deletes are served.
LEMMA ServesNone ==
  ASSUME NEW H, H = [s \in CacheClients |-> H[s]], NEW r \in CacheClients, NEW a, NEW H2,
         NEW T, Serves(H, H2, r, a, T, {})
  PROVE  H2 = [H EXCEPT ![r] = a]
<1>1. T = {}
  BY DEF Serves
<1> QED
  BY <1>1 DEF Serves

LEMMA ToGet ==
  ASSUME NEW r \in CacheClients, NEW k \in Keys,
         NEW H, NEW R, NEW Q, NEW B, NEW G, Views(H, R, Q, B, G),
         NEW H2, NEW R2, NEW Q2, NEW B2, NEW G2, Views(H2, R2, Q2, B2, G2)',
         H[r] = NoCall, map' = map,
         map[k] = NULL => R2 = [R EXCEPT ![r] = NULL] /\ H2 = H,
         map[k] # NULL => R2 = R /\ H2 = [H EXCEPT ![r] = CallOf("get", k, map[k])]
  PROVE  Service!Get(r, k)
BY DEF Views, NoCall, CallOf, Cache!Idle, Service!Get, Service!Idle, Service!Call

LEMMA ToGetReturn ==
  ASSUME NEW r \in CacheClients, NEW v,
         NEW H, NEW R, NEW Q, NEW B, NEW G, Views(H, R, Q, B, G),
         NEW H2, NEW R2, NEW Q2, NEW B2, NEW G2, Views(H2, R2, Q2, B2, G2)',
         H[r].op = "get", H[r].val = v, map' = map,
         R2 = [R EXCEPT ![r] = v], H2 = [H EXCEPT ![r] = NoCall]
  PROVE  Service!GetReturn(r)
BY DEF Views, NoCall, CallOf, Cache!Idle, Service!GetReturn, Service!Idle

Forgets(K) == map' = [x \in Keys |-> IF x \in K THEN NULL ELSE map[x]]

LEMMA ToStore ==
  ASSUME ServiceInv, NEW r \in CacheClients, NEW k, NEW v,
         NEW H, NEW R, NEW Q, NEW B, NEW G, Views(H, R, Q, B, G),
         NEW H2, NEW R2, NEW Q2, NEW B2, NEW G2, Views(H2, R2, Q2, B2, G2)',
         H[r] = NoCall, R2 = R,
         NEW K \in SUBSET Keys, Forgets(K),
         NEW a \in {NoCall, CallOf("store", k, v)},
         NEW T \in SUBSET CacheClients, Serves(H, H2, r, a, T, K)
  PROVE  Service!Store(r, k, v)
<1>1. T \in SUBSET Service!Waiting(K) /\ H2 = Service!Serve([H EXCEPT ![r] = a], T)
  BY ToServe
<1>2. T \in SUBSET Service!Waiting(Keys)
  BY <1>1 DEF Service!Waiting
<1>3. [H EXCEPT ![r] = NoCall] = H
  BY DEF Views
<1>4. H[r] = Service!Idle
  BY DEF NoCall, CallOf, Service!Idle
<1>5. \/ H2 = Service!Serve([H EXCEPT ![r] = Service!Call("store", k, v)], T)
      \/ H2 = Service!Serve(H, T)
  BY <1>1, <1>3 DEF CallOf, Service!Call
<1>6. \E L \in SUBSET Keys, S \in SUBSET Service!Waiting(Keys) :
        /\ S \subseteq Service!Waiting(L)
        /\ map' = [x \in Keys |-> IF x \in L THEN NULL ELSE map[x]]
        /\ \/ H2 = Service!Serve([H EXCEPT ![r] = Service!Call("store", k, v)], S)
           \/ H2 = Service!Serve(H, S)
  BY <1>1, <1>2, <1>5 DEF Forgets
<1> QED
  BY <1>4, <1>6 DEF Views, Service!Store

LEMMA ToStoreTakesEffect ==
  ASSUME ServiceInv, NEW r \in CacheClients,
         NEW H, NEW R, NEW Q, NEW B, NEW G, Views(H, R, Q, B, G),
         NEW H2, NEW R2, NEW Q2, NEW B2, NEW G2, Views(H2, R2, Q2, B2, G2)',
         H[r].op = "store", R2 = R, map' = [map EXCEPT ![H[r].key] = H[r].val],
         NEW T \in SUBSET CacheClients, Serves(H, H2, r, NoCall, T, {H[r].key})
  PROVE  Service!StoreTakesEffect(r)
<1>1. /\ T \in SUBSET Service!Waiting({H[r].key})
      /\ H2 = Service!Serve([H EXCEPT ![r] = NoCall], T)
  BY ToServe
<1>2. NoCall = Service!Idle
  BY DEF NoCall, CallOf, Service!Idle
<1>3. \E S \in SUBSET Service!Waiting({H[r].key}) :
        H2 = Service!Serve([H EXCEPT ![r] = Service!Idle], S)
  BY <1>1, <1>2
<1> QED
  BY <1>3 DEF Views, Service!StoreTakesEffect

LEMMA ToDelete ==
  ASSUME NEW r \in CacheClients, NEW k \in Keys,
         NEW H, NEW R, NEW Q, NEW B, NEW G, Views(H, R, Q, B, G),
         NEW H2, NEW R2, NEW Q2, NEW B2, NEW G2, Views(H2, R2, Q2, B2, G2)',
         H[r] = NoCall, map' = map, map[k] # NULL, R2 = R,
         H2 = [H EXCEPT ![r] = CallOf("delete", k, NULL)]
  PROVE  Service!Delete(r, k)
BY DEF Views, NoCall, CallOf, Cache!Idle, Service!Delete, Service!Idle, Service!Call

LEMMA ToDeleteTakesEffect ==
  ASSUME ServiceInv, NEW r \in CacheClients,
         NEW H, NEW R, NEW Q, NEW B, NEW G, Views(H, R, Q, B, G),
         NEW H2, NEW R2, NEW Q2, NEW B2, NEW G2, Views(H2, R2, Q2, B2, G2)',
         H[r].op = "delete", R2 = R, map' = [map EXCEPT ![H[r].key] = NULL],
         NEW T \in SUBSET CacheClients, Serves(H, H2, r, ServedCall(H[r]), T, {H[r].key})
  PROVE  Service!DeleteTakesEffect(r)
<1>1. T \in SUBSET Service!Waiting({H[r].key})
  BY DEF Serves, Service!Waiting, Views
<1>2. ASSUME NEW s \in CacheClients
      PROVE  H2[s] = IF s \in T \cup {r} THEN [H[s] EXCEPT !.op = "deleted"] ELSE H[s]
  <2>1. H[s] = CallOf(H[s].op, H[s].key, H[s].val)
    BY SeenCalls
  <2>2. [H[s] EXCEPT !.op = "deleted"] = ServedCall(H[s])
    BY <2>1 DEF CallOf, ServedCall
  <2> QED
    BY <2>2 DEF Serves
<1>3. H2 = Service!Serve(H, T \cup {r})
  BY <1>2 DEF Serves, Service!Serve
<1>4. \E S \in SUBSET Service!Waiting({H[r].key}) : H2 = Service!Serve(H, S \cup {r})
  BY <1>1, <1>3
<1> QED
  BY <1>4 DEF Views, Service!DeleteTakesEffect

LEMMA ToDeleteReturn ==
  ASSUME NEW r \in CacheClients,
         NEW H, NEW R, NEW Q, NEW B, NEW G, Views(H, R, Q, B, G),
         NEW H2, NEW R2, NEW Q2, NEW B2, NEW G2, Views(H2, R2, Q2, B2, G2)',
         H[r].op = "deleted", map' = map, R2 = R, H2 = [H EXCEPT ![r] = NoCall]
  PROVE  Service!DeleteReturn(r)
BY DEF Views, NoCall, CallOf, Cache!Idle, Service!DeleteReturn, Service!Idle

LEMMA ToBegin ==
  ASSUME NEW r \in CacheClients,
         NEW H, NEW R, NEW Q, NEW B, NEW G, Views(H, R, Q, B, G),
         NEW H2, NEW R2, NEW Q2, NEW B2, NEW G2, Views(H2, R2, Q2, B2, G2)',
         asked[r] # NULL, r \notin B, B2 = B \cup {r}, Q2 = Q, G2 = G,
         \/ asked[r].op = "get" /\ Service!Get(r, asked[r].key)
         \/ asked[r].op = "set" /\ Service!Store(r, asked[r].key, asked[r].data)
         \/ asked[r].op = "delete" /\ Service!Delete(r, asked[r].key)
         \/ /\ asked[r].op = "delete" /\ map[asked[r].key] = NULL
            /\ map' = map /\ H2 = H /\ R2 = R
  PROVE  Service!ServiceNext
<1>1. Q[r] = asked[r]
  BY DEF Views
<1>2. map' = map /\ H2 = H /\ R2 = R => UNCHANGED Service!vars
  BY DEF Views, Service!vars
<1>3. /\ Q[r] # NULL /\ r \notin B
      /\ \/ Q[r].op = "get" /\ Service!Get(r, Q[r].key)
         \/ Q[r].op = "set" /\ Service!Store(r, Q[r].key, Q[r].data)
         \/ Q[r].op = "delete" /\ Service!Delete(r, Q[r].key)
         \/ Q[r].op = "delete" /\ map[Q[r].key] = NULL /\ UNCHANGED Service!vars
  BY <1>1, <1>2
<1>4. Service!Begin(r)
  BY <1>3 DEF Views, Service!Begin
<1> QED
  BY <1>4 DEF Service!ServiceNext

LEMMA ToContinue ==
  ASSUME NEW r \in CacheClients,
         NEW H, NEW R, NEW Q, NEW B, NEW G, Views(H, R, Q, B, G),
         NEW H2, NEW R2, NEW Q2, NEW B2, NEW G2, Views(H2, R2, Q2, B2, G2)',
         B2 = B, Q2 = Q, G2 = G,
         \/ Service!GetReturn(r) \/ Service!StoreTakesEffect(r)
         \/ Service!DeleteTakesEffect(r) \/ Service!DeleteReturn(r)
  PROVE  Service!ServiceNext
<1>1. Service!Continue(r)
  BY DEF Views, Service!Continue
<1> QED
  BY <1>1 DEF Service!ServiceNext

LEMMA ToSame ==
  ASSUME NEW H, NEW R, NEW Q, NEW B, NEW G, Views(H, R, Q, B, G),
         NEW H2, NEW R2, NEW Q2, NEW B2, NEW G2, Views(H2, R2, Q2, B2, G2)',
         map' = map, H2 = H, R2 = R, Q2 = Q, B2 = B, G2 = G
  PROVE  UNCHANGED Service!servicevars
BY DEF Views, Service!servicevars, Service!vars

-----------------------------------------------------------------------------
(***************************************************************************)
(* Every step is a step of the service, or changes nothing of it.          *)
(***************************************************************************)
LEMMA NoneRunBy ==
  ASSUME ServiceInv, NEW w \in Workers, worker[w].pc # "cache"
  PROVE  \A s \in Requesters : ~Run(s, w)
BY DEF Run

LEMMA ServesGet ==
  ASSUME KeysAreStrings, ServiceInv, ServiceInv', NEW w \in Workers, worker_get(w),
         UNCHANGED clientvars,
         NEW H, NEW R, NEW Q, NEW B, NEW G, Views(H, R, Q, B, G),
         NEW H2, NEW R2, NEW Q2, NEW B2, NEW G2, Views(H2, R2, Q2, B2, G2)'
  PROVE  Service!ServiceNext
<1> PICK r : r = Head(queue[w]).from
  OBVIOUS
<1> PICK op : op = GET_VALUE_BY_KEY
  OBVIOUS
<1>1. /\ Receives(w, op) /\ Executes(w, r, op)
      /\ Cache!Get(w, RequestKey(Head(queue[w]).req))
      /\ UNCHANGED <<cachebuffer, to_server, asked, got>>
  BY DEF worker_get, clientvars
<1>2. op \in Ops /\ cachebuffer' \in [Workers -> Vals \cup {<<>>}]
  BY <1>1 DEF Ops, ServiceInv, CallsOK
<1>3. /\ r \in Requesters /\ AskOK(r, asked[r]) /\ asked[r] # NULL
      /\ asked[r].op = op /\ Head(queue[w]).req = Message(asked[r])
      /\ worker[w].pc # "cache" /\ ~Replied(r) /\ \A v \in Workers : ~Run(r, v)
  BY <1>1, <1>2, Received
<1>4. r # STOPPER /\ r \in CacheClients
  BY <1>3, CacheClient, Names
<1> PICK k : k = asked[r].key
  OBVIOUS
<1>5. k \in Keys /\ Cache!Get(w, k)
  BY <1>1, <1>3, <1>4, AskIsRead
<1>6. /\ H = [s \in CacheClients |-> H[s]] /\ R = [s \in CacheClients |-> R[s]]
      /\ H[r] = NoCall /\ r \notin B
  BY <1>3, <1>4, Seen
<1>7. map' = map /\ ret = [v \in Workers |-> ret[v]]
  BY <1>5, CacheGet DEF ServiceInv, CallsOK
<1>8. WaitFor({}, w, {}) /\ asked[r].op = "get" /\ \A s \in Requesters : Run(s, w) => s = r
  BY <1>3, Names, NoneRunBy DEF WaitFor
<1>9. ASSUME NEW a, CallMoves(w, a, {})
      PROVE  SeenAs(w, r, op, a, {}, H, R, H2, R2) /\ B2 = B \cup {r} /\ Q2 = Q /\ G2 = G
  BY <1>1, <1>2, <1>3, <1>4, <1>8, <1>9, SeenWork
<1>10. CASE map[k] = NULL
  <2>1. CallMoves(w, NoCall, {}) /\ ret'[w] = NULL
    BY <1>5, <1>7, <1>10, CacheGet
  <2>2. SeenAs(w, r, op, NoCall, {}, H, R, H2, R2) /\ B2 = B \cup {r} /\ Q2 = Q /\ G2 = G
    BY <1>9, <2>1
  <2>3. H2 = [H EXCEPT ![r] = NoCall]
    BY <1>4, <1>6, <2>2, ServesNone DEF SeenAs
  <2>4. H2 = H
    BY <1>6, <2>3
  <2>5. R2 = [R EXCEPT ![r] = NULL]
    BY <2>1, <2>2 DEF SeenAs, Returned
  <2>6. Service!Get(r, k)
    BY <1>4, <1>5, <1>6, <1>7, <1>10, <2>4, <2>5, ToGet
  <2> QED
    BY <1>3, <1>4, <1>6, <1>8, <2>2, <2>6, ToBegin
<1>11. CASE map[k] # NULL
  <2> PICK a : a = CallOf("get", k, map[k])
    OBVIOUS
  <2>1. CallMoves(w, a, {}) /\ a # NoCall
    BY <1>5, <1>11, CacheGet DEF CallOf, NoCall
  <2>2. SeenAs(w, r, op, a, {}, H, R, H2, R2) /\ B2 = B \cup {r} /\ Q2 = Q /\ G2 = G
    BY <1>9, <2>1
  <2>3. H2 = [H EXCEPT ![r] = a]
    BY <1>4, <1>6, <2>2, ServesNone DEF SeenAs
  <2>4. R2 = R
    BY <2>1, <2>2 DEF SeenAs, Returned
  <2>5. Service!Get(r, k)
    BY <1>4, <1>5, <1>6, <1>7, <1>11, <2>3, <2>4, ToGet
  <2> QED
    BY <1>3, <1>4, <1>6, <1>8, <2>2, <2>5, ToBegin
<1> QED
  BY <1>10, <1>11

LEMMA ServesSet ==
  ASSUME KeysAreStrings, ServiceInv, ServiceInv', NEW w \in Workers, worker_set(w),
         UNCHANGED clientvars,
         NEW H, NEW R, NEW Q, NEW B, NEW G, Views(H, R, Q, B, G),
         NEW H2, NEW R2, NEW Q2, NEW B2, NEW G2, Views(H2, R2, Q2, B2, G2)'
  PROVE  Service!ServiceNext
<1> PICK r : r = Head(queue[w]).from
  OBVIOUS
<1> PICK op : op = SET_KEY_VALUE
  OBVIOUS
<1>1. /\ Receives(w, op) /\ Executes(w, r, op)
      /\ Cache!Store(w, RequestKey(Head(queue[w]).req), RequestData(Head(queue[w]).req))
      /\ UNCHANGED <<cachebuffer, to_server, asked, got>>
  BY DEF worker_set, clientvars
<1>2. op \in Ops /\ cachebuffer' \in [Workers -> Vals \cup {<<>>}]
  BY <1>1 DEF Ops, ServiceInv, CallsOK
<1>3. /\ r \in Requesters /\ AskOK(r, asked[r]) /\ asked[r] # NULL
      /\ asked[r].op = op /\ Head(queue[w]).req = Message(asked[r])
      /\ worker[w].pc # "cache" /\ ~Replied(r) /\ \A v \in Workers : ~Run(r, v)
  BY <1>1, <1>2, Received
<1>4. r # STOPPER /\ r \in CacheClients
  BY <1>3, CacheClient, Names
<1> PICK k : k = asked[r].key
  OBVIOUS
<1> PICK d : d = asked[r].data
  OBVIOUS
<1>5. k \in Keys /\ d \in Vals /\ Cache!Store(w, k, d)
  BY <1>1, <1>3, <1>4, AskIsRead
<1>6. H[r] = NoCall /\ r \notin B
  BY <1>3, <1>4, Seen
<1>7. asked[r].op = "set" /\ op # GET_VALUE_BY_KEY /\ \A s \in Requesters : Run(s, w) => s = r
  BY <1>3, Names, NoneRunBy
<1>8. PICK K \in SUBSET Keys, S \in SUBSET Workers, a \in {NoCall, CallOf("store", k, d)} :
        /\ map' = [x \in Keys |-> IF x \in K THEN NULL ELSE map[x]]
        /\ WaitFor(S, w, K) /\ CallMoves(w, a, S)
  BY <1>5, CacheStore
<1>9. SeenAs(w, r, op, a, K, H, R, H2, R2) /\ B2 = B \cup {r} /\ Q2 = Q /\ G2 = G
  BY <1>1, <1>2, <1>3, <1>4, <1>7, <1>8, SeenWork
<1>10. PICK T \in SUBSET CacheClients : Serves(H, H2, r, a, T, K)
  BY <1>9 DEF SeenAs
<1>11. R2 = R
  BY <1>7, <1>9 DEF SeenAs, Returned
<1>12. Forgets(K)
  BY <1>8 DEF Forgets
<1>13. Service!Store(r, k, d)
  BY <1>4, <1>6, <1>8, <1>10, <1>11, <1>12, ToStore
<1> QED
  BY <1>3, <1>4, <1>6, <1>7, <1>9, <1>13, ToBegin

LEMMA ServesDelete ==
  ASSUME KeysAreStrings, ServiceInv, ServiceInv', NEW w \in Workers, worker_delete(w),
         UNCHANGED clientvars,
         NEW H, NEW R, NEW Q, NEW B, NEW G, Views(H, R, Q, B, G),
         NEW H2, NEW R2, NEW Q2, NEW B2, NEW G2, Views(H2, R2, Q2, B2, G2)'
  PROVE  Service!ServiceNext
<1> PICK r : r = Head(queue[w]).from
  OBVIOUS
<1> PICK op : op = DELETE_BY_KEY
  OBVIOUS
<1> PICK k : k = RequestKey(Head(queue[w]).req)
  OBVIOUS
<1>1. /\ Receives(w, op) /\ Executes(w, r, op)
      /\ Cache!Delete(w, k) \/ (map[k] = NULL /\ UNCHANGED cache)
      /\ UNCHANGED <<cachebuffer, to_server, asked, got>>
  BY DEF worker_delete, clientvars
<1>2. op \in Ops /\ cachebuffer' \in [Workers -> Vals \cup {<<>>}]
  BY <1>1 DEF Ops, ServiceInv, CallsOK
<1>3. /\ r \in Requesters /\ AskOK(r, asked[r]) /\ asked[r] # NULL
      /\ asked[r].op = op /\ Head(queue[w]).req = Message(asked[r]) /\ calls[w] = NoCall
      /\ worker[w].pc # "cache" /\ ~Replied(r) /\ \A v \in Workers : ~Run(r, v)
  BY <1>1, <1>2, Received
<1>4. r # STOPPER /\ r \in CacheClients
  BY <1>3, CacheClient, Names
<1>5. k = asked[r].key /\ k \in Keys
  BY <1>3, <1>4, AskIsRead
<1>6. H = [s \in CacheClients |-> H[s]] /\ H[r] = NoCall /\ r \notin B
  BY <1>3, <1>4, Seen
<1>7. /\ asked[r].op = "delete" /\ op # GET_VALUE_BY_KEY /\ WaitFor({}, w, {})
      /\ \A s \in Requesters : Run(s, w) => s = r
  BY <1>3, Names, NoneRunBy DEF WaitFor
<1>8. ASSUME NEW a, CallMoves(w, a, {})
      PROVE  SeenAs(w, r, op, a, {}, H, R, H2, R2) /\ B2 = B \cup {r} /\ Q2 = Q /\ G2 = G
  BY <1>1, <1>2, <1>3, <1>4, <1>7, <1>8, SeenWork
<1>9. ASSUME NEW a, CallMoves(w, a, {}) PROVE H2 = [H EXCEPT ![r] = a] /\ R2 = R
  <2>1. SeenAs(w, r, op, a, {}, H, R, H2, R2)
    BY <1>8, <1>9
  <2>2. H2 = [H EXCEPT ![r] = a]
    BY <1>4, <1>6, <2>1, ServesNone DEF SeenAs
  <2> QED
    BY <1>7, <2>1, <2>2 DEF SeenAs, Returned
<1>10. CASE Cache!Delete(w, k)
  <2> PICK a : a = CallOf("delete", k, NULL)
    OBVIOUS
  <2>1. map' = map /\ map[k] # NULL /\ CallMoves(w, a, {})
    BY <1>10, CacheDelete
  <2>2. B2 = B \cup {r} /\ Q2 = Q /\ G2 = G /\ H2 = [H EXCEPT ![r] = a] /\ R2 = R
    BY <1>8, <1>9, <2>1
  <2>3. Service!Delete(r, k)
    BY <1>4, <1>5, <1>6, <2>1, <2>2, ToDelete
  <2> QED
    BY <1>3, <1>4, <1>5, <1>6, <1>7, <2>2, <2>3, ToBegin
<1>11. CASE map[k] = NULL /\ UNCHANGED cache
  <2>1. map' = map /\ CallMoves(w, NoCall, {})
    BY <1>3, <1>11, CacheUnchanged
  <2>2. B2 = B \cup {r} /\ Q2 = Q /\ G2 = G /\ H2 = [H EXCEPT ![r] = NoCall] /\ R2 = R
    BY <1>8, <1>9, <2>1
  <2>3. H2 = H
    BY <1>6, <2>2
  <2> QED
    BY <1>3, <1>4, <1>5, <1>6, <1>7, <1>11, <2>1, <2>2, <2>3, ToBegin
<1> QED
  BY <1>1, <1>10, <1>11

LEMMA ServesCache ==
  ASSUME KeysAreStrings, ServiceInv, ServiceInv', NEW w \in Workers, worker_cache(w),
         UNCHANGED clientvars,
         NEW H, NEW R, NEW Q, NEW B, NEW G, Views(H, R, Q, B, G),
         NEW H2, NEW R2, NEW Q2, NEW B2, NEW G2, Views(H2, R2, Q2, B2, G2)'
  PROVE  Service!ServiceNext
<1> PICK r : r = worker[w].from
  OBVIOUS
<1> PICK op : op = worker[w].op
  OBVIOUS
<1>1. /\ r \in CacheClients /\ r \in Requesters /\ op \in Ops
      /\ Executes(w, r, op) /\ Run(r, w)
  BY Continued
<1>2. PICK a, S, K : /\ CacheGoesOn(w, a, S, K) /\ Fits(a, op)
                     /\ WaitFor(S, w, K) /\ CallMoves(w, a, S)
  BY Continued
<1>3. UNCHANGED <<asked, got>>
  BY DEF clientvars
<1>4. /\ ~Replied(r) /\ asked[r].op = op
      /\ \A v \in Workers : Run(r, v) => v = w
      /\ \A s \in Requesters : Run(s, w) => s = r
  BY <1>1 DEF ServiceInv, FlightOK, FlightFor, OnePlace, Run
<1>5. SeenAs(w, r, op, a, K, H, R, H2, R2) /\ B2 = B \cup {r} /\ Q2 = Q /\ G2 = G
  BY <1>1, <1>2, <1>3, <1>4, SeenWork
<1>6. /\ H = [s \in CacheClients |-> H[s]] /\ R = [s \in CacheClients |-> R[s]]
      /\ H[r] = calls[w] /\ r \in B
  BY <1>1, Seen
<1>7. B2 = B
  BY <1>5, <1>6
<1>8. PICK T \in SUBSET CacheClients : Serves(H, H2, r, a, T, K)
  BY <1>5 DEF SeenAs
<1>9. CallOK(calls[w], worker[w]) /\ worker[w].pc = "cache"
  BY <1>1 DEF ServiceInv, CallsOK, Run
<1>10. K = {} => H2 = [H EXCEPT ![r] = a]
  BY <1>1, <1>6, <1>8, ServesNone
<1>11. op # GET_VALUE_BY_KEY => R2 = R
  BY <1>5 DEF SeenAs, Returned
<1>12. CASE /\ calls[w].op = "get" /\ calls[w].val \in Vals /\ a = NoCall /\ K = {}
            /\ map' = map /\ ret' = [ret EXCEPT ![w] = calls[w].val]
            /\ cachebuffer' = [cachebuffer EXCEPT ![w] = calls[w].val]
  <2>1. op = GET_VALUE_BY_KEY
    BY <1>9, <1>12 DEF CallOK
  <2> PICK d \in Vals : d = calls[w].val
    BY <1>12
  <2>2. ret'[w] = d /\ cachebuffer'[w] = d
    BY <1>12 DEF ServiceInv, CallsOK
  <2>3. d # NULL
    BY ZmqClientsAssumption
  <2>4. SubSeq(d, 1, Len(d)) = d
    BY SubSeqFull DEF KeysAreStrings
  <2>5. R2 = [R EXCEPT ![r] = d]
    BY <1>5, <1>12, <2>1, <2>2, <2>3, <2>4 DEF SeenAs, Returned
  <2>6. H2 = [H EXCEPT ![r] = NoCall]
    BY <1>10, <1>12
  <2>7. Service!GetReturn(r)
    BY <1>1, <1>6, <1>12, <2>5, <2>6, ToGetReturn
  <2> QED
    BY <1>1, <1>5, <1>7, <2>7, ToContinue
<1>13. CASE /\ calls[w].op = "store" /\ a = NoCall /\ K = {calls[w].key}
            /\ map' = [map EXCEPT ![calls[w].key] = calls[w].val]
  <2>1. R2 = R
    BY <1>9, <1>11, <1>13, Names DEF CallOK
  <2>2. Service!StoreTakesEffect(r)
    BY <1>1, <1>6, <1>8, <1>13, <2>1, ToStoreTakesEffect
  <2> QED
    BY <1>1, <1>5, <1>7, <2>2, ToContinue
<1>14. CASE /\ calls[w].op = "delete" /\ a = ServedCall(calls[w]) /\ K = {calls[w].key}
            /\ map' = [map EXCEPT ![calls[w].key] = NULL]
  <2>1. R2 = R
    BY <1>9, <1>11, <1>14, Names DEF CallOK
  <2>2. Service!DeleteTakesEffect(r)
    BY <1>1, <1>6, <1>8, <1>14, <2>1, ToDeleteTakesEffect
  <2> QED
    BY <1>1, <1>5, <1>7, <2>2, ToContinue
<1>15. CASE calls[w].op = "deleted" /\ a = NoCall /\ K = {} /\ map' = map
  <2>1. R2 = R
    BY <1>9, <1>11, <1>15, Names DEF CallOK
  <2>2. H2 = [H EXCEPT ![r] = NoCall]
    BY <1>10, <1>15
  <2>3. Service!DeleteReturn(r)
    BY <1>1, <1>6, <1>15, <2>1, <2>2, ToDeleteReturn
  <2> QED
    BY <1>1, <1>5, <1>7, <2>3, ToContinue
<1> QED
  BY <1>2, <1>12, <1>13, <1>14, <1>15 DEF CacheGoesOn

\* A step that no cache client sees.
LEMMA ServesNothing ==
  ASSUME ServiceInv, ServiceInv', UNCHANGED <<map, calls>>,
         \A s \in CacheClients :
           /\ asked'[s] = asked[s] /\ got'[s] = got[s] /\ Answered(s)' = Answered(s)
           /\ Replied(s)' <=> Replied(s)
           /\ \A v \in Workers : Run(s, v)' <=> Run(s, v),
         NEW H, NEW R, NEW Q, NEW B, NEW G, Views(H, R, Q, B, G),
         NEW H2, NEW R2, NEW Q2, NEW B2, NEW G2, Views(H2, R2, Q2, B2, G2)'
  PROVE  UNCHANGED Service!servicevars
<1>1. /\ H2 = [s \in CacheClients |-> H2[s]]
      /\ \A s \in CacheClients, v \in Workers : Run(s, v)' => H2[s] = calls'[v]
      /\ \A s \in CacheClients : (\A v \in Workers : ~Run(s, v)') => H2[s] = NoCall
      /\ R2 = [s \in CacheClients |-> Answered(s)']
      /\ B2 \subseteq CacheClients
      /\ \A s \in CacheClients : s \in B2 <=> Replied(s)' \/ \E v \in Workers : Run(s, v)'
  BY SeenNext
<1>2. /\ H = [s \in CacheClients |-> H[s]]
      /\ \A s \in CacheClients, v \in Workers : Run(s, v) => H[s] = calls[v]
      /\ \A s \in CacheClients : (\A v \in Workers : ~Run(s, v)) => H[s] = NoCall
      /\ R = [s \in CacheClients |-> Answered(s)]
      /\ B \subseteq CacheClients
      /\ \A s \in CacheClients : s \in B <=> Replied(s) \/ \E v \in Workers : Run(s, v)
  BY Seen
<1>3. \A s \in CacheClients : H2[s] = H[s]
  <2> TAKE s \in CacheClients
  <2>1. CASE \A v \in Workers : ~Run(s, v)
    BY <1>1, <1>2, <2>1
  <2>2. CASE \E v \in Workers : Run(s, v)
    BY <1>1, <1>2, <2>2
  <2> QED
    BY <2>1, <2>2
<1>4. H2 = H
  BY <1>1, <1>2, <1>3
<1>5. R2 = R
  BY <1>1, <1>2
<1>6. B2 = B
  BY <1>1, <1>2
<1>7. Q2 = Q /\ G2 = G
  BY DEF Views
<1> QED
  BY <1>4, <1>5, <1>6, <1>7, ToSame

LEMMA ServesShutDown ==
  ASSUME ServiceInv, ServiceInv', NEW w \in Workers, worker_shut_down(w), UNCHANGED clientvars,
         NEW H, NEW R, NEW Q, NEW B, NEW G, Views(H, R, Q, B, G),
         NEW H2, NEW R2, NEW Q2, NEW B2, NEW G2, Views(H2, R2, Q2, B2, G2)'
  PROVE  UNCHANGED Service!servicevars
<1> PICK r : r = Head(queue[w]).from
  OBVIOUS
<1> PICK op : op = SHUT_DOWN
  OBVIOUS
<1>1. /\ Receives(w, op) /\ Executes(w, r, op)
      /\ UNCHANGED <<cache, cachebuffer, to_server, asked, got>>
  BY DEF worker_shut_down, clientvars
<1>2. op \in Ops /\ cachebuffer' \in [Workers -> Vals \cup {<<>>}]
  BY <1>1 DEF Ops, ServiceInv, CallsOK
<1>3. /\ r \in Requesters /\ AskOK(r, asked[r]) /\ asked[r].op = op
      /\ worker[w].pc # "cache" /\ calls[w] = NoCall
  BY <1>1, <1>2, Received
<1>4. \A s \in CacheClients : s \in Requesters /\ s # r
  BY <1>3, CacheClient, ZmqClientsAssumption DEF CacheClients
<1>5. Handled(w, r, op) /\ (calls'[w] = NoCall => worker'[w].pc # "cache")
  BY <1>1, <1>2, Executed
<1>6. worker'[w].pc # "cache"
  BY <1>1, <1>3, <1>5 DEF cache
<1>7. /\ \A s \in Requesters, v \in Workers :
           Run(s, v)' <=> IF v = w THEN s = r /\ worker'[w].pc = "cache" ELSE Run(s, v)
      /\ \A s \in Requesters :
           Replied(s)' <=> Replied(s) \/ (s = r /\ worker'[w].pc # "cache")
      /\ \A s \in Requesters : s # r => to_client'[s] = to_client[s]
  BY <1>3, <1>5, HandledPlaces
<1>8. \A s \in Requesters : ~Run(s, w)
  BY <1>3, NoneRunBy
<1>9. ASSUME NEW s \in CacheClients
      PROVE  /\ asked'[s] = asked[s] /\ got'[s] = got[s] /\ Answered(s)' = Answered(s)
             /\ Replied(s)' <=> Replied(s)
             /\ \A v \in Workers : Run(s, v)' <=> Run(s, v)
  <2>1. \A v \in Workers : Run(s, v)' <=> Run(s, v)
    BY <1>4, <1>6, <1>7, <1>8
  <2>2. (Replied(s)' <=> Replied(s)) /\ to_client'[s] = to_client[s]
    BY <1>4, <1>7
  <2> QED
    BY <1>1, <2>1, <2>2 DEF Answered
<1>10. UNCHANGED <<map, calls>>
  BY <1>1 DEF cache
<1> QED
  BY <1>9, <1>10, ServesNothing

LEMMA ServesAsk ==
  ASSUME ServiceInv, ServiceInv', NEW r \in Requesters, NEW a \in Asks, AskOK(r, a),
         Send(r, a.op, a.key, a.data),
         NEW H, NEW R, NEW Q, NEW B, NEW G, Views(H, R, Q, B, G),
         NEW H2, NEW R2, NEW Q2, NEW B2, NEW G2, Views(H2, R2, Q2, B2, G2)'
  PROVE  Service!ServiceNext \/ UNCHANGED Service!servicevars
<1>1. /\ asked[r] = NULL /\ asked' = [asked EXCEPT ![r] = a]
      /\ UNCHANGED <<map, calls, worker, to_client, got>>
  <2>1. a = [op |-> a.op, key |-> a.key, data |-> a.data]
    BY DEF Asks
  <2> QED
    BY <2>1 DEF Send, cache
<1>2. asked'[r] = a /\ \A s \in Requesters : s # r => asked'[s] = asked[s]
  BY <1>1 DEF ServiceInv, AsksOK
<1>3. ~Replied(r)
  BY <1>1 DEF ServiceInv, FlightOK, FlightFor, Nowhere
<1>4. \A s \in CacheClients : s \in Requesters
  BY ZmqClientsAssumption DEF CacheClients
<1>5. \A s \in CacheClients :
        /\ Answered(s)' = Answered(s)
        /\ Replied(s)' <=> Replied(s)
        /\ \A v \in Workers : Run(s, v)' <=> Run(s, v)
  <2> TAKE s \in CacheClients
  <2>1. (Replied(s)' <=> Replied(s)) /\ \A v \in Workers : Run(s, v)' <=> Run(s, v)
    BY <1>1 DEF Replied, Run
  <2>2. CASE s = r
    BY <1>1, <1>3, <2>1, <2>2 DEF Answered
  <2>3. CASE s # r
    BY <1>1, <1>2, <1>4, <2>1, <2>3 DEF Answered
  <2> QED
    BY <2>1, <2>2, <2>3
<1>6. CASE r \notin CacheClients
  <2>1. \A s \in CacheClients : asked'[s] = asked[s] /\ got'[s] = got[s]
    BY <1>1, <1>2, <1>4, <1>6
  <2> QED
    BY <1>1, <1>5, <2>1, ServesNothing
<1>7. CASE r \in CacheClients
  <2>1. a.op \in {"set", "get", "delete"} /\ a.key \in Keys /\ a.data \in Vals \cup {<<>>}
    <3>1. r # STOPPER
      BY <1>7, ZmqClientsAssumption DEF CacheClients
    <3> QED
      BY <3>1, Names DEF AskOK, Asks
  <2>2. a = [op |-> a.op, key |-> a.key, data |-> a.data]
    BY DEF Asks
  <2>3. a \in Service!Requests
    BY <2>1, <2>2 DEF Service!Requests
  <2>4. H2 = H
    <3>1. \A s \in CacheClients : RunningFor(s)' = RunningFor(s)
      BY <1>1 DEF RunningFor
    <3> QED
      BY <1>1, <3>1 DEF Views
  <2>5. R2 = R /\ B2 = B /\ G2 = G
    <3>1. R2 = R
      <4>1. R = [s \in CacheClients |-> Answered(s)]
        BY Seen
      <4>2. R2 = [s \in CacheClients |-> Answered(s)']
        BY SeenNext
      <4> QED
        BY <1>5, <4>1, <4>2
    <3>2. B2 = B
      BY <1>1 DEF Views, RunningFor
    <3>3. G2 = G
      BY <1>1 DEF Views
    <3> QED
      BY <3>1, <3>2, <3>3
  <2>6. Q[r] = NULL /\ Q2 = [Q EXCEPT ![r] = a]
    <3>1. Q = [s \in CacheClients |-> asked[s]] /\ Q2 = [s \in CacheClients |-> asked'[s]]
      BY DEF Views
    <3> QED
      BY <1>1, <1>2, <1>4, <1>7, <3>1
  <2>7. Service!Ask(r, a)
    BY <1>1, <2>4, <2>5, <2>6 DEF Views, Service!Ask, Service!vars
  <2> QED
    BY <1>7, <2>3, <2>7 DEF Service!ServiceNext
<1> QED
  BY <1>6, <1>7

LEMMA ServesAnswer ==
  ASSUME ServiceInv, ServiceInv', NEW r \in Requesters, Recv(r),
         NEW H, NEW R, NEW Q, NEW B, NEW G, Views(H, R, Q, B, G),
         NEW H2, NEW R2, NEW Q2, NEW B2, NEW G2, Views(H2, R2, Q2, B2, G2)'
  PROVE  Service!ServiceNext \/ UNCHANGED Service!servicevars
<1> PICK x : x = IF asked[r].op = GET_VALUE_BY_KEY THEN ReplyData(to_client[r]) ELSE got[r]
  OBVIOUS
<1>1. /\ Replied(r) /\ asked' = [asked EXCEPT ![r] = NULL]
      /\ got' = [got EXCEPT ![r] = x]
      /\ to_client' = [to_client EXCEPT ![r] = NULL]
      /\ UNCHANGED <<map, calls, worker>>
  BY DEF Recv, Replied, cache
<1>2. \A v \in Workers : ~Run(r, v)
  BY FlightRecv
<1>3. /\ asked'[r] = NULL /\ got'[r] = x /\ to_client'[r] = NULL
      /\ \A s \in Requesters : s # r =>
           asked'[s] = asked[s] /\ got'[s] = got[s] /\ to_client'[s] = to_client[s]
  BY <1>1 DEF ServiceInv, AsksOK, FlightOK
<1>4. \A s \in CacheClients : s \in Requesters
  BY ZmqClientsAssumption DEF CacheClients
<1>5. \A s \in CacheClients, v \in Workers : Run(s, v)' <=> Run(s, v)
  BY <1>1 DEF Run
<1>6. \A s \in CacheClients : s # r =>
        (Replied(s)' <=> Replied(s)) /\ Answered(s)' = Answered(s)
  BY <1>3, <1>4 DEF Replied, Answered
<1>7. CASE r \notin CacheClients
  <2>1. \A s \in CacheClients :
          /\ asked'[s] = asked[s] /\ got'[s] = got[s] /\ Answered(s)' = Answered(s)
          /\ Replied(s)' <=> Replied(s)
          /\ \A v \in Workers : Run(s, v)' <=> Run(s, v)
    BY <1>3, <1>4, <1>5, <1>6, <1>7
  <2> QED
    BY <1>1, <2>1, ServesNothing
<1>8. CASE r \in CacheClients
  <2>1. H2 = H
    <3>1. \A s \in CacheClients : RunningFor(s)' = RunningFor(s)
      BY <1>1 DEF RunningFor
    <3> QED
      BY <1>1, <3>1 DEF Views
  <2>2. /\ R = [s \in CacheClients |-> Answered(s)] /\ R2 = [s \in CacheClients |-> Answered(s)']
        /\ H[r] = NoCall /\ r \in B
        /\ B \subseteq CacheClients /\ B2 \subseteq CacheClients
        /\ \A s \in CacheClients : s \in B <=> Replied(s) \/ \E w \in Workers : Run(s, w)
        /\ \A s \in CacheClients : s \in B2 <=> Replied(s)' \/ \E w \in Workers : Run(s, w)'
    BY <1>1, <1>2, <1>8, Seen, SeenNext
  <2>3. ~Replied(r)' /\ Answered(r)' = x /\ Answered(r) = x
    BY <1>1, <1>3 DEF Replied, Answered
  <2>4. R2 = R
    BY <1>6, <2>2, <2>3
  <2>5. B2 = B \ {r}
    BY <1>2, <1>5, <1>6, <2>2, <2>3
  <2>6. Q = [s \in CacheClients |-> asked[s]] /\ Q2 = [s \in CacheClients |-> asked'[s]]
        /\ G = [s \in CacheClients |-> got[s]] /\ G2 = [s \in CacheClients |-> got'[s]]
    BY DEF Views
  <2>7. Q2 = [Q EXCEPT ![r] = NULL]
    BY <1>3, <1>4, <1>8, <2>6
  <2>8. G2 = [G EXCEPT ![r] = IF Q[r].op = "get" THEN R[r] ELSE G[r]]
    <3>1. x = IF Q[r].op = "get" THEN R[r] ELSE G[r]
      BY <1>8, <2>2, <2>3, <2>6, Names
    <3> QED
      BY <1>3, <1>4, <1>8, <2>6, <3>1
  <2>9. NoCall = Service!Idle
    BY DEF NoCall, CallOf, Service!Idle
  <2>10. Service!Answer(r)
    BY <1>1, <2>1, <2>2, <2>4, <2>5, <2>7, <2>8, <2>9 DEF Views, Service!Answer, Service!vars
  <2> QED
    BY <1>8, <2>10 DEF Service!ServiceNext
<1> QED
  BY <1>7, <1>8

LEMMA ServesStill ==
  ASSUME ServiceInv, ServiceInv', ProxyStep \/ StillStep,
         NEW H, NEW R, NEW Q, NEW B, NEW G, Views(H, R, Q, B, G),
         NEW H2, NEW R2, NEW Q2, NEW B2, NEW G2, Views(H2, R2, Q2, B2, G2)'
  PROVE  UNCHANGED Service!servicevars
<1>1. UNCHANGED <<map, calls, to_client, asked, got>>
  BY DEF ProxyStep, proxy_request, StillStep, cache, net, clientvars
<1>2. \A s \in CacheClients, v \in Workers : Run(s, v)' <=> Run(s, v)
  <2>1. CASE worker' = worker
    BY <2>1 DEF Run
  <2>2. ASSUME NEW w \in Workers, worker[w].pc = "usleep",
               worker' = [worker EXCEPT ![w].pc = "aborted"]
        PROVE  \A s \in CacheClients, v \in Workers : Run(s, v)' <=> Run(s, v)
    <3>1. /\ worker = [v \in Workers |-> worker[v]]
          /\ worker[w] = [pc |-> worker[w].pc, from |-> worker[w].from, op |-> worker[w].op]
      BY DEF ServiceInv, CallsOK, CallOK
    <3>2. worker'[w].pc = "aborted" /\ \A v \in Workers : v # w => worker'[v] = worker[v]
      BY <2>2, <3>1
    <3> QED
      BY <2>2, <3>2 DEF Run
  <2> QED
    BY <2>1, <2>2 DEF ProxyStep, proxy_request, StillStep
<1>3. ASSUME NEW s \in CacheClients
      PROVE  /\ asked'[s] = asked[s] /\ got'[s] = got[s] /\ Answered(s)' = Answered(s)
             /\ Replied(s)' <=> Replied(s)
             /\ \A v \in Workers : Run(s, v)' <=> Run(s, v)
  BY <1>1, <1>2 DEF Answered, Replied
<1> QED
  BY <1>1, <1>3, ServesNothing

LEMMA ServiceStep ==
  ASSUME KeysAreStrings, ServiceInv, ServiceInv', [Next]_allvars
  PROVE  Service!ServiceNext \/ UNCHANGED Service!servicevars
<1> PICK H, R, Q, B, G : Views(H, R, Q, B, G)
  BY DEF Views
<1> PICK H2, R2, Q2, B2, G2 : Views(H2, R2, Q2, B2, G2)'
  BY DEF Views
<1>1. CASE AskStep
  BY <1>1, ServesAsk DEF AskStep
<1>2. CASE RecvStep
  BY <1>2, ServesAnswer DEF RecvStep
<1>3. CASE WorkStep
  BY <1>3, ServesGet, ServesSet, ServesDelete, ServesCache, ServesShutDown DEF WorkStep
<1>4. CASE ProxyStep \/ StillStep
  BY <1>4, ServesStill
<1> QED
  BY <1>1, <1>2, <1>3, <1>4, ServiceSteps

LEMMA ServiceStarts == Init => Service!ServiceInit
<1> SUFFICES ASSUME Init PROVE Service!ServiceInit
  OBVIOUS
<1>1. \A r \in CacheClients : r \in Requesters
  BY ZmqClientsAssumption DEF CacheClients
<1>2. \A r \in CacheClients :
        RunningFor(r) = {} /\ to_client[r] = NULL /\ CacheAnswer(r) = NULL
  BY <1>1 DEF Init, ServerInit, NoRequest, RunningFor, CacheAnswer
<1> QED
  BY <1>1, <1>2 DEF Init, ServerInit, Cache!Init, Cache!Idle, Service!ServiceInit, Service!Init,
    Service!Idle

(***************************************************************************)
(* Whatever the number of clients and of workers, and whatever the order   *)
(* in which requests, calls of the cache and replies overtake each other:  *)
(* every request is run once, by one worker, with the key and the data     *)
(* that were sent, and its own client gets the reply (zmqserver.cpp:75-102,*)
(* zmqclient.cpp:81-92).                                                   *)
(***************************************************************************)
THEOREM ServiceIsImplemented == ASSUME KeysAreStrings PROVE Spec => ImplementsService
<1>1. Init => ServiceInv /\ Service!ServiceInit
  BY InitService, ServiceStarts
<1>2. ServiceInv /\ [Next]_allvars => ServiceInv'
  BY KeepsService
<1>3. ServiceInv /\ ServiceInv' /\ [Next]_allvars => [Service!ServiceNext]_(Service!servicevars)
  BY ServiceStep
<1> QED
  BY <1>1, <1>2, <1>3, PTL DEF Spec, ImplementsService, Service!ServiceSpec
=============================================================================
