---------------------------- MODULE CacheService ----------------------------
(***************************************************************************)
(* What the client-server system promises: each client has one request at  *)
(* a time, which is run once, between the moment it is asked and the       *)
(* moment it is answered, on a cache that is a LossyMap with the clients   *)
(* for its threads.  The answer to a get is what the cache returned to it. *)
(***************************************************************************)
EXTENDS LossyMap

VARIABLES
  request,  \* the request of every client, or NULL
  begun,    \* the clients whose requests have been begun
  answer    \* what every client's last get answered

servicevars == <<vars, request, begun, answer>>

ServiceInit ==
  /\ Init
  /\ request = [t \in Threads |-> NULL]
  /\ begun = {}
  /\ answer = [t \in Threads |-> NULL]

Ask(t, r) ==
  /\ request[t] = NULL
  /\ request' = [request EXCEPT ![t] = r]
  /\ UNCHANGED <<vars, begun, answer>>

Begin(t) ==
  /\ request[t] # NULL /\ t \notin begun
  /\ LET r == request[t] IN
     \/ r.op = "get" /\ Get(t, r.key)
     \/ r.op = "set" /\ Store(t, r.key, r.data)
     \/ r.op = "delete" /\ Delete(t, r.key)
     \/ r.op = "delete" /\ map[r.key] = NULL /\ UNCHANGED vars
  /\ begun' = begun \cup {t}
  /\ UNCHANGED <<request, answer>>

Continue(t) ==
  /\ GetReturn(t) \/ StoreTakesEffect(t) \/ DeleteTakesEffect(t) \/ DeleteReturn(t)
  /\ UNCHANGED <<request, begun, answer>>

Answer(t) ==
  /\ t \in begun
  /\ calls[t] = Idle
  /\ answer' = [answer EXCEPT ![t] = IF request[t].op = "get" THEN ret[t] ELSE @]
  /\ request' = [request EXCEPT ![t] = NULL]
  /\ begun' = begun \ {t}
  /\ UNCHANGED vars

Requests == [op : {"get", "set", "delete"}, key : Keys, data : Vals \cup {<<>>}]

ServiceNext ==
  \E t \in Threads :
    (\E r \in Requests : Ask(t, r)) \/ Begin(t) \/ Continue(t) \/ Answer(t)

ServiceSpec == ServiceInit /\ [][ServiceNext]_servicevars
=============================================================================
