---------------------------- MODULE MCZmqClients ----------------------------
(***************************************************************************)
(* A small instance of ZmqClients: a client that sets, one that gets, and  *)
(* another program's.  Keys and data are short strings of characters.      *)
(***************************************************************************)
EXTENDS ZmqClients

CONSTANTS ChG, ChM

MCkey == <<ChG>>
MCvalue == <<ChM, ChM>>
MCKeys == {MCkey}
MCVals == {MCvalue}
MCRequesters == {0, 1, STOPPER} \cup Others
=============================================================================
