--------------------------- MODULE MCLocalClients ---------------------------
(***************************************************************************)
(* Small instances of LocalClients.  The constants are sets of model       *)
(* values; each client's buffer is the client.                             *)
(***************************************************************************)
EXTENDS LocalClients, TLC

MCJobs == Clients

MCThreads == Permutations(Workers) \cup Permutations(Clients)
=============================================================================
