------------------------------ MODULE Messages ------------------------------
(***************************************************************************)
(* The messages of src/src/client-server/reqrep.hpp.  A request is a       *)
(* header, the key, a null character and the data; a reply is a header and *)
(* the data.  The fields of a header are kept as such, keys and data are   *)
(* sequences of characters, and NUL is the null character.                 *)
(***************************************************************************)
EXTENDS Sequences, Integers, FiniteSetsExt

CONSTANTS NUL, NULL

SHUT_DOWN == "shut_down"
SET_KEY_VALUE == "set"
GET_VALUE_BY_KEY == "get"
DELETE_BY_KEY == "delete"

\* datarequested(dest, key, nkey, data, nbytes, op): what is sent.
Request(op, key, data) ==
  [op |-> op, nkey |-> Len(key), nbytes |-> Len(data),
   body |-> key \o <<NUL>> \o data]

\* A char pointer as the C library sees it: what comes before the null.
CString(chars) ==
  SubSeq(chars, 1, Min({i \in DOMAIN chars : chars[i] = NUL}) - 1)

\* datarequested(totbytes, serialized): the fields of what was received.
RequestKey(m) == IF m.nkey > 0 THEN CString(m.body) ELSE NULL

\* Mutant: the null character is forgotten.
RequestData_NoNul(m) == SubSeq(m.body, m.nkey + 1, m.nkey + m.nbytes)

RequestData(m) == SubSeq(m.body, m.nkey + 2, m.nkey + 1 + m.nbytes)

Reply(op, valret, data) ==
  [op |-> op, valret |-> valret, nbytes |-> Len(data), data |-> data]

\* datareplied(totbytes, serialized), by a client that looks at valret.
ReplyData(m) == IF m.valret THEN SubSeq(m.data, 1, m.nbytes) ELSE NULL
=============================================================================
