------------------------------ MODULE FileStore ------------------------------
(***************************************************************************)
(* What the file system (src/src/filesys) promises about the disk: a set   *)
(* of named files of fixed length that a create fills with zeros, that a   *)
(* remove takes away and that a write changes one sector at a time.  The   *)
(* power may go off between any two steps and nothing named is lost.       *)
(***************************************************************************)
EXTENDS Integers, Sequences

CONSTANTS
  Name, Length, Byte,
  BLOCK_SECTOR_SIZE,
  NULL                 \* no file has this name

VARIABLE store         \* what each name stands for

Init == store = [n \in Name |-> NULL]

Created(new) == \E length \in Length : new = [i \in 1 .. length |-> 0]

(* Bytes first to last, which lie in one sector, have become b. *)
Written(old, new) ==
  \E first, last \in DOMAIN old, b \in Byte :
    /\ (first - 1) \div BLOCK_SECTOR_SIZE = (last - 1) \div BLOCK_SECTOR_SIZE
    /\ new = [i \in DOMAIN old |-> IF i \in first .. last THEN b ELSE old[i]]

(* One name changes at a time. *)
Next ==
  \E n \in {m \in Name : store'[m] # store[m]} :
    /\ \A m \in Name \ {n} : store'[m] = store[m]
    /\ \/ store[n] = NULL /\ Created(store'[n])
       \/ store'[n] = NULL
       \/ store[n] # NULL /\ store'[n] # NULL /\ Written(store[n], store'[n])

Spec == Init /\ [][Next]_store
=============================================================================
