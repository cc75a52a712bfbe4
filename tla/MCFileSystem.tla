---------------------------- MODULE MCFileSystem ----------------------------
(* Instances of FileSystem for TLC. *)
EXTENDS FileSystem, TLC

CONSTANTS proc, prog, file1, file2

(* Two states that differ only in what sectors hold that no file, no open  *)
(* inode and no call refers to are one: nothing reads such a sector before *)
(* inode_create has written it.                                            *)
Referred ==
  Linked \cup Pending \cup UNION {Sectors(s) : s \in OpenInodes}
View == <<[s \in Referred \ Reserved |-> disk[s]], disk_map, root, volatile, call, lost>>

(* The names that are not a program's are alike. *)
Renaming == Permutations({file1, file2})
=============================================================================
