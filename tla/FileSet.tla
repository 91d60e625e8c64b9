------------------------------ MODULE FileSet ------------------------------
(***************************************************************************)
(* What BlobFileSet promises: each column family has a set of blob files   *)
(* that survives every crash.  A file joins it once, under a number that   *)
(* no file of the database has had before, and leaves it once.             *)
(***************************************************************************)
CONSTANTS CF, File

VARIABLES
  live,  \* the blob files of each column family
  used   \* the numbers that have been given to a blob file of the database

fsVars == <<live, used>>

Init == live = [c \in CF |-> {}] /\ used = {}

Add(c, fs) ==
  /\ fs \cap used = {}
  /\ live' = [live EXCEPT ![c] = @ \cup fs]
  /\ used' = used \cup fs

Remove(c, fs) ==
  /\ fs \subseteq live[c]
  /\ live' = [live EXCEPT ![c] = @ \ fs]
  /\ UNCHANGED used

Next == \E c \in CF, fs \in SUBSET File : Add(c, fs) \/ Remove(c, fs)

Spec == Init /\ [][Next]_fsVars
=============================================================================
