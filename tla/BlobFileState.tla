---------------------------- MODULE BlobFileState ----------------------------
(***************************************************************************)
(* The life cycle of a blob file's in-memory metadata (BlobFileMeta in     *)
(* diffkv/src/blob_format.h and blob_format.cc).  kAbsent stands for a     *)
(* file number that files_ of the BlobStorage does not hold.               *)
(***************************************************************************)

FileState == {"kInit", "kNormal", "kPendingLSM", "kBeingGC", "kPendingGC",
              "kObsolete", "kToMerge", "kToGC"}

FileEvent == {"kFlushCompleted", "kGCCompleted", "kCompactionCompleted",
              "kGCBegin", "kGCOutput", "kFlushOrCompactionOutput",
              "kDbRestart", "kDelete", "kNeedMerge", "kReset", "kNeedGC"}

MetaState == FileState \cup {"kAbsent"}

(***************************************************************************)
(* The state FileStateTransit(event) leaves a file of state st in, in a    *)
(* build whose assertions are compiled out.                                *)
(***************************************************************************)
FileStateTransit(event, st) ==
  CASE event = "kFlushCompleted" ->
         IF st = "kPendingLSM" THEN "kNormal" ELSE st
    [] event = "kGCCompleted" ->
         IF st = "kObsolete" THEN st ELSE "kNormal"
    [] event = "kNeedMerge" ->
         IF st \in {"kToGC", "kObsolete"} THEN st ELSE "kToMerge"
    [] event = "kNeedGC" ->
         IF st = "kObsolete" THEN st ELSE "kToGC"
    [] event \in {"kCompactionCompleted", "kDbRestart", "kReset"} -> "kNormal"
    [] event = "kGCBegin" -> "kBeingGC"
    [] event = "kGCOutput" -> "kPendingGC"
    [] event = "kFlushOrCompactionOutput" -> "kPendingLSM"
    [] event = "kDelete" -> "kObsolete"

(***************************************************************************)
(* The states in which FileStateTransit asserts that the event may arrive. *)
(***************************************************************************)
AssertedStates(event) ==
  CASE event = "kFlushCompleted" ->
         {"kPendingLSM", "kPendingGC", "kNormal", "kBeingGC", "kObsolete"}
    [] event = "kGCCompleted" -> {"kObsolete", "kPendingGC", "kBeingGC"}
    [] event = "kCompactionCompleted" -> {"kPendingLSM"}
    [] event = "kGCBegin" -> {"kNormal"}
    [] event \in {"kGCOutput", "kFlushOrCompactionOutput", "kDbRestart"} ->
         {"kInit"}
    [] event = "kDelete" -> FileState \ {"kObsolete"}
    [] event \in {"kNeedMerge", "kReset", "kNeedGC"} -> FileState

(***************************************************************************)
(* A file that is part of the database: known to files_ and not obsolete.  *)
(***************************************************************************)
IsLive(st) == st \notin {"kAbsent", "kObsolete"}
=============================================================================
