--------------------------- MODULE MCQueueMessage ---------------------------
(* Instances of QueueMessage for TLC. *)
EXTENDS QueueMessageProperties

\* Every place the process can die at.
CrashPoints == {"idle", "body", "load", "swap", "removed", "loaded", "relink"}

\* All of them but the two where the disk does not hold what it must: between the length
\* and the body of a record, and between the removal of the old file and the rename.
SafeCrashPoints == CrashPoints \ {"body", "removed"}

AtRemoved == {"removed"}
AtBody == {"body"}

AllIOFails == {"create", "read", "header", "body", "close", "overwrite",
               "tmp", "remove", "rename", "unlink"}
NoIOFails == {}
=============================================================================
