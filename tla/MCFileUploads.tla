--------------------------- MODULE MCFileUploads ---------------------------
(* A small instance of FileUploads for TLC. *)
EXTENDS FileUploads

(* All keys are opened by the same user, whose sessions housekeep each other. *)
OneOwner == [k \in Keys |-> "user"]
============================================================================
