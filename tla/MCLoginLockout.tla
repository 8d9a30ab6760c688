---------------------------- MODULE MCLoginLockout ----------------------------
(* A small instance of LoginLockout for TLC.                               *)
EXTENDS LoginLockout

CONSTANTS a1, a2, a3
=============================================================================
