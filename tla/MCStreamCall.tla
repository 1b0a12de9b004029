---------------------------- MODULE MCStreamCall ----------------------------
(***************************************************************************)
(* One stream whose server sends at most two chunks.                       *)
(***************************************************************************)
EXTENDS StreamCall

============================================================================
