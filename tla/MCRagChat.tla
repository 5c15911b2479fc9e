------------------------------ MODULE MCRagChat ------------------------------
(* Instance of RagChat: two turns that ask the same question.  No symmetry,   *)
(* since liveness is checked.                                                 *)
EXTENDS RagChat
=============================================================================
