------------------------------- MODULE MCChat -------------------------------
(***************************************************************************)
(* An instance of Chat for TLC: two readers, two requests at a time.       *)
(***************************************************************************)
EXTENDS Chat

CONSTANTS ann, bob
=============================================================================
