------------------------------- MODULE Slots -------------------------------
(***************************************************************************)
(* What Generation and Egress share: the requests for an answer and the    *)
(* number of generation slots (app/limits.py).                             *)
(***************************************************************************)
EXTENDS Integers, FiniteSets

CONSTANTS
    Requests,       \* concurrent requests for an answer
    MaxConcurrent,  \* MAX_CONCURRENT_GENERATIONS
    None            \* a digest that could not be resolved, no text, no answer yet

ASSUME SlotsAssumption ==
    /\ IsFiniteSet(Requests)
    /\ MaxConcurrent \in Nat
=============================================================================
