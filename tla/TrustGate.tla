----------------------------- MODULE TrustGate ------------------------------
(***************************************************************************)
(* What the review gate promises, with no chunks, files or threads.        *)
(*                                                                         *)
(* answerable holds the <<source, version>> pairs of reviewed content that *)
(* an answer may be drawn from; signed holds the pairs a reviewer has      *)
(* signed off.  Content becomes answerable only in the step that signs it  *)
(* off, that step leaves no other version of the source answerable, and    *)
(* everything else the system does can only take answers away.             *)
(***************************************************************************)
CONSTANTS Sources, Texts

VARIABLES answerable, signed

gateVars == <<answerable, signed>>

GateInit == answerable = {} /\ signed = {}

SignOff(s, v) ==
    /\ signed' = signed \cup {<<s, v>>}
    /\ answerable' = {p \in answerable : p[1] # s} \cup {<<s, v>>}

Withdraw ==
    /\ answerable' \subseteq answerable
    /\ UNCHANGED signed

GateNext == Withdraw \/ \E s \in Sources, v \in Texts : SignOff(s, v)

GateSpec == GateInit /\ [][GateNext]_gateVars

-----------------------------------------------------------------------------
\* What every system that implements the gate inherits: it answers from versions
\* that were signed off, and from one version of a source.
GateSafe ==
    /\ answerable \subseteq signed
    /\ \A p, q \in answerable : p[1] = q[1] => p = q
=============================================================================
