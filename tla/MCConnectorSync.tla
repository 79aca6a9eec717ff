-------------------------- MODULE MCConnectorSync --------------------------
(***************************************************************************)
(* Instances of ConnectorSync and of Sealing for TLC.                      *)
(***************************************************************************)
EXTENDS ConnectorSync, Sealing

CONSTANTS short, long   \* versions of one and of two chunks

MCNumChunks == [v \in Texts |-> IF v = long THEN 2 ELSE 1]

MCTierSeq == <<"public", "restricted">>

\* What an approver's decision writes.
Verdicts == UNION {[D -> Values] : D \in SUBSET Cleartext}

ASSUME SealingReadsBack ==
    \A body \in Words, meta \in Metadata :
        ReadsBack(body, meta) /\ NothingInTheClear(body, meta)

ASSUME DecisionsKeepText ==
    \A body \in Words, meta \in Metadata, verdict \in Verdicts :
        /\ DecisionKeepsText(Seal(body, meta), verdict)
        /\ DecisionKeepsText(Unsealed(body, meta), verdict)
=============================================================================
