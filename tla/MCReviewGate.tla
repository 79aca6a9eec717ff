---------------------------- MODULE MCReviewGate ----------------------------
(***************************************************************************)
(* Instances of ReviewGate for TLC, and ReviewQueue over small documents   *)
(* and queues.                                                             *)
(***************************************************************************)
EXTENDS ReviewGate, ReviewQueue

CONSTANTS short, long, blank   \* versions of one, two and no chunks

MCNumChunks == [v \in Texts |-> CASE v = long  -> 2
                                  [] v = blank -> 0
                                  [] OTHER     -> 1]

MCSources == Curated \cup Uploads

\* Approvers do not differ, and no property of a run names one.
MCSymmetry == Permutations(Approvers)

Working == {a \in Approvers : ap[a].pc # "idle"}

Reading == {a \in Working : ap[a].pc \in {"revision", "decide"}}

\* Bounds: a second approver reads only while the first is removing what it
\* rejected.  Two approvers, or one that reviews a curated source, are at work only
\* while no sweep is.  Once two rejections crossed, a behaviour is followed until
\* both have moved.
MCCrowd ==
    /\ Cardinality(Reading) <= 1
    /\ (\E a \in Working : Cardinality(Working) > 1 \/ ap[a].source \in Curated) =>
          \A w \in Sweepers : sw[w].pc = "idle"
    /\ crossed = {} \/ \E a \in Approvers : ap[a].pc = "move"

MCLines == [rules : SUBSET {"override", "role"}, blob : BOOLEAN, urls : {0, 4}]

MCDocuments ==
    [lines : UNION {[1 .. n -> MCLines] : n \in 0 .. 2}, joined : SUBSET {"override"},
     name : SUBSET {"role"}, confusable : BOOLEAN]

ASSUME TheScanIsOfTheWhole ==
    \A document \in MCDocuments :
        RiskIsOfTheWhole(document) /\ \A verdict \in {"clean", "suspicious"} :
            ReportAgrees(document, verdict)

\* What is pending: sources in the order of their names, each with its risk.
ASSUME TheQueueIsPaged ==
    \A risks \in UNION {[1 .. n -> DOMAIN QueueRank] : n \in 0 .. 4}, limit \in 1 .. 3 :
        PagesCoverTheQueue({[source |-> i, risk |-> risks[i]] : i \in DOMAIN risks}, limit)
=============================================================================
