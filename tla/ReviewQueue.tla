---------------------------- MODULE ReviewQueue ----------------------------
(***************************************************************************)
(* What an approver is shown: the advisory scan of a document (app/        *)
(* review_agent.py), its record in the index (app/ingest.py) and the queue *)
(* that GET /review pages through (app/main.py).                           *)
(*                                                                         *)
(* A document is what the scan tells apart of it: the rules that match in  *)
(* each line, whether the line holds an encoded run, how many addresses;   *)
(* the rules that match in the joined lines and in its name; whether it    *)
(* uses look-alike letters.                                                *)
(***************************************************************************)
EXTENDS Naturals, Sequences, FiniteSets, SequencesExt, FiniteSetsExt, TLC

CONSTANTS MaxFindings    \* MAX_FINDINGS

Severities == <<"high", "medium", "low">>

SeverityRank(severity) == CHOOSE i \in DOMAIN Severities : Severities[i] = severity

Finding(rule, severity, line) == [rule |-> rule, severity |-> severity, line |-> line, nth |-> 1]

\* Rules of prompt_filter that match in a line, or anywhere (line 0).
Matches(rules, line) == {Finding(rule, "high", line) : rule \in rules}

OfLine(l, n) ==
    Matches(l.rules, n)
    \cup (IF l.blob THEN {Finding("encoded_blob", "medium", n)} ELSE {})
    \cup {[Finding("external_url", "low", n) EXCEPT !.nth = i] : i \in {j \in 1 .. 3 : j <= l.urls}}

\* Line by line, then the letters, then the rules that match only in the joined
\* lines, then the name.
Found(doc) ==
    LET lines   == UNION {OfLine(doc.lines[n], n) : n \in DOMAIN doc.lines}
        letters == IF doc.confusable THEN {Finding("confusable_unicode", "high", 0)} ELSE {}
        across  == Matches(doc.joined \ {f.rule : f \in lines \cup letters}, 0)
        \* A finding of its own, even where the joined lines have the same rule.
        name    == {[f EXCEPT !.nth = 2] : f \in Matches(doc.name, 0)}
    IN lines \cup letters \cup across \cup name

Worse(f, g) ==
    \/ SeverityRank(f.severity) < SeverityRank(g.severity)
    \/ f.severity = g.severity /\ f.line < g.line

\* The members of a set in a list, as they were appended: list.sort orders them.
Listed(S) == FoldSet(LAMBDA e, q : Append(q, e), <<>>, S)

\* inspect: worst first, and no more than MAX_FINDINGS.
Inspect(doc) ==
    LET sorted == SortSeq(Listed(Found(doc)), Worse)
    IN SubSeq(sorted, 1, IF Len(sorted) < MaxFindings THEN Len(sorted) ELSE MaxFindings)

\* The worst severity among findings; a document without any is low.
Risk(findings) ==
    LET severities == {f.severity : f \in ToSet(findings)}
    IN CASE "high" \in severities -> "high"
         [] "high" \notin severities /\ "medium" \in severities -> "medium"
         [] OTHER -> "low"

\* _scan_metadata: recorded when the document is indexed; a scan that fails is no
\* clean bill.
ScanMetadata(doc, fails) ==
    IF fails THEN [status |-> "unavailable", risk |-> "unknown", rules |-> {}]
    ELSE [status |-> "complete", risk |-> Risk(Inspect(doc)),
          rules |-> {f.rule : f \in ToSet(Inspect(doc))}]

\* Records from before the scan have nothing, and pending_review says so.
NeverScanned == [status |-> "missing", risk |-> "unknown", rules |-> {}]

\* review: the model's opinion stands beside the risk and not in it.
Report(doc, verdict) ==
    LET findings == Inspect(doc)
    IN [risk |-> Risk(findings), findings |-> findings,
        counts |-> [s \in ToSet(Severities) |->
                       Cardinality({i \in DOMAIN findings : findings[i].severity = s})],
        classifier |-> verdict]

\* GET /review: the order of the queue, unknown risk before medium and low.
QueueRank == [high |-> 0, unknown |-> 1, medium |-> 2, low |-> 3]

Before(e, f) ==
    \/ QueueRank[e.risk] < QueueRank[f.risk]
    \/ e.risk = f.risk /\ e.source < f.source

Queue(pending) == SortSeq(Listed(pending), Before)

Page(queue, offset, limit) ==
    SubSeq(queue, offset + 1,
           IF offset + limit < Len(queue) THEN offset + limit ELSE Len(queue))

-----------------------------------------------------------------------------
(* Properties *)

\* The cut to MAX_FINDINGS never hides the worst: the risk an approver sees is
\* that of the whole document, instructions broken across its lines included.
RiskIsOfTheWhole(doc) ==
    LET risk == Risk(Inspect(doc))
        rules == UNION {doc.lines[n].rules : n \in DOMAIN doc.lines} \cup doc.joined \cup doc.name
    IN /\ risk = "high" <=> rules # {} \/ doc.confusable
       /\ risk = "low" <=> rules = {} /\ ~doc.confusable
                           /\ \A n \in DOMAIN doc.lines : ~doc.lines[n].blob

\* Queue and report agree, whatever the model says, and every finding is counted.
ReportAgrees(doc, verdict) ==
    LET report == Report(doc, verdict)
    IN /\ report.risk = ScanMetadata(doc, FALSE).risk
       /\ report.counts["high"] + report.counts["medium"] + report.counts["low"]
             = Len(report.findings)

\* The pages of a queue that stands still hold every entry once, in order, and
\* nothing that is unknown comes after anything that is known to be milder.
PagesCoverTheQueue(pending, limit) ==
    LET queue == Queue(pending)
        pages == [k \in 1 .. Len(queue) |-> Page(queue, (k - 1) * limit, limit)]
    IN /\ FlattenSeq(pages) = queue
       /\ ToSet(queue) = pending
       /\ \A i, j \in DOMAIN queue :
             i < j /\ queue[j].risk = "unknown" => queue[i].risk \in {"high", "unknown"}
=============================================================================
