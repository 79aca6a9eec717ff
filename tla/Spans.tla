------------------------------- MODULE Spans -------------------------------
(***************************************************************************)
(* How texts are cut into overlapping spans: a document into chunks of     *)
(* characters (chunk_text of app/ingest.py), an answer into windows of     *)
(* words (_windows of app/filters/output_filter.py).  A span is the set of *)
(* the positions in it, from 0.                                            *)
(***************************************************************************)
EXTENDS Integers

\* range(0, stop, step)
Starts(stop, step) == {i \in 0 .. stop - 1 : i % step = 0}

\* The chunks of n characters: the last ones may be shorter.  One of blanks alone is
\* dropped as well, with nothing in it to lose.
Chunks(n, size, overlap) ==
    {{k \in i .. i + size - 1 : k < n} : i \in Starts(n, size - overlap)}

\* The sliding windows of n words, and a last one for the tail the stride leaves.
Sliding(n, size, stride) ==
    {i .. i + size - 1 : i \in Starts(n - size + 1, stride)} \cup {n - size .. n - 1}

\* A short answer is one window; a longer one is scored as a whole as well.
Windows(n, size, stride) ==
    (IF n <= size THEN {} ELSE Sliding(n, size, stride)) \cup {0 .. n - 1}

\* A run of so many positions is never cut apart by the spans of n positions.
KeepsRuns(spans, n, length) ==
    \A a \in 0 .. n - 1 : a + length <= n => \E span \in spans : a .. a + length - 1 \subseteq span
=============================================================================
