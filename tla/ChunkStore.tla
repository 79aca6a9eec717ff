----------------------------- MODULE ChunkStore -----------------------------
(***************************************************************************)
(* The operations of app/vectorstore.py on one tier's Chroma collection.   *)
(*                                                                         *)
(* A collection is a set of rows.  A row is one indexed chunk: the source  *)
(* it belongs to, its position, the text of the document version it was    *)
(* cut from, the origin and the review metadata.  A version of a document  *)
(* is a member of Texts and stands for its own content_hash (sha256 is     *)
(* taken as injective); None is the hash "" and the absent reviewed_hash.  *)
(*                                                                         *)
(* Every operator is one critical section under _CLIENT_LOCK, so a module  *)
(* that uses the store applies each of them in one step and never two of   *)
(* them in the same step.                                                  *)
(***************************************************************************)
EXTENDS Integers, FiniteSets

CONSTANTS
    Sources,        \* source names ("upload/<tier>/<file>", "tickets/<id>", ...)
    Texts,          \* document versions
    None,           \* no text, no hash
    NumChunks       \* how many chunks chunk_text cuts a version into

ASSUME ChunkStoreAssumption ==
    /\ None \notin Texts
    /\ NumChunks \in [Texts -> Nat]

Origins == {"curated", "upload", "connector"}

\* metadata["reviewed"]: an upload or a connector record is written with False,
\* a swept file without the key, and only mark_reviewed writes True.
ReviewStates == {"absent", "false", "true"}

Rows == [source : Sources, index : Nat, text : Texts, origin : Origins,
         reviewed : ReviewStates, signed : Texts \cup {None}]

-----------------------------------------------------------------------------
(* Reads *)

RowsOf(rows, s) == {r \in rows : r.source = s}

\* The hash all rows agree on, or None: an unknown source, or chunks of
\* several versions, have none.
HashesAgree(rows, h) == rows # {} /\ \A r \in rows : r.text = h

Revision(rows) ==
    IF \E h \in Texts : HashesAgree(rows, h)
    THEN CHOOSE h \in Texts : HashesAgree(rows, h)
    ELSE None

\* What a reader of the reassembled source sees.
ShownTexts(rows) == {r.text : r \in rows}

\* Mutant: the diff of a sweep forgets that it is scoped to an origin.
IndexedSourcesAnyOrigin(rows, origin) == {r.source : r \in rows}

IndexedSources(rows, origin) == {r.source : r \in {q \in rows : q.origin = origin}}

PendingReview(rows) == {r.source : r \in {q \in rows : q.reviewed = "false"}}

\* retriever.is_trusted: the only rows an answer is ever drawn from.
IsTrusted(r) == r.origin = "curated" \/ r.reviewed = "true"

\* What reviewed content can answer from: sources with the versions shown.
Answerable(rows) == {<<r.source, r.text>> : r \in {q \in rows : q.reviewed = "true"}}

-----------------------------------------------------------------------------
(* Writes *)

DeleteSource(rows, s) == rows \ RowsOf(rows, s)

\* Mutant: the last chunk of a version is lost.
ChunkRowsShort(s, v, origin, reviewed) ==
    {[source |-> s, index |-> i, text |-> v, origin |-> origin,
      reviewed |-> reviewed, signed |-> None] : i \in 0 .. NumChunks[v] - 2}

\* The rows _index builds for version v of source s.
ChunkRows(s, v, origin, reviewed) ==
    {[source |-> s, index |-> i, text |-> v, origin |-> origin,
      reviewed |-> reviewed, signed |-> None] : i \in 0 .. NumChunks[v] - 1}

SameId(r, q) == r.source = q.source /\ r.index = q.index

\* The record an upsert of n leaves when its id already holds the record old:
\* Chroma merges the metadata, so the keys the writer does not name keep their
\* old values.  No writer names reviewed_hash; a sweep does not name reviewed.
Overwrite(old, n) ==
    [n EXCEPT !.signed = old.signed,
              !.reviewed = IF n.reviewed = "absent" THEN old.reviewed ELSE @]

AddChunks(rows, new) ==
    {r \in rows : \A n \in new : ~SameId(r, n)}
    \cup {n \in new : \A r \in rows : ~SameId(r, n)}
    \cup {Overwrite(p[1], p[2]) : p \in {q \in rows \X new : SameId(q[1], q[2])}}

\* Mutant: the empty hash of a mixed source counts as a hash.
IsCurrentEmptyHash(rows, s, expected) ==
    RowsOf(rows, s) # {} /\ Revision(RowsOf(rows, s)) = expected

\* mark_reviewed and reject_source act only when the indexed chunks agree on
\* exactly the hash the caller names.
IsCurrent(rows, s, expected) ==
    /\ RowsOf(rows, s) # {}
    /\ expected # None
    /\ Revision(RowsOf(rows, s)) = expected

MarkReviewed(rows, s, h) ==
    {IF r.source = s THEN [r EXCEPT !.reviewed = "true", !.signed = h] ELSE r
        : r \in rows}
=============================================================================
