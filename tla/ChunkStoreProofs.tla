-------------------------- MODULE ChunkStoreProofs --------------------------
(***************************************************************************)
(* Facts about the operators of ChunkStore that hold for every collection. *)
(***************************************************************************)
EXTENDS ChunkStore, TLAPS

-----------------------------------------------------------------------------
(* Types *)

\* The rows _index builds are rows: chunk counts are natural numbers.
LEMMA ChunkRowsType ==
    ASSUME NEW s \in Sources, NEW v \in Texts, NEW o \in Origins,
           NEW rs \in {"absent", "false"}
    PROVE  ChunkRows(s, v, o, rs) \subseteq Rows
  BY ChunkStoreAssumption DEF ChunkRows, Rows, ReviewStates

\* An upsert leaves rows.
LEMMA AddChunksType ==
    ASSUME NEW rows \in SUBSET Rows, NEW new \in SUBSET Rows
    PROVE  AddChunks(rows, new) \subseteq Rows
  <1>1. ASSUME NEW old \in Rows, NEW n \in Rows
        PROVE  Overwrite(old, n) \in Rows
    BY DEF Overwrite, Rows
  <1>2. QED
    BY <1>1 DEF AddChunks

\* mark_reviewed changes review metadata and nothing else of a row.
LEMMA MarkReviewedType ==
    ASSUME NEW rows \in SUBSET Rows, NEW s \in Sources, NEW h \in Texts
    PROVE  MarkReviewed(rows, s, h) \subseteq Rows
  BY DEF MarkReviewed, Rows, ReviewStates

\* What IsCurrent checked: every chunk of the source is of the named version.
LEMMA CurrentRows ==
    ASSUME NEW rows, NEW s, NEW h, IsCurrent(rows, s, h)
    PROVE  /\ RowsOf(rows, s) # {}
           /\ h \in Texts
           /\ \A r \in rows : r.source = s => r.text = h
  <1>1. \E g \in Texts : HashesAgree(RowsOf(rows, s), g)
    BY DEF IsCurrent, Revision
  <1>2. h \in Texts /\ HashesAgree(RowsOf(rows, s), h)
    BY <1>1 DEF IsCurrent, Revision
  <1>3. QED
    BY <1>2 DEF IsCurrent, HashesAgree, RowsOf

\* An upsert leaves no content but that of the old and of the new rows.
LEMMA AddedContents ==
    ASSUME NEW rows \in SUBSET Rows, NEW new \in SUBSET Rows, NEW r \in AddChunks(rows, new)
    PROVE  \E q \in rows \cup new : q.source = r.source /\ q.text = r.text
  <1>1. ASSUME NEW old \in Rows, NEW n \in Rows
        PROVE  Overwrite(old, n).source = n.source /\ Overwrite(old, n).text = n.text
    BY DEF Overwrite, Rows
  <1>2. CASE \E p \in {q \in rows \X new : SameId(q[1], q[2])} : r = Overwrite(p[1], p[2])
    BY <1>1, <1>2
  <1>3. CASE r \in rows \cup new
    BY <1>3
  <1>4. QED
    BY <1>2, <1>3 DEF AddChunks

\* Approval changes no content.
LEMMA MarkedContents ==
    ASSUME NEW rows \in SUBSET Rows, NEW s, NEW h, NEW r \in MarkReviewed(rows, s, h)
    PROVE  \E q \in rows : q.source = r.source /\ q.text = r.text
  BY DEF MarkReviewed, Rows

-----------------------------------------------------------------------------
(* One source at a time *)

\* Each write is about one source, and leaves the rows of every other as they are.
LEMMA OtherRowsKept ==
    ASSUME NEW rows \in SUBSET Rows, NEW s, NEW t, t # s,
           NEW v \in Texts, NEW h, NEW o, NEW rs
    PROVE  /\ RowsOf(DeleteSource(rows, s), t) = RowsOf(rows, t)
           /\ RowsOf(MarkReviewed(rows, s, h), t) = RowsOf(rows, t)
           /\ RowsOf(AddChunks(rows, ChunkRows(s, v, o, rs)), t) = RowsOf(rows, t)
  <1>1. RowsOf(DeleteSource(rows, s), t) = RowsOf(rows, t)
    BY DEF RowsOf, DeleteSource
  <1>2. RowsOf(MarkReviewed(rows, s, h), t) = RowsOf(rows, t)
    <2>1. ASSUME NEW r \in MarkReviewed(rows, s, h), r.source = t
          PROVE  r \in rows
      <3>1. PICK q \in rows :
               r = IF q.source = s THEN [q EXCEPT !.reviewed = "true", !.signed = h] ELSE q
        BY DEF MarkReviewed
      <3>2. q \in Rows
        OBVIOUS
      <3>3. q.source = s => r.source = s
        BY <3>1, <3>2 DEF Rows
      <3>4. QED
        BY <2>1, <3>1, <3>3
    <2>2. ASSUME NEW r \in rows, r.source = t
          PROVE  r \in MarkReviewed(rows, s, h)
      BY <2>2 DEF MarkReviewed
    <2>3. QED
      BY <2>1, <2>2 DEF RowsOf
  <1>3. RowsOf(AddChunks(rows, ChunkRows(s, v, o, rs)), t) = RowsOf(rows, t)
    <2> DEFINE new == ChunkRows(s, v, o, rs)
    <2>1. \A n \in new : n.source = s
      BY DEF ChunkRows
    <2>2. ASSUME NEW old \in rows, NEW n \in new
          PROVE  Overwrite(old, n).source = s
      <3>1. PICK i : n = [source |-> s, index |-> i, text |-> v, origin |-> o,
                          reviewed |-> rs, signed |-> None]
        BY <2>2 DEF ChunkRows
      <3>2. QED
        BY <3>1 DEF Overwrite
    <2> HIDE DEF new
    <2>3. ASSUME NEW r \in AddChunks(rows, new), r.source = t
          PROVE  r \in rows
      <3>1. CASE \E p \in {q \in rows \X new : SameId(q[1], q[2])} : r = Overwrite(p[1], p[2])
        BY <2>2, <2>3, <3>1
      <3>2. QED
        BY <2>1, <2>3, <3>1 DEF AddChunks
    <2>4. ASSUME NEW r \in rows, r.source = t
          PROVE  r \in AddChunks(rows, new)
      BY <2>1, <2>4 DEF AddChunks, SameId
    <2>5. RowsOf(AddChunks(rows, new), t) = RowsOf(rows, t)
      BY <2>3, <2>4 DEF RowsOf
    <2>6. QED
      BY <2>5 DEF new
  <1>4. QED
    BY <1>1, <1>2, <1>3

LEMMA DeletedRows ==
    ASSUME NEW rows, NEW s
    PROVE  RowsOf(DeleteSource(rows, s), s) = {}
  BY DEF RowsOf, DeleteSource

\* Where nothing of a source is left, an add leaves exactly what it adds: there is
\* no record to merge with.
LEMMA AddedAfresh ==
    ASSUME NEW rows, NEW s, NEW v, NEW o, NEW rs, RowsOf(rows, s) = {}
    PROVE  RowsOf(AddChunks(rows, ChunkRows(s, v, o, rs)), s) = ChunkRows(s, v, o, rs)
  <1> DEFINE new == ChunkRows(s, v, o, rs)
  <1>1. \A n \in new : n.source = s
    BY DEF ChunkRows
  <1>2. \A r \in rows : r.source # s
    BY DEF RowsOf
  <1> HIDE DEF new
  <1>3. \A r \in rows, n \in new : ~SameId(r, n)
    BY <1>1, <1>2 DEF SameId
  <1>4. AddChunks(rows, new) = rows \cup new
    <2>1. {Overwrite(p[1], p[2]) : p \in {q \in rows \X new : SameId(q[1], q[2])}} = {}
      BY <1>3
    <2>2. QED
      BY <1>3, <2>1 DEF AddChunks
  <1>5. RowsOf(rows \cup new, s) = new
    BY <1>1, <1>2 DEF RowsOf
  <1>6. QED
    BY <1>4, <1>5 DEF new

\* The rows an add leaves carry the origin they had, or the writer's.
LEMMA AddedOrigins ==
    ASSUME NEW rows, NEW s, NEW v, NEW o, NEW rs,
           NEW r \in AddChunks(rows, ChunkRows(s, v, o, rs))
    PROVE  r \in rows \/ (r.source = s /\ r.origin = o)
  <1>1. ASSUME NEW old, NEW n \in ChunkRows(s, v, o, rs)
        PROVE  /\ Overwrite(old, n).source = s /\ Overwrite(old, n).origin = o
               /\ n.source = s /\ n.origin = o
    <2>1. PICK i : n = [source |-> s, index |-> i, text |-> v, origin |-> o,
                        reviewed |-> rs, signed |-> None]
      BY <1>1 DEF ChunkRows
    <2>2. QED
      BY <2>1 DEF Overwrite
  <1>2. QED
    BY <1>1 DEF AddChunks

-----------------------------------------------------------------------------
(* Trust *)

IndexesOf(rows) == {r.index : r \in rows}

\* A decision changes what no reader sees: the versions shown and the positions stay,
\* and every row stays of its origin.
LEMMA MarkedShows ==
    ASSUME NEW rows \in SUBSET Rows, NEW s, NEW h
    PROVE  /\ \A x : ShownTexts(RowsOf(MarkReviewed(rows, s, h), x)) = ShownTexts(RowsOf(rows, x))
           /\ \A x : IndexesOf(RowsOf(MarkReviewed(rows, s, h), x)) = IndexesOf(RowsOf(rows, x))
           /\ \A r \in MarkReviewed(rows, s, h) : \E q \in rows : q.origin = r.origin
  <1> DEFINE Marked(r) == IF r.source = s
                          THEN [r EXCEPT !.reviewed = "true", !.signed = h] ELSE r
  <1>1. \A r \in rows : /\ Marked(r).source = r.source /\ Marked(r).text = r.text
                        /\ Marked(r).origin = r.origin /\ Marked(r).index = r.index
    BY DEF Rows
  <1>2. MarkReviewed(rows, s, h) = {Marked(r) : r \in rows}
    BY DEF MarkReviewed
  <1> HIDE DEF Marked
  <1>3. ASSUME NEW x
        PROVE  /\ ShownTexts(RowsOf(MarkReviewed(rows, s, h), x)) = ShownTexts(RowsOf(rows, x))
               /\ IndexesOf(RowsOf(MarkReviewed(rows, s, h), x)) = IndexesOf(RowsOf(rows, x))
    BY <1>1, <1>2 DEF ShownTexts, RowsOf, IndexesOf
  <1>4. QED
    BY <1>1, <1>2, <1>3

\* The rows of a version show it and hold every position of it.
LEMMA ChunkRowsShow ==
    ASSUME NEW s, NEW v \in Texts, NEW o, NEW rs, NumChunks[v] > 0
    PROVE  /\ ShownTexts(ChunkRows(s, v, o, rs)) = {v}
           /\ IndexesOf(ChunkRows(s, v, o, rs)) = 0 .. NumChunks[v] - 1
  <1> DEFINE last == NumChunks[v] - 1
             Row(i) == [source |-> s, index |-> i, text |-> v, origin |-> o,
                        reviewed |-> rs, signed |-> None]
  <1>1. 0 \in 0 .. last
    BY ChunkStoreAssumption
  <1>2. \A i : Row(i).index = i /\ Row(i).text = v
    OBVIOUS
  <1>3. ChunkRows(s, v, o, rs) = {Row(i) : i \in 0 .. last}
    BY DEF ChunkRows
  <1> HIDE DEF Row, last
  <1>4. ShownTexts(ChunkRows(s, v, o, rs)) = {v}
    BY <1>1, <1>2, <1>3 DEF ShownTexts
  <1>5. IndexesOf(ChunkRows(s, v, o, rs)) = 0 .. last
    BY <1>2, <1>3 DEF IndexesOf
  <1>6. QED
    BY <1>4, <1>5 DEF last

\* An add makes no chunk reviewed on its own: a reviewed row it leaves is one that
\* was there, or a sweep's text under the approval of a row that had its id.
LEMMA AddedRows ==
    ASSUME NEW rows, NEW s, NEW v, NEW o, NEW rs \in {"absent", "false"}
    PROVE  \A r \in AddChunks(rows, ChunkRows(s, v, o, rs)) :
              r.reviewed = "true" =>
                 \/ r \in rows
                 \/ /\ rs = "absent" /\ r.source = s /\ r.text = v
                    /\ \E old \in rows :
                          old.source = s /\ old.reviewed = "true" /\ old.signed = r.signed
  <1>1. ASSUME NEW n \in ChunkRows(s, v, o, rs)
        PROVE  n.source = s /\ n.text = v /\ n.reviewed # "true"
    BY <1>1 DEF ChunkRows
  <1>2. ASSUME NEW old \in rows, NEW n \in ChunkRows(s, v, o, rs), SameId(old, n),
               Overwrite(old, n).reviewed = "true"
        PROVE  /\ rs = "absent" /\ old.source = s /\ old.reviewed = "true"
               /\ Overwrite(old, n).source = s /\ Overwrite(old, n).text = v
               /\ Overwrite(old, n).signed = old.signed
    <2>1. PICK i : n = [source |-> s, index |-> i, text |-> v, origin |-> o,
                        reviewed |-> rs, signed |-> None]
      BY <1>2 DEF ChunkRows
    <2>2. /\ Overwrite(old, n).source = s /\ Overwrite(old, n).text = v
          /\ Overwrite(old, n).signed = old.signed
          /\ Overwrite(old, n).reviewed = IF rs = "absent" THEN old.reviewed ELSE rs
      BY <2>1 DEF Overwrite
    <2>3. old.source = s
      BY <1>2, <2>1 DEF SameId
    <2>4. QED
      BY <1>2, <2>2, <2>3
  <1>3. QED
    BY <1>1, <1>2 DEF AddChunks

\* An add of a writer that names reviewed = False makes nothing answerable.  Nor
\* does any other, unless the source had an approved chunk; what it adds then is
\* the version it writes.
LEMMA AddedAnswers ==
    ASSUME NEW rows, NEW s, NEW v, NEW o, NEW rs \in {"absent", "false"}
    PROVE  LET after == AddChunks(rows, ChunkRows(s, v, o, rs))
           IN /\ rs = "false" => Answerable(after) \subseteq Answerable(rows)
              /\ (\A r \in rows : r.source = s => r.reviewed # "true")
                    => Answerable(after) \subseteq Answerable(rows)
              /\ Answerable(after) \subseteq Answerable(rows) \cup {<<s, v>>}
  BY AddedRows DEF Answerable

\* Deleting a source makes nothing answerable.
LEMMA DeletedAnswers ==
    ASSUME NEW rows, NEW s
    PROVE  Answerable(DeleteSource(rows, s)) \subseteq Answerable(rows)
  BY DEF Answerable, DeleteSource

\* Approving a source leaves exactly the approved version of it answerable and
\* touches no other source.
LEMMA MarkedAnswers ==
    ASSUME NEW rows \in SUBSET Rows, NEW s \in Sources, NEW h, IsCurrent(rows, s, h)
    PROVE  Answerable(MarkReviewed(rows, s, h))
             = {p \in Answerable(rows) : p[1] # s} \cup {<<s, h>>}
  <1> DEFINE Mark(r) == IF r.source = s
                        THEN [r EXCEPT !.reviewed = "true", !.signed = h] ELSE r
             after == MarkReviewed(rows, s, h)
  <1>2. RowsOf(rows, s) # {} /\ \A r \in rows : r.source = s => r.text = h
    BY CurrentRows
  <1>3. after = {Mark(r) : r \in rows}
    BY DEF MarkReviewed
  <1>4. \A r \in rows : /\ Mark(r).source = r.source
                        /\ Mark(r).text = r.text
                        /\ r.source = s => Mark(r).reviewed = "true"
                        /\ r.source # s => Mark(r).reviewed = r.reviewed
    BY DEF Rows
  <1> HIDE DEF Mark, after
  <1>6. ASSUME NEW p \in Answerable(after)
        PROVE  p \in {x \in Answerable(rows) : x[1] # s} \cup {<<s, h>>}
    <2>1. PICK r \in rows : p = <<r.source, r.text>> /\ Mark(r).reviewed = "true"
      BY <1>3, <1>4 DEF Answerable
    <2>2. CASE r.source = s
      BY <2>1, <2>2, <1>2
    <2>3. CASE r.source # s
      BY <2>1, <2>3, <1>4 DEF Answerable
    <2>4. QED
      BY <2>2, <2>3
  <1>7. ASSUME NEW p \in Answerable(rows), p[1] # s
        PROVE  p \in Answerable(after)
    <2>1. PICK r \in rows : p = <<r.source, r.text>> /\ r.reviewed = "true"
      BY DEF Answerable
    <2>2. /\ Mark(r) \in after
          /\ p = <<Mark(r).source, Mark(r).text>>
          /\ Mark(r).reviewed = "true"
      BY <2>1, <1>3, <1>4, <1>7
    <2>3. QED
      BY <2>2 DEF Answerable
  <1>8. <<s, h>> \in Answerable(after)
    <2>1. PICK r \in rows : r.source = s
      BY <1>2 DEF RowsOf
    <2>2. /\ Mark(r) \in after
          /\ <<s, h>> = <<Mark(r).source, Mark(r).text>>
          /\ Mark(r).reviewed = "true"
      BY <2>1, <1>2, <1>3, <1>4
    <2>3. QED
      BY <2>2 DEF Answerable
  <1>9. QED
    BY <1>6, <1>7, <1>8 DEF after
=============================================================================
