-------------------------- MODULE ReviewGateProofs --------------------------
(***************************************************************************)
(* Theorems about ReviewGate, for every number of sources, versions,       *)
(* uploaders, sweepers and approvers.                                      *)
(***************************************************************************)
EXTENDS ReviewGate, ReviewQueue, ChunkStoreProofs, TLAPS

-----------------------------------------------------------------------------
(* The store operators. *)

\* Revision answers None or the one hash all rows carry.
LEMMA RevisionType == ASSUME NEW rows PROVE Revision(rows) \in TextOrNone
  BY DEF Revision, TextOrNone

-----------------------------------------------------------------------------
(* Type correctness *)

LEMMA InitTypeOK == Init => TypeOK
  BY ReviewGateAssumption, ChunkStoreAssumption
  DEF Init, TypeOK, CallsOK, UploadCalls, SweepCalls, ReviewCalls, Signoffs, Directories,
      Shelves, TextOrNone, SourceOrNone, NoUpload, NoSweep, NoReview

LEMMA ObserveSignedType ==
    ASSUME TypeOK, NEW signed, ObserveSigned(signed)
    PROVE  /\ crossed' \subseteq Uploads
           /\ overtaken' \subseteq Sweepers
           /\ calm' \in [Sweepers -> BOOLEAN]
  BY DEF ObserveSigned, TypeOK

LEMMA ObserveType ==
    TypeOK /\ Observe => /\ crossed' \subseteq Uploads
                        /\ overtaken' \subseteq Sweepers
                        /\ calm' \in [Sweepers -> BOOLEAN]
  BY ObserveSignedType DEF Observe

\* The part of TypeOK an upload call can disturb.
LEMMA UploadTypeOK ==
    ASSUME TypeOK, NEW u \in Uploaders, UploadStep(u)
    PROVE  TypeOK'
  <1>u. up \in [Uploaders -> UploadCalls]
    BY DEF TypeOK
  <1>1. ASSUME NEW s \in Uploads, NEW v \in Texts, UploadWrite(u, s, v)
        PROVE  TypeOK'
    <2>1. up' \in [Uploaders -> UploadCalls]
      BY <1>1, <1>u, ReviewGateAssumption
      DEF UploadWrite, UploadCalls, SourceOrNone, TextOrNone
    <2>2. CallsOK'
      BY <1>1, <1>u DEF UploadWrite, UploadCalls, CallsOK, TypeOK
    <2>3. file' \in [Sources -> TextOrNone] /\ writes' \in Nat /\ dirs' \subseteq Directories
      BY <1>1, ReviewGateAssumption DEF UploadWrite, TextOrNone, TypeOK, Directories
    <2>4. QED
      BY <1>1, <2>1, <2>2, <2>3, ObserveType DEF UploadWrite, TypeOK
  <1>2. CASE UploadDelete(u)
    <2>1. up' \in [Uploaders -> UploadCalls]
      BY <1>2, <1>u DEF UploadDelete, UploadCalls
    <2>2. CallsOK'
      BY <1>2, <1>u DEF UploadDelete, UploadCalls, CallsOK, TypeOK
    <2>3. QED
      BY <1>2, <2>1, <2>2, ObserveType DEF UploadDelete, TypeOK, DeleteSource
  <1>3. CASE UploadAdd(u)
    <2>1. up' \in [Uploaders -> UploadCalls]
      BY <1>3, <1>u DEF UploadAdd, NoUpload, UploadCalls, SourceOrNone, TextOrNone
    <2>2. CallsOK'
      BY <1>3, <1>u DEF UploadAdd, NoUpload, UploadCalls, CallsOK, TypeOK
    <2>3. store' \subseteq Rows
      <3>1. up[u].source \in Sources /\ up[u].text \in Texts
        BY <1>3, ReviewGateAssumption DEF UploadAdd, TypeOK, CallsOK
      <3>2. ChunkRows(up[u].source, up[u].text, "upload", "false") \subseteq Rows
        BY <3>1, ChunkRowsType DEF Origins
      <3>3. QED
        BY <3>2, <1>3, AddChunksType DEF UploadAdd, TypeOK
    <2>4. QED
      BY <1>3, <2>1, <2>2, <2>3, ObserveType DEF UploadAdd, TypeOK
  <1>4. CASE UploadFail(u)
    <2>1. up' \in [Uploaders -> UploadCalls]
      BY <1>4, <1>u DEF UploadFail, NoUpload, UploadCalls, SourceOrNone, TextOrNone
    <2>2. CallsOK'
      BY <1>4, <1>u DEF UploadFail, NoUpload, UploadCalls, CallsOK, TypeOK
    <2>3. QED
      BY <1>4, <2>1, <2>2, ObserveType DEF UploadFail, TypeOK
  <1>5. QED
    BY <1>1, <1>2, <1>3, <1>4 DEF UploadStep

LEMMA SweepTypeOK ==
    ASSUME TypeOK, NEW w \in Sweepers, SweepStep(w)
    PROVE  TypeOK'
  <1>w. sw \in [Sweepers -> SweepCalls]
    BY DEF TypeOK
  <1>1. CASE SweepList(w)
    <2>1. sw' \in [Sweepers -> SweepCalls]
      BY <1>1, <1>w, ReviewGateAssumption
      DEF SweepList, NextDirectory, SweepCalls, Directories, NoSweep, SourcesOf, SourceOrNone, TextOrNone
    <2>2. CallsOK'
      BY <1>1, <1>w, ReviewGateAssumption DEF SweepList, SweepCalls, CallsOK, TypeOK, NoSweep, SourcesOf, SourceOrNone, TextOrNone
    <2>3. QED
      BY <1>1, <2>1, <2>2, ObserveType DEF SweepList, TypeOK
  <1>2. ASSUME NEW s \in Sources, SweepRead(w, s)
        PROVE  TypeOK'
    <2>0. file[s] \in Texts
      BY <1>2 DEF SweepRead, TypeOK, TextOrNone
    <2>1. sw' \in [Sweepers -> SweepCalls]
      BY <1>2, <1>w, <2>0 DEF SweepRead, SweepCalls, SourceOrNone, TextOrNone
    <2>2. CallsOK'
      BY <1>2, <1>w, <2>0 DEF SweepRead, SweepCalls, CallsOK, TypeOK, SourceOrNone, TextOrNone
    <2>3. QED
      BY <1>2, <2>1, <2>2, ObserveType DEF SweepRead, TypeOK
  <1>3. ASSUME NEW s \in Sources, SweepSkip(w, s)
        PROVE  TypeOK'
    <2>1. sw' \in [Sweepers -> SweepCalls]
      BY <1>3, <1>w DEF SweepSkip, SweepCalls
    <2>2. CallsOK'
      BY <1>3, <1>w DEF SweepSkip, SweepCalls, CallsOK, TypeOK
    <2>3. QED
      BY <1>3, <2>1, <2>2, ObserveType DEF SweepSkip, TypeOK
  <1>4. CASE SweepDelete(w)
    <2>1. sw' \in [Sweepers -> SweepCalls]
      <3>1. [sw[w] EXCEPT !.pc = "add"] \in SweepCalls
        BY <1>w DEF SweepCalls
      <3>2. sw' = [sw EXCEPT ![w] = [sw[w] EXCEPT !.pc = "add"]]
        BY <1>4 DEF SweepDelete
      <3>3. QED
        BY <1>w, <3>1, <3>2
    <2>2. CallsOK'
      BY <1>4, <1>w DEF SweepDelete, SweepCalls, CallsOK, TypeOK
    <2>3. QED
      BY <1>4, <2>1, <2>2, ObserveType DEF SweepDelete, TypeOK, DeleteSource
  <1>5. CASE SweepAdd(w)
    <2>1. sw' \in [Sweepers -> SweepCalls]
      <3>1. None \in SourceOrNone /\ None \in TextOrNone
        BY DEF SourceOrNone, TextOrNone
      <3>2. QED
        BY <1>5, <1>w, <3>1 DEF SweepAdd, SweepCalls
    <2>2. CallsOK'
      BY <1>5, <1>w DEF SweepAdd, SweepCalls, CallsOK, TypeOK, SourceOrNone, TextOrNone
    <2>3. store' \subseteq Rows
      <3>1. ChunkRows(sw[w].source, sw[w].text, sw[w].origin, "absent") \subseteq Rows
        BY <1>5, <1>w, ChunkRowsType DEF SweepAdd, TypeOK, CallsOK, SweepCalls, Origins, Directories
      <3>2. QED
        BY <3>1, <1>5, AddChunksType DEF SweepAdd, TypeOK
    <2>4. QED
      BY <1>5, <2>1, <2>2, <2>3, ObserveType DEF SweepAdd, TypeOK
  <1>6. CASE SweepDiff(w)
    <2>0. Gone(w) \in SUBSET Sources
      BY DEF Gone, IndexedSources, Rows, TypeOK
    <2>1. sw' \in [Sweepers -> SweepCalls]
      <3>1. [sw[w] EXCEPT !.pc = "retract", !.todo = Gone(w)] \in SweepCalls
        BY <1>w, <2>0 DEF SweepCalls
      <3>2. sw' = [sw EXCEPT ![w] = [sw[w] EXCEPT !.pc = "retract", !.todo = Gone(w)]]
        BY <1>6 DEF SweepDiff
      <3>3. QED
        BY <1>w, <3>1, <3>2
    <2>2. CallsOK'
      BY <1>6, <1>w, <2>0 DEF SweepDiff, SweepCalls, CallsOK, TypeOK
    <2>3. QED
      BY <1>6, <2>1, <2>2, ObserveType DEF SweepDiff, TypeOK
  <1>7. ASSUME NEW s \in Sources, SweepRetract(w, s)
        PROVE  TypeOK'
    <2>1. sw' \in [Sweepers -> SweepCalls]
      BY <1>7, <1>w DEF SweepRetract, SweepCalls
    <2>2. CallsOK'
      BY <1>7, <1>w DEF SweepRetract, SweepCalls, CallsOK, TypeOK
    <2>3. QED
      BY <1>7, <2>1, <2>2, ObserveType DEF SweepRetract, TypeOK, DeleteSource
  <1>8. CASE SweepDone(w)
    <2>1. sw' \in [Sweepers -> SweepCalls]
      BY <1>8, <1>w DEF SweepDone, SweepCalls, Directories, NoSweep, SourceOrNone, TextOrNone
    <2>2. CallsOK'
      BY <1>8, <1>w DEF SweepDone, SweepCalls, CallsOK, TypeOK, NoSweep, SourceOrNone, TextOrNone
    <2>3. QED
      BY <1>8, <2>1, <2>2, ObserveType DEF SweepDone, TypeOK
  <1>9. CASE SweepFail(w)
    <2>1. sw' \in [Sweepers -> SweepCalls]
      BY <1>9, <1>w DEF SweepFail, SweepCalls, Directories, NoSweep, SourceOrNone, TextOrNone
    <2>2. CallsOK'
      BY <1>9, <1>w DEF SweepFail, SweepCalls, CallsOK, TypeOK, NoSweep, SourceOrNone, TextOrNone
    <2>3. QED
      BY <1>9, <2>1, <2>2, ObserveType DEF SweepFail, TypeOK
  <1>10. CASE SweepNothing(w)
    <2>1. sw' \in [Sweepers -> SweepCalls]
      BY <1>10, <1>w DEF SweepNothing, SweepCalls, Directories, NoSweep, SourceOrNone, TextOrNone
    <2>2. CallsOK'
      BY <1>10, <1>w DEF SweepNothing, SweepCalls, CallsOK, TypeOK, NoSweep, SourceOrNone, TextOrNone
    <2>3. QED
      BY <1>10, <2>1, <2>2, ObserveType DEF SweepNothing, TypeOK
  <1>11. QED
    BY <1>1, <1>2, <1>3, <1>4, <1>5, <1>6, <1>7, <1>8, <1>9, <1>10 DEF SweepStep

LEMMA ReviewTypeOK ==
    ASSUME TypeOK, NEW a \in Approvers, ReviewStep(a)
    PROVE  TypeOK'
  <1>a. ap \in [Approvers -> ReviewCalls]
    BY DEF TypeOK
  <1>n. NoReview \in ReviewCalls
    BY DEF NoReview, ReviewCalls, SourceOrNone, TextOrNone
  <1>1. ASSUME NEW s \in Sources, ReviewText(a, s)
        PROVE  TypeOK'
    <2>0. ShownTexts(RowsOf(store, s)) \in SUBSET Texts
      BY DEF ShownTexts, RowsOf, Rows, TypeOK
    <2>1. ap' \in [Approvers -> ReviewCalls]
      BY <1>1, <1>a, <2>0 DEF ReviewText, ReviewCalls, NoReview, SourceOrNone, TextOrNone
    <2>2. CallsOK'
      BY <1>1, <1>a DEF ReviewText, ReviewCalls, CallsOK, TypeOK, NoReview
    <2>3. QED
      BY <1>1, <2>1, <2>2, ObserveType DEF ReviewText, TypeOK
  <1>2. CASE ReviewRevision(a)
    <2>0. Revision(RowsOf(store, ap[a].source)) \in TextOrNone
      BY RevisionType
    <2>1. ap' \in [Approvers -> ReviewCalls]
      BY <1>2, <1>a, <2>0 DEF ReviewRevision, ReviewCalls
    <2>2. CallsOK'
      BY <1>2, <1>a DEF ReviewRevision, ReviewCalls, CallsOK, TypeOK
    <2>3. QED
      BY <1>2, <2>1, <2>2, ObserveType DEF ReviewRevision, TypeOK
  <1>3. CASE Approve(a)
    <2>0. ap[a].source \in Sources /\ ap[a].rev \in Texts /\ ap[a].shown \in SUBSET Texts
      <3>1. ap[a].rev \in Texts
        BY <1>3, CurrentRows DEF Approve
      <3>2. QED
        BY <1>3, <1>a, <3>1 DEF Approve, ReviewCalls, CallsOK, TypeOK
    <2>1. ap' \in [Approvers -> ReviewCalls]
      BY <1>3, <1>a, <1>n DEF Approve
    <2>2. CallsOK'
      BY <1>3, <1>a DEF Approve, ReviewCalls, CallsOK, TypeOK, NoReview
    <2>3. store' \subseteq Rows
      BY <2>0, <1>3, MarkReviewedType DEF Approve, TypeOK
    <2>4. signoffs' \subseteq Signoffs
      BY <2>0, <1>3 DEF Approve, Signoffs, TypeOK
    <2>5. QED
      BY <1>3, <2>1, <2>2, <2>3, <2>4, ObserveSignedType DEF Approve, TypeOK
  <1>4. CASE Reject(a)
    <2>0. ap[a].source \in Sources
      BY <1>4 DEF Reject, TypeOK, CallsOK
    <2>1. ap' \in [Approvers -> ReviewCalls]
      BY <1>4, <1>a, <2>0 DEF Reject, ReviewCalls, NoReview, SourceOrNone, TextOrNone
    <2>2. CallsOK'
      BY <1>4, <1>a, <2>0 DEF Reject, ReviewCalls, CallsOK, TypeOK, NoReview
    <2>3. QED
      BY <1>4, <2>1, <2>2, ObserveType DEF Reject, TypeOK, DeleteSource
  <1>5. CASE DecisionRefused(a)
    <2>1. ap' \in [Approvers -> ReviewCalls]
      BY <1>5, <1>a, <1>n DEF DecisionRefused
    <2>2. CallsOK'
      BY <1>5, <1>a DEF DecisionRefused, ReviewCalls, CallsOK, TypeOK, NoReview
    <2>3. QED
      BY <1>5, <2>1, <2>2, ObserveType DEF DecisionRefused, TypeOK
  <1>6. CASE QuarantineFile(a)
    <2>1. ap' \in [Approvers -> ReviewCalls]
      BY <1>6, <1>a, <1>n DEF QuarantineFile, ReviewCalls
    <2>2. CallsOK'
      <3>1. \A b \in Approvers \ {a} : ap'[b] = ap[b]
        BY <1>6 DEF QuarantineFile, TypeOK
      <3>2. ap[a].source \in Sources
        BY <1>6 DEF QuarantineFile, TypeOK, CallsOK
      <3>3. CASE ap[a].source \in Uploads /\ ap' = [ap EXCEPT ![a].pc = "place"]
        <4>1. ap'[a].pc = "place" /\ ap'[a].source = ap[a].source
          BY <1>a, <3>3 DEF ReviewCalls
        <4>2. QED
          BY <1>6, <3>1, <3>2, <3>3, <4>1 DEF QuarantineFile, CallsOK, TypeOK
      <3>4. CASE ap' = [ap EXCEPT ![a] = NoReview]
        <4>1. ap'[a].pc = "idle"
          BY <1>a, <3>4 DEF NoReview
        <4>2. QED
          BY <1>6, <3>1, <4>1 DEF QuarantineFile, CallsOK, TypeOK
      <3>5. QED
        BY <1>6, <3>3, <3>4 DEF QuarantineFile
    <2>3. QED
      BY <1>6, <2>1, <2>2, ObserveType DEF QuarantineFile, TypeOK
  <1>8. CASE QuarantinePlace(a)
    <2>0. quarantine[ap[a].source].own \in TextOrNone
      BY <1>8 DEF QuarantinePlace, TypeOK, CallsOK, Shelves
    <2>1. ap' \in [Approvers -> ReviewCalls]
      <3>1. [ap[a] EXCEPT !.pc = "move", !.dest = Destination(quarantine[ap[a].source])] \in ReviewCalls
        BY <1>a, <2>0 DEF Destination, ReviewCalls
      <3>2. ap' = [ap EXCEPT ![a] = [ap[a] EXCEPT !.pc = "move",
                                                  !.dest = Destination(quarantine[ap[a].source])]]
        BY <1>8 DEF QuarantinePlace
      <3>3. QED
        BY <1>a, <3>1, <3>2
    <2>2. CallsOK'
      BY <1>8, <1>a DEF QuarantinePlace, ReviewCalls, CallsOK, TypeOK
    <2>3. QED
      BY <1>8, <2>1, <2>2, ObserveType DEF QuarantinePlace, TypeOK
  <1>9. CASE QuarantineMove(a)
    <2>1. ap' \in [Approvers -> ReviewCalls]
      BY <1>9, <1>a, <1>n DEF QuarantineMove
    <2>2. CallsOK'
      BY <1>9, <1>a DEF QuarantineMove, ReviewCalls, CallsOK, TypeOK, NoReview
    <2>3. /\ file' \in [Sources -> TextOrNone]
          /\ quarantine' \in [Uploads -> Shelves]
          /\ moves' \in [Uploads -> Seq(Texts)]
      <3>1. CASE file[ap[a].source] # None
        <4> DEFINE s == ap[a].source
                   shelf == Shelved(quarantine[s], ap[a].dest, file[s])
        <4>1. /\ s \in Uploads /\ s \in Sources /\ file[s] \in Texts
              /\ ap[a].dest \in TextOrNone /\ quarantine[s] \in Shelves
          BY <3>1, <1>9, <1>a, ReviewGateAssumption
          DEF QuarantineMove, TypeOK, CallsOK, ReviewCalls, TextOrNone
        <4>2. shelf \in Shelves
          BY <4>1 DEF Shelved, Shelves, TextOrNone
        <4>3. /\ quarantine' = [quarantine EXCEPT ![s] = shelf]
              /\ file' = [file EXCEPT ![s] = None]
              /\ moves' = [moves EXCEPT ![s] = Append(moves[s], file[s])]
          BY <3>1, <1>9 DEF QuarantineMove
        <4> HIDE DEF shelf
        <4>4. quarantine' \in [Uploads -> Shelves]
          BY <4>2, <4>3 DEF TypeOK
        <4>5. file' \in [Sources -> TextOrNone]
          BY <4>1, <4>3 DEF TypeOK, TextOrNone
        <4>6. moves' \in [Uploads -> Seq(Texts)]
          <5>1. Append(moves[s], file[s]) \in Seq(Texts)
            BY <4>1 DEF TypeOK
          <5>2. QED
            BY <4>3, <5>1 DEF TypeOK
        <4>7. QED
          BY <4>4, <4>5, <4>6
      <3>2. CASE file[ap[a].source] = None
        BY <3>2, <1>9 DEF QuarantineMove, TypeOK
      <3>3. QED
        BY <3>1, <3>2
    <2>4. QED
      BY <1>9, <2>1, <2>2, <2>3, ObserveType DEF QuarantineMove, TypeOK
  <1>7. CASE ReviewFail(a)
    <2>1. ap' \in [Approvers -> ReviewCalls]
      BY <1>7, <1>a, <1>n DEF ReviewFail
    <2>2. CallsOK'
      BY <1>7, <1>a DEF ReviewFail, ReviewCalls, CallsOK, TypeOK, NoReview
    <2>3. QED
      BY <1>7, <2>1, <2>2, ObserveType DEF ReviewFail, TypeOK
  <1>10. QED
    BY <1>1, <1>2, <1>3, <1>4, <1>5, <1>6, <1>7, <1>8, <1>9 DEF ReviewStep

LEMMA NextTypeOK == TypeOK /\ [Next]_vars => TypeOK'
  <1> SUFFICES ASSUME TypeOK, [Next]_vars PROVE TypeOK'
    OBVIOUS
  <1>1. ASSUME NEW s \in Curated, NEW v \in TextOrNone, HostEdit(s, v)
        PROVE  TypeOK'
    <2>1. CallsOK'
      BY <1>1 DEF HostEdit, CallsOK, TypeOK
    <2>2. file' \in [Sources -> TextOrNone] /\ writes' \in Nat /\ dirs' \subseteq Directories
      BY <1>1, ReviewGateAssumption DEF HostEdit, TypeOK, Directories
    <2>3. QED
      BY <1>1, <2>1, <2>2, ObserveType DEF HostEdit, TypeOK
  <1>2. CASE Restart
    <2>1. /\ up' \in [Uploaders -> UploadCalls]
          /\ sw' \in [Sweepers -> SweepCalls]
          /\ ap' \in [Approvers -> ReviewCalls]
      BY <1>2 DEF Restart, NoUpload, NoSweep, NoReview, UploadCalls, SweepCalls,
                  ReviewCalls, Directories, SourceOrNone, TextOrNone
    <2>2. CallsOK'
      BY <1>2 DEF Restart, NoUpload, NoSweep, NoReview, CallsOK
    <2>3. QED
      BY <1>2, <2>1, <2>2, ObserveType DEF Restart, TypeOK
  <1>3. CASE UNCHANGED vars
    BY <1>3 DEF vars, TypeOK, CallsOK
  <1>4. ASSUME NEW o \in Directories, HostRemove(o)
        PROVE  TypeOK'
    <2>1. CallsOK'
      BY <1>4 DEF HostRemove, CallsOK, TypeOK
    <2>2. file' \in [Sources -> TextOrNone] /\ writes' \in Nat /\ dirs' \subseteq Directories
      BY <1>4 DEF HostRemove, TypeOK, TextOrNone
    <2>3. QED
      BY <1>4, <2>1, <2>2, ObserveType DEF HostRemove, TypeOK
  <1>5. QED
    BY <1>1, <1>2, <1>3, <1>4, UploadTypeOK, SweepTypeOK, ReviewTypeOK DEF Next

\* Every variable of the gate keeps its type, and a call that is past its
\* first step always knows the source and the version it works on.
THEOREM GateTypeOK == Spec => []TypeOK
  BY InitTypeOK, NextTypeOK, PTL DEF Spec

-----------------------------------------------------------------------------
(* What one step of any call does to the store *)

StoreKept == store' = store /\ signoffs' = signoffs

StoreDelete == \E s \in Sources :
    store' = DeleteSource(store, s) /\ signoffs' = signoffs

StoreAdd == \E s \in Sources, v \in Texts, o \in Origins, rs \in {"absent", "false"} :
    /\ store' = AddChunks(store, ChunkRows(s, v, o, rs))
    /\ signoffs' = signoffs
    /\ rs = "absent" => \E w \in Sweepers :
          sw[w].pc = "add" /\ sw[w].source = s /\ sw[w].text = v /\ sw'[w] # sw[w]

StoreSign == \E s \in Sources, h \in Texts, sh \in SUBSET Texts :
    /\ IsCurrent(store, s, h)
    /\ store' = MarkReviewed(store, s, h)
    /\ signoffs' = signoffs \cup {[source |-> s, rev |-> h, shown |-> sh]}
    /\ \A w \in Sweepers : sw'[w].pc = "add" /\ sw[w].source = s => w \in overtaken'

StoreStep == StoreKept \/ StoreDelete \/ StoreAdd \/ StoreSign

LEMMA NextStoreStep == TypeOK /\ [Next]_vars => StoreStep
  <1> SUFFICES ASSUME TypeOK, [Next]_vars PROVE StoreStep
    OBVIOUS
  <1>1. ASSUME NEW u \in Uploaders, UploadStep(u) PROVE StoreStep
    <2>1. ASSUME up[u].pc # "idle" PROVE up[u].source \in Sources /\ up[u].text \in Texts
      BY <2>1, ReviewGateAssumption DEF TypeOK, CallsOK
    <2>2. CASE UploadDelete(u)
      BY <2>1, <2>2 DEF UploadDelete, StoreStep, StoreDelete
    <2>3. CASE UploadAdd(u)
      BY <2>1, <2>3 DEF UploadAdd, StoreStep, StoreAdd, Origins
    <2>4. CASE UploadFail(u) \/ \E s \in Uploads, v \in Texts : UploadWrite(u, s, v)
      BY <2>4 DEF UploadFail, UploadWrite, StoreStep, StoreKept
    <2>5. QED
      BY <1>1, <2>2, <2>3, <2>4 DEF UploadStep
  <1>2. ASSUME NEW w \in Sweepers, SweepStep(w) PROVE StoreStep
    <2>1. ASSUME sw[w].pc \in {"delete", "add"}
          PROVE  /\ sw[w].source \in Sources
                 /\ sw[w].text \in Texts
                 /\ sw[w].origin \in Origins
      BY <2>1 DEF TypeOK, CallsOK, SweepCalls, Origins, Directories
    <2>2. CASE SweepDelete(w)
      BY <2>1, <2>2 DEF SweepDelete, StoreStep, StoreDelete
    <2>3. CASE SweepAdd(w)
      <3>1. sw'[w].pc = "file"
        BY <2>3 DEF SweepAdd, TypeOK
      <3>2. /\ sw[w].pc = "add" /\ sw'[w] # sw[w]
            /\ store' = AddChunks(store, ChunkRows(sw[w].source, sw[w].text, sw[w].origin, "absent"))
            /\ signoffs' = signoffs
        BY <2>3, <3>1 DEF SweepAdd
      <3>3. QED
        BY <2>1, <3>2 DEF StoreStep, StoreAdd
    <2>4. ASSUME NEW s \in Sources, SweepRetract(w, s) PROVE StoreStep
      BY <2>4 DEF SweepRetract, StoreStep, StoreDelete
    <2>5. CASE \/ SweepList(w) \/ SweepNothing(w) \/ SweepDiff(w) \/ SweepDone(w) \/ SweepFail(w)
               \/ \E s \in Sources : SweepRead(w, s) \/ SweepSkip(w, s)
      BY <2>5 DEF SweepList, SweepNothing, SweepDiff, SweepDone, SweepFail, SweepRead, SweepSkip,
                  StoreStep, StoreKept
    <2>6. QED
      BY <1>2, <2>2, <2>3, <2>4, <2>5 DEF SweepStep
  <1>3. ASSUME NEW a \in Approvers, ReviewStep(a) PROVE StoreStep
    <2>1. ASSUME ap[a].pc # "idle"
          PROVE  ap[a].source \in Sources /\ ap[a].shown \in SUBSET Texts
      BY <2>1 DEF TypeOK, CallsOK, ReviewCalls
    <2>2. CASE Approve(a)
      <3>1. ap[a].rev \in Texts
        BY <2>2, CurrentRows DEF Approve
      <3>2. QED
        BY <2>1, <2>2, <3>1 DEF Approve, ObserveSigned, StoreStep, StoreSign
    <2>3. CASE Reject(a)
      BY <2>1, <2>3 DEF Reject, StoreStep, StoreDelete
    <2>4. CASE \/ ReviewRevision(a) \/ DecisionRefused(a) \/ ReviewFail(a)
               \/ QuarantineFile(a) \/ QuarantinePlace(a) \/ QuarantineMove(a)
               \/ \E s \in Sources : ReviewText(a, s)
      BY <2>4 DEF ReviewRevision, DecisionRefused, QuarantineFile, QuarantinePlace,
                  QuarantineMove, ReviewFail, ReviewText, StoreStep, StoreKept
    <2>5. QED
      BY <1>3, <2>2, <2>3, <2>4 DEF ReviewStep
  <1>4. CASE \/ Restart \/ UNCHANGED vars
             \/ \E s \in Curated, v \in TextOrNone : HostEdit(s, v)
             \/ \E o \in Directories : HostRemove(o)
    BY <1>4 DEF Restart, vars, HostEdit, HostRemove, StoreStep, StoreKept
  <1>5. QED
    BY <1>1, <1>2, <1>3, <1>4 DEF Next

-----------------------------------------------------------------------------
(* Trust *)

\* Whatever a step that signs nothing off leaves reviewed was reviewed before it,
\* under the same hash: an upsert hands approvals on, it makes none.
LEMMA ApprovalsAreOld ==
    ASSUME StoreKept \/ StoreDelete \/ StoreAdd, NEW r \in store', r.reviewed = "true"
    PROVE  \E q \in store : q.source = r.source /\ q.reviewed = "true" /\ q.signed = r.signed
  <1>1. CASE StoreKept
    BY <1>1 DEF StoreKept
  <1>2. CASE StoreDelete
    BY <1>2 DEF StoreDelete, DeleteSource
  <1>3. CASE StoreAdd
    BY <1>3, AddedRows DEF StoreAdd
  <1>4. QED
    BY <1>1, <1>2, <1>3

\* A sign-off gives its hash to every row of its source and touches no other.
LEMMA SignedRows ==
    ASSUME TypeOK, NEW s \in Sources, NEW h \in Texts,
           store' = MarkReviewed(store, s, h), NEW r \in store'
    PROVE  \/ r \in store /\ r.source # s
           \/ r.source = s /\ r.signed = h
  <1>1. PICK q \in store :
          r = IF q.source = s THEN [q EXCEPT !.reviewed = "true", !.signed = h] ELSE q
    BY DEF MarkReviewed
  <1>2. q \in Rows
    BY DEF TypeOK
  <1>3. QED
    BY <1>1, <1>2 DEF Rows

LEMMA TrustStep ==
    ASSUME TypeOK, TrustRestsOnOneSignoff, StoreStep
    PROVE  TrustRestsOnOneSignoff'
  <1>1. CASE StoreKept \/ StoreDelete \/ StoreAdd
    <2>1. signoffs' = signoffs
      BY <1>1 DEF StoreKept, StoreDelete, StoreAdd
    <2>2. QED
      BY <1>1, <2>1, ApprovalsAreOld DEF TrustRestsOnOneSignoff
  <1>2. CASE StoreSign
    <2>1. PICK s \in Sources, h \in Texts, sh \in SUBSET Texts :
            /\ store' = MarkReviewed(store, s, h)
            /\ signoffs' = signoffs \cup {[source |-> s, rev |-> h, shown |-> sh]}
      BY <1>2 DEF StoreSign
    <2>2. \A r \in store' : (r \in store /\ r.source # s) \/ (r.source = s /\ r.signed = h)
      BY <2>1, SignedRows
    <2>3. \E g \in signoffs' : g.source = s /\ g.rev = h
      <3>1. [source |-> s, rev |-> h, shown |-> sh] \in signoffs'
        BY <2>1
      <3>2. QED
        BY <3>1
    <2>4. signoffs \subseteq signoffs'
      BY <2>1
    <2>5. ASSUME NEW r \in store', r.reviewed = "true"
          PROVE  /\ \E g \in signoffs' : g.source = r.source /\ g.rev = r.signed
                 /\ \A q \in store' : q.source = r.source /\ q.reviewed = "true"
                                        => q.signed = r.signed
      <3>1. CASE r.source = s
        BY <2>2, <2>3, <3>1
      <3>2. CASE r.source # s
        BY <2>2, <2>4, <2>5, <3>2 DEF TrustRestsOnOneSignoff
      <3>3. QED
        BY <3>1, <3>2
    <2>6. QED
      BY <2>5 DEF TrustRestsOnOneSignoff
  <1>3. QED
    BY <1>1, <1>2 DEF StoreStep

\* Under every interleaving of any number of uploads, sweeps, reviews, failures and
\* restarts, and with Chroma's merging upsert: what is reviewed carries the hash of
\* a sign-off of its source, and all that is reviewed of one source the same hash.
THEOREM GateTrust == Spec => []TrustRestsOnOneSignoff
  <1>1. Init => TrustRestsOnOneSignoff
    BY DEF Init, TrustRestsOnOneSignoff
  <1>2. TypeOK /\ TrustRestsOnOneSignoff /\ [Next]_vars => TrustRestsOnOneSignoff'
    BY NextStoreStep, TrustStep
  <1>3. QED
    BY <1>1, <1>2, GateTypeOK, PTL DEF Spec

-----------------------------------------------------------------------------
(* Complete documents *)

\* The inductive form of AgreementMeansComplete: the version written last is
\* there in full, and any other version has only chunks beyond its end.
Whole(rows, s) == \E h \in Texts :
    /\ NumChunks[h] > 0
    /\ \A i \in 0 .. NumChunks[h] - 1 :
          \E r \in rows : r.source = s /\ r.index = i /\ r.text = h
    /\ \A r \in rows : r.source = s /\ r.index < NumChunks[h] => r.text = h

InRange(rows) == \A r \in rows : r.index < NumChunks[r.text]

WholeInv ==
    /\ InRange(store)
    /\ \A s \in Sources : RowsOf(store, s) = {} \/ Whole(store, s)

\* An upsert puts every new chunk in place and keeps only rows of other ids.
LEMMA AddedShape ==
    ASSUME NEW rows \in SUBSET Rows, NEW new \in SUBSET Rows
    PROVE  /\ \A r \in AddChunks(rows, new) :
                 \/ r \in rows /\ \A n \in new : ~SameId(r, n)
                 \/ \E n \in new : SameId(r, n) /\ r.text = n.text
           /\ \A n \in new : \E r \in AddChunks(rows, new) : SameId(r, n) /\ r.text = n.text
  <1>1. ASSUME NEW old \in Rows, NEW n \in Rows
        PROVE  SameId(Overwrite(old, n), n) /\ Overwrite(old, n).text = n.text
    BY DEF Overwrite, Rows, SameId
  <1>2. ASSUME NEW r \in AddChunks(rows, new)
        PROVE  \/ r \in rows /\ \A n \in new : ~SameId(r, n)
               \/ \E n \in new : SameId(r, n) /\ r.text = n.text
    <2>1. CASE \E p \in {q \in rows \X new : SameId(q[1], q[2])} : r = Overwrite(p[1], p[2])
      BY <2>1, <1>1
    <2>2. CASE r \in new
      BY <2>2 DEF SameId
    <2>3. QED
      BY <1>2, <2>1, <2>2 DEF AddChunks
  <1>3. ASSUME NEW n \in new
        PROVE  \E r \in AddChunks(rows, new) : SameId(r, n) /\ r.text = n.text
    <2>1. CASE \A q \in rows : ~SameId(q, n)
      <3>1. n \in AddChunks(rows, new)
        BY <2>1 DEF AddChunks, SameId
      <3>2. QED
        BY <3>1 DEF SameId
    <2>2. CASE \E q \in rows : SameId(q, n)
      <3>1. PICK q \in rows : SameId(q, n)
        BY <2>2
      <3>2. Overwrite(q, n) \in AddChunks(rows, new)
        <4>1. <<q, n>> \in {p \in rows \X new : SameId(p[1], p[2])}
          BY <3>1
        <4>2. QED
          BY <4>1 DEF AddChunks
      <3>3. QED
        BY <3>1, <3>2, <1>1
    <2>3. QED
      BY <2>1, <2>2
  <1>4. QED
    BY <1>2, <1>3

LEMMA WholeAdd ==
    ASSUME TypeOK, WholeInv,
           NEW s \in Sources, NEW v \in Texts, NEW o \in Origins,
           NEW rs \in {"absent", "false"},
           store' = AddChunks(store, ChunkRows(s, v, o, rs))
    PROVE  WholeInv'
  <1> DEFINE new == ChunkRows(s, v, o, rs)
  <1>n. NumChunks[v] \in Nat
    BY ChunkStoreAssumption
  <1>1. new \in SUBSET Rows /\ store \in SUBSET Rows
    BY ChunkRowsType DEF TypeOK
  <1>2. \A n \in new : n.source = s /\ n.text = v /\ n.index \in 0 .. NumChunks[v] - 1
    BY DEF ChunkRows
  <1>3. \A i \in 0 .. NumChunks[v] - 1 : \E n \in new : n.index = i
    <2>1. ASSUME NEW i \in 0 .. NumChunks[v] - 1
          PROVE  \E n \in new : n.index = i
      <3>1. [source |-> s, index |-> i, text |-> v, origin |-> o,
             reviewed |-> rs, signed |-> None] \in new
        BY DEF ChunkRows
      <3>2. QED
        BY <3>1
    <2>2. QED
      BY <2>1
  <1>4. \A r \in store' : \/ r \in store /\ \A n \in new : ~SameId(r, n)
                          \/ \E n \in new : SameId(r, n) /\ r.text = n.text
    BY <1>1, AddedShape
  <1>5. \A n \in new : \E r \in store' : SameId(r, n) /\ r.text = n.text
    BY ZenonT(30), <1>1, AddedShape
  <1>6. InRange(store')
    BY <1>2, <1>4, <1>n DEF InRange, WholeInv, SameId
  <1>7. ASSUME NEW t \in Sources
        PROVE  RowsOf(store', t) = {} \/ Whole(store', t)
    <2>1. CASE t # s \/ NumChunks[v] = 0
      <3>1. \A n \in new : n.source # t
        BY <2>1, <1>2, <1>n
      <3>2. \A r : r.source = t => (r \in store' <=> r \in store)
        <4>1. ASSUME NEW r, r.source = t, r \in store'
              PROVE  r \in store
          BY <4>1, <3>1, <1>4 DEF SameId
        <4>2. ASSUME NEW r, r.source = t, r \in store
              PROVE  r \in store'
          BY <4>2, <3>1 DEF AddChunks, SameId
        <4>3. QED
          BY <4>1, <4>2
      <3>3. CASE RowsOf(store, t) = {}
        BY <3>2, <3>3 DEF RowsOf
      <3>4. CASE Whole(store, t)
        BY <3>2, <3>4 DEF Whole
      <3>5. QED
        BY <3>3, <3>4 DEF WholeInv
    <2>2. CASE t = s /\ NumChunks[v] > 0
      <3>1. \A i \in 0 .. NumChunks[v] - 1 :
               \E r \in store' : r.source = s /\ r.index = i /\ r.text = v
        BY <1>2, <1>3, <1>5 DEF SameId
      <3>2. ASSUME NEW r \in store', r.source = s, r.index < NumChunks[v]
            PROVE  r.text = v
        <4>1. CASE \E n \in new : SameId(r, n) /\ r.text = n.text
          BY <4>1, <1>2
        <4>2. CASE r \in store /\ \A n \in new : ~SameId(r, n)
          <5>1. r.index \in 0 .. NumChunks[v] - 1
            BY <4>2, <3>2, <1>n, <1>1 DEF Rows
          <5>2. QED
            BY <4>2, <5>1, <1>2, <1>3, <3>2 DEF SameId
        <4>3. QED
          BY <4>1, <4>2, <1>4
      <3>3. QED
        BY <2>2, <3>1, <3>2 DEF Whole
    <2>3. QED
      BY <2>1, <2>2, <1>n
  <1>8. QED
    BY <1>6, <1>7 DEF WholeInv

LEMMA WholeSign ==
    ASSUME TypeOK, WholeInv, NEW s \in Sources, NEW h \in Texts,
           store' = MarkReviewed(store, s, h)
    PROVE  WholeInv'
  <1> DEFINE Mark(r) == IF r.source = s
                        THEN [r EXCEPT !.reviewed = "true", !.signed = h] ELSE r
  <1>1. store' = {Mark(r) : r \in store}
    BY DEF MarkReviewed
  <1>2. \A r \in store : /\ Mark(r).source = r.source
                         /\ Mark(r).index = r.index
                         /\ Mark(r).text = r.text
    BY DEF TypeOK, Rows
  <1> HIDE DEF Mark
  <1>3. InRange(store')
    BY <1>1, <1>2 DEF InRange, WholeInv
  <1>4. ASSUME NEW t \in Sources
        PROVE  RowsOf(store', t) = {} \/ Whole(store', t)
    <2>1. CASE RowsOf(store, t) = {}
      BY <2>1, <1>1, <1>2 DEF RowsOf
    <2>2. CASE Whole(store, t)
      BY <2>2, <1>1, <1>2 DEF Whole
    <2>3. QED
      BY <2>1, <2>2 DEF WholeInv
  <1>5. QED
    BY <1>3, <1>4 DEF WholeInv

LEMMA WholeStep == TypeOK /\ WholeInv /\ StoreStep => WholeInv'
  <1> SUFFICES ASSUME TypeOK, WholeInv, StoreStep PROVE WholeInv'
    OBVIOUS
  <1>1. CASE StoreKept
    BY <1>1 DEF StoreKept, WholeInv, InRange, Whole, RowsOf
  <1>2. CASE StoreDelete
    <2>1. PICK s \in Sources : store' = DeleteSource(store, s)
      BY <1>2 DEF StoreDelete
    <2>2. InRange(store')
      BY <2>1 DEF WholeInv, InRange, DeleteSource
    <2>3. ASSUME NEW t \in Sources
          PROVE  RowsOf(store', t) = {} \/ Whole(store', t)
      <3>1. CASE t = s
        BY <3>1, <2>1 DEF DeleteSource, RowsOf
      <3>2. CASE t # s
        <4>1. \A r : r.source = t => (r \in store' <=> r \in store)
          BY <3>2, <2>1 DEF DeleteSource, RowsOf
        <4>2. CASE RowsOf(store, t) = {}
          BY <4>1, <4>2 DEF RowsOf
        <4>3. CASE Whole(store, t)
          BY <4>1, <4>3 DEF Whole
        <4>4. QED
          BY <4>2, <4>3 DEF WholeInv
      <3>3. QED
        BY <3>1, <3>2
    <2>4. QED
      BY <2>2, <2>3 DEF WholeInv
  <1>3. CASE StoreAdd
    BY <1>3, WholeAdd DEF StoreAdd
  <1>4. CASE StoreSign
    BY <1>4, WholeSign DEF StoreSign
  <1>5. QED
    BY <1>1, <1>2, <1>3, <1>4 DEF StoreStep

LEMMA WholeImplies == TypeOK /\ WholeInv => AgreementMeansComplete
  <1> SUFFICES ASSUME TypeOK, WholeInv, NEW s \in Sources,
                      Revision(RowsOf(store, s)) # None
               PROVE  {r.index : r \in RowsOf(store, s)}
                        = 0 .. NumChunks[Revision(RowsOf(store, s))] - 1
    BY DEF AgreementMeansComplete
  <1> DEFINE h == Revision(RowsOf(store, s))
  <1>1. h \in Texts /\ HashesAgree(RowsOf(store, s), h)
    BY DEF Revision
  <1>2. RowsOf(store, s) # {} /\ \A r \in store : r.source = s => r.text = h
    BY <1>1 DEF HashesAgree, RowsOf
  <1> HIDE DEF h
  <1>3. PICK g \in Texts :
          /\ NumChunks[g] > 0
          /\ \A i \in 0 .. NumChunks[g] - 1 :
                \E r \in store : r.source = s /\ r.index = i /\ r.text = g
    BY <1>2 DEF WholeInv, Whole
  <1>4. NumChunks[g] \in Nat
    BY ChunkStoreAssumption
  <1>5. g = h
    <2>1. 0 \in 0 .. NumChunks[g] - 1
      BY <1>3, <1>4
    <2>2. QED
      BY <2>1, <1>2, <1>3
  <1>6. \A r \in RowsOf(store, s) : r.index \in 0 .. NumChunks[h] - 1
    BY <1>2, <1>4, <1>5 DEF RowsOf, WholeInv, InRange, TypeOK, Rows
  <1>7. \A i \in 0 .. NumChunks[h] - 1 : \E r \in RowsOf(store, s) : r.index = i
    BY <1>3, <1>5 DEF RowsOf
  <1>8. {r.index : r \in RowsOf(store, s)} = 0 .. NumChunks[h] - 1
    BY <1>6, <1>7
  <1>9. QED
    BY <1>8 DEF h

\* Chunks that agree on a hash are the whole document: delete and add are separate
\* critical sections, but each add is one, and what an interrupted or overtaken _index leaves behind
\* either disagrees or is gone.
THEOREM GateComplete == Spec => []AgreementMeansComplete
  <1>1. Init => WholeInv
    BY DEF Init, WholeInv, InRange, RowsOf
  <1>2. TypeOK /\ WholeInv /\ [Next]_vars => WholeInv'
    BY NextStoreStep, WholeStep
  <1>3. QED
    BY <1>1, <1>2, WholeImplies, GateTypeOK, PTL DEF Spec

-----------------------------------------------------------------------------
(* Refinement *)

Signed(log) == {<<g.source, g.rev>> : g \in log}

LEMMA SignStep ==
    ASSUME TypeOK, StoreSign
    PROVE  \E s \in Sources, h \in Texts :
              /\ Signed(signoffs') = Signed(signoffs) \cup {<<s, h>>}
              /\ Answerable(store') = {p \in Answerable(store) : p[1] # s} \cup {<<s, h>>}
  <1>1. PICK s \in Sources, h \in Texts, sh \in SUBSET Texts :
          /\ IsCurrent(store, s, h)
          /\ store' = MarkReviewed(store, s, h)
          /\ signoffs' = signoffs \cup {[source |-> s, rev |-> h, shown |-> sh]}
    BY DEF StoreSign
  <1>2. Signed(signoffs') = Signed(signoffs) \cup {<<s, h>>}
    <2> DEFINE g0 == [source |-> s, rev |-> h, shown |-> sh]
    <2>1. g0.source = s /\ g0.rev = h
      OBVIOUS
    <2> HIDE DEF g0
    <2>2. signoffs' = signoffs \cup {g0}
      BY <1>1 DEF g0
    <2>3. QED
      BY <2>1, <2>2 DEF Signed
  <1>3. Answerable(store') = {p \in Answerable(store) : p[1] # s} \cup {<<s, h>>}
    <2>1. store \in SUBSET Rows
      BY DEF TypeOK
    <2>2. QED
      BY <1>1, <2>1, MarkedAnswers
  <1>4. QED
    BY <1>2, <1>3

\* A sweep about to add a source that has reviewed chunks was overtaken: its delete
\* left none, so they were signed off since.
OvertakenInv ==
    \A w \in Sweepers :
        sw[w].pc = "add" /\ (\E r \in store : r.source = sw[w].source /\ r.reviewed = "true")
            => w \in overtaken

\* Every step is observed.
LEMMA NextObserves == Next => \E signed : ObserveSigned(signed)
  <1> SUFFICES ASSUME Next PROVE \E signed : ObserveSigned(signed)
    OBVIOUS
  <1>1. Observe => \E signed : ObserveSigned(signed)
    BY DEF Observe
  <1>2. CASE \E u \in Uploaders : UploadStep(u)
    BY <1>1, <1>2 DEF UploadStep, UploadWrite, UploadDelete, UploadAdd, UploadFail
  <1>3. ASSUME NEW x \in Sweepers, SweepStep(x) PROVE Observe
    <2>1. CASE \E s \in Sources : SweepRead(x, s) \/ SweepSkip(x, s) \/ SweepRetract(x, s)
      BY <2>1 DEF SweepRead, SweepSkip, SweepRetract
    <2>2. CASE SweepList(x) \/ SweepNothing(x) \/ SweepDelete(x) \/ SweepAdd(x)
      BY <2>2 DEF SweepList, SweepNothing, SweepDelete, SweepAdd
    <2>3. CASE SweepDiff(x) \/ SweepDone(x) \/ SweepFail(x)
      BY <2>3 DEF SweepDiff, SweepDone, SweepFail
    <2>4. QED
      BY <1>3, <2>1, <2>2, <2>3 DEF SweepStep
  <1>4. ASSUME NEW a \in Approvers, ReviewStep(a), ~Approve(a) PROVE Observe
    <2>1. CASE \/ ReviewRevision(a) \/ Reject(a) \/ DecisionRefused(a) \/ ReviewFail(a)
               \/ \E s \in Sources : ReviewText(a, s)
      BY <2>1 DEF ReviewText, ReviewRevision, Reject, DecisionRefused, ReviewFail
    <2>2. CASE QuarantineFile(a) \/ QuarantinePlace(a) \/ QuarantineMove(a)
      BY <2>2 DEF QuarantineFile, QuarantinePlace, QuarantineMove
    <2>3. QED
      BY <1>4, <2>1, <2>2 DEF ReviewStep
  <1>5. ASSUME NEW a \in Approvers, Approve(a) PROVE \E signed : ObserveSigned(signed)
    BY <1>5 DEF Approve
  <1>6. CASE \/ Restart \/ \E s \in Curated, v \in TextOrNone : HostEdit(s, v)
             \/ \E o \in Directories : HostRemove(o)
    BY <1>1, <1>6 DEF Restart, HostEdit, HostRemove
  <1>7. QED
    BY <1>1, <1>2, <1>3, <1>4, <1>5, <1>6 DEF Next

\* A sweep that is about to add was so before, or has just deleted.
LEMMA AboutToAdd ==
    ASSUME TypeOK, [Next]_vars, NEW w \in Sweepers, sw'[w].pc = "add"
    PROVE  sw'[w] = sw[w] \/ SweepDelete(w)
  <1>0. sw \in [Sweepers -> SweepCalls]
    BY DEF TypeOK
  <1>1. ASSUME SweepStep(w) PROVE sw'[w] = sw[w] \/ SweepDelete(w)
    <2>1. ~\E s \in Sources : SweepRead(w, s) \/ SweepSkip(w, s) \/ SweepRetract(w, s)
      <3>1. ASSUME NEW s \in Sources, SweepRead(w, s) PROVE sw'[w].pc = "delete"
        BY <1>0, <3>1 DEF SweepRead, SweepCalls
      <3>2. ASSUME NEW s \in Sources, SweepSkip(w, s) PROVE sw'[w].pc = "file"
        BY <1>0, <3>2 DEF SweepSkip, SweepCalls
      <3>3. ASSUME NEW s \in Sources, SweepRetract(w, s) PROVE sw'[w].pc = "retract"
        BY <1>0, <3>3 DEF SweepRetract, SweepCalls
      <3>4. QED
        BY <3>1, <3>2, <3>3
    <2>2. ~SweepList(w) /\ ~SweepNothing(w) /\ ~SweepAdd(w)
      <3>1. ASSUME SweepList(w) PROVE sw'[w].pc = "file"
        BY <1>0, <3>1 DEF SweepList, NoSweep
      <3>2. ASSUME SweepNothing(w) PROVE sw'[w].pc \in {"next", "idle"}
        BY <1>0, <3>2 DEF SweepNothing, NoSweep
      <3>3. ASSUME SweepAdd(w) PROVE sw'[w].pc = "file"
        BY <1>0, <3>3 DEF SweepAdd
      <3>4. QED
        BY <3>1, <3>2, <3>3
    <2>3. ~SweepDiff(w) /\ ~SweepDone(w) /\ ~SweepFail(w)
      BY DEF SweepDiff, SweepDone, SweepFail, NoSweep, TypeOK, SweepCalls
    <2>4. QED
      BY <1>1, <2>1, <2>2, <2>3 DEF SweepStep
  <1>2. ASSUME NEW x \in Sweepers, x # w, SweepStep(x) PROVE sw'[w] = sw[w]
    <2>1. CASE \E s \in Sources : SweepRead(x, s) \/ SweepSkip(x, s) \/ SweepRetract(x, s)
      BY <1>2, <2>1 DEF SweepRead, SweepSkip, SweepRetract, TypeOK
    <2>2. CASE SweepList(x) \/ SweepNothing(x) \/ SweepDelete(x) \/ SweepAdd(x)
      BY <1>2, <2>2 DEF SweepList, SweepNothing, SweepDelete, SweepAdd, TypeOK
    <2>3. CASE SweepDiff(x) \/ SweepDone(x) \/ SweepFail(x)
      BY <1>2, <2>3 DEF SweepDiff, SweepDone, SweepFail, TypeOK
    <2>4. QED
      BY <1>2, <2>1, <2>2, <2>3 DEF SweepStep
  <1>3. CASE \E u \in Uploaders : UploadStep(u)
    BY <1>3 DEF UploadStep, UploadWrite, UploadDelete, UploadAdd, UploadFail
  <1>4. CASE \E a \in Approvers : ReviewStep(a)
    BY <1>4 DEF ReviewStep, ReviewText, ReviewRevision, Approve, Reject, DecisionRefused,
                QuarantineFile, QuarantinePlace, QuarantineMove, ReviewFail
  <1>5. CASE Restart
    BY <1>5 DEF Restart, NoSweep
  <1>6. CASE \/ UNCHANGED vars \/ \E s \in Curated, v \in TextOrNone : HostEdit(s, v)
             \/ \E o \in Directories : HostRemove(o)
    BY <1>6 DEF vars, HostEdit, HostRemove
  <1>7. QED
    BY <1>1, <1>2, <1>3, <1>4, <1>5, <1>6 DEF Next

LEMMA OvertakenStep ==
    ASSUME TypeOK, OvertakenInv, [Next]_vars
    PROVE  OvertakenInv'
  <1> SUFFICES ASSUME NEW w \in Sweepers, sw'[w].pc = "add",
                      NEW r \in store', r.source = sw'[w].source, r.reviewed = "true"
               PROVE  w \in overtaken'
    BY DEF OvertakenInv
  <1>1. ASSUME w \in overtaken PROVE w \in overtaken'
    <2>1. CASE UNCHANGED vars
      BY <1>1, <2>1 DEF vars
    <2>2. CASE Next
      BY <1>1, <2>2, NextObserves DEF ObserveSigned
    <2>3. QED
      BY <2>1, <2>2
  <1>2. CASE SweepDelete(w)
    <2>1. sw'[w].source = sw[w].source
      BY <1>2 DEF SweepDelete, TypeOK, SweepCalls
    <2>2. QED
      BY <1>2, <2>1 DEF SweepDelete, DeleteSource, RowsOf
  <1>3. CASE sw'[w] = sw[w]
    <2>1. StoreStep
      BY NextStoreStep
    <2>2. CASE StoreKept \/ StoreDelete \/ StoreAdd
      BY <1>1, <1>3, <2>2, ApprovalsAreOld DEF OvertakenInv
    <2>3. CASE StoreSign
      <3>1. PICK s \in Sources, h \in Texts :
              /\ store' = MarkReviewed(store, s, h)
              /\ sw'[w].pc = "add" /\ sw[w].source = s => w \in overtaken'
        BY <2>3 DEF StoreSign
      <3>2. CASE r \in store /\ r.source # s
        BY <1>1, <1>3, <3>2 DEF OvertakenInv
      <3>3. CASE r.source = s
        BY <1>3, <3>1, <3>3
      <3>4. QED
        BY <3>1, <3>2, <3>3, SignedRows
    <2>4. QED
      BY <2>1, <2>2, <2>3 DEF StoreStep
  <1>4. QED
    BY <1>2, <1>3, AboutToAdd

LEMMA WithdrawStep ==
    ASSUME StoreKept \/ StoreDelete
    PROVE  Answerable(store') \subseteq Answerable(store) /\ signoffs' = signoffs
  <1>1. CASE StoreKept
    BY <1>1 DEF StoreKept
  <1>2. CASE StoreDelete
    BY <1>2, DeletedAnswers DEF StoreDelete
  <1>3. QED
    BY <1>1, <1>2

\* An add withdraws, or is the add of an overtaken sweep.
LEMMA AddStep ==
    ASSUME OvertakenInv, StoreAdd
    PROVE  /\ signoffs' = signoffs
           /\ Answerable(store') \subseteq Answerable(store) \/ CarriedOver
  <1>1. PICK s \in Sources, v \in Texts, o \in Origins, rs \in {"absent", "false"} :
          /\ store' = AddChunks(store, ChunkRows(s, v, o, rs))
          /\ signoffs' = signoffs
          /\ rs = "absent" => \E w \in Sweepers :
                sw[w].pc = "add" /\ sw[w].source = s /\ sw[w].text = v /\ sw'[w] # sw[w]
    BY DEF StoreAdd
  <1>2. /\ rs = "false" => Answerable(store') \subseteq Answerable(store)
        /\ (\A r \in store : r.source = s => r.reviewed # "true")
              => Answerable(store') \subseteq Answerable(store)
        /\ Answerable(store') \subseteq Answerable(store) \cup {<<s, v>>}
    BY <1>1, AddedAnswers
  <1>3. CASE rs = "absent" /\ \E r \in store : r.source = s /\ r.reviewed = "true"
    <2>1. PICK w \in Sweepers :
            sw[w].pc = "add" /\ sw[w].source = s /\ sw[w].text = v /\ sw'[w] # sw[w]
      BY <1>1, <1>3
    <2>2. w \in overtaken
      BY <1>3, <2>1 DEF OvertakenInv
    <2>3. QED
      BY <1>1, <1>2, <2>1, <2>2 DEF CarriedOver
  <1>4. QED
    BY <1>1, <1>2, <1>3

\* Seen from retrieval, every behaviour is a sequence of sign-offs, each leaving
\* exactly one version of its source answerable, and of withdrawals; the one other
\* thing that happens is the add of a sweep whose source was approved between its
\* delete and its add, and that can only bring in the version the sweep read.
THEOREM GateRefinement == Spec => GateRefinedUnlessOvertaken
  <1>1. Init => Gate!GateInit /\ OvertakenInv
    BY DEF Init, Answerable, Gate!GateInit, OvertakenInv
  <1>2. TypeOK /\ OvertakenInv /\ [Next]_vars
           => [Gate!GateNext \/ CarriedOver]_(Gate!gateVars)
    <2> SUFFICES ASSUME TypeOK, OvertakenInv, [Next]_vars
                 PROVE  [Gate!GateNext \/ CarriedOver]_(Gate!gateVars)
      OBVIOUS
    <2>1. StoreStep
      BY NextStoreStep
    <2>2. CASE StoreSign
      BY <2>2, SignStep DEF Signed, Gate!GateNext, Gate!SignOff
    <2>3. CASE StoreKept \/ StoreDelete
      BY <2>3, WithdrawStep DEF Signed, Gate!GateNext, Gate!Withdraw
    <2>4. CASE StoreAdd
      BY <2>4, AddStep DEF Signed, Gate!GateNext, Gate!Withdraw
    <2>5. QED
      BY <2>1, <2>2, <2>3, <2>4 DEF StoreStep
  <1>3. QED
    BY <1>1, <1>2, OvertakenStep, GateTypeOK, PTL DEF Spec, GateRefinedUnlessOvertaken

-----------------------------------------------------------------------------
(* What quarantine keeps. *)

\* Of a name that no two rejections were moving at once: the first file stays where
\* it is, every later one takes the suffixed place from the one before, and whoever
\* is about to move has chosen the place that is right by now.
Kept(s) ==
    /\ moves[s] = <<>> => quarantine[s].own = None
    /\ moves[s] # <<>> => quarantine[s].own = moves[s][1]
    /\ Len(moves[s]) >= 2 => quarantine[s].suffixed[moves[s][1]] = moves[s][Len(moves[s])]
    /\ \A a \in Approvers : Moving(a, s) => ap[a].dest = quarantine[s].own
    /\ \A a, b \in Approvers : Moving(a, s) /\ Moving(b, s) => a = b

QuarantineInv == \A s \in Uploads \ crossed : Kept(s)

\* One name: its files ms, its places q, and the file f that is moved.
LEMMA PlacesKept ==
    ASSUME NEW ms \in Seq(Texts), NEW f \in Texts, NEW q \in Shelves,
           ms = <<>> => q.own = None,
           ms # <<>> => q.own = ms[1]
    PROVE  LET after == Append(ms, f)
               shelf == Shelved(q, Destination(q), f)
           IN /\ after # <<>>
              /\ shelf.own = after[1]
              /\ Len(after) >= 2 => shelf.suffixed[after[1]] = after[Len(after)]
  <1>1. CASE ms = <<>>
    <2>1. Append(ms, f) = <<f>>
      BY <1>1
    <2>2. Shelved(q, Destination(q), f).own = f
      BY <1>1 DEF Shelved, Destination, Shelves
    <2>3. QED
      BY <2>1, <2>2
  <1>2. CASE ms # <<>>
    <2>1. ms[1] \in Texts /\ Append(ms, f)[1] = ms[1]
      BY <1>2
    <2>2. Append(ms, f) # <<>> /\ Append(ms, f)[Len(Append(ms, f))] = f
      <3>1. Append(ms, f) \in Seq(Texts) /\ Len(Append(ms, f)) = Len(ms) + 1
        OBVIOUS
      <3>2. Append(ms, f)[Len(ms) + 1] = f
        OBVIOUS
      <3>3. QED
        BY <3>1, <3>2
    <2>3. q.own = ms[1] /\ q.own # None
      BY <1>2, <2>1, ChunkStoreAssumption
    <2>4. /\ Shelved(q, Destination(q), f).own = ms[1]
          /\ Shelved(q, Destination(q), f).suffixed[ms[1]] = f
      BY <2>1, <2>3 DEF Shelved, Destination, Shelves
    <2>5. QED
      BY <2>1, <2>2, <2>4
  <1>3. QED
    BY <1>1, <1>2

\* No step but a move changes what is in quarantine, and only the choice of a place
\* makes anybody about to move.
LEMMA OthersKeepQuarantine ==
    ASSUME TypeOK, [Next]_vars,
           \A a \in Approvers : ~QuarantinePlace(a) /\ ~QuarantineMove(a)
    PROVE  /\ UNCHANGED <<quarantine, moves>>
           /\ \A a \in Approvers : \A s : Moving(a, s)' => Moving(a, s) /\ ap'[a] = ap[a]
  <1>1. CASE \E u \in Uploaders : UploadStep(u)
    BY <1>1 DEF UploadStep, UploadWrite, UploadDelete, UploadAdd, UploadFail, Moving
  <1>2. CASE \E w \in Sweepers : SweepStep(w)
    <2>1. PICK w \in Sweepers : SweepStep(w)
      BY <1>2
    <2>2. UNCHANGED <<quarantine, moves, ap>>
      <3>2. CASE \E s \in Sources : SweepRead(w, s) \/ SweepSkip(w, s) \/ SweepRetract(w, s)
        BY <3>2 DEF SweepRead, SweepSkip, SweepRetract
      <3>3. CASE SweepList(w) \/ SweepNothing(w) \/ SweepDelete(w) \/ SweepAdd(w)
        BY <3>3 DEF SweepList, SweepNothing, SweepDelete, SweepAdd
      <3>4. CASE SweepDiff(w) \/ SweepDone(w) \/ SweepFail(w)
        BY <3>4 DEF SweepDiff, SweepDone, SweepFail
      <3>5. QED
        BY <2>1, <3>2, <3>3, <3>4 DEF SweepStep
    <2>3. QED
      BY <2>2 DEF Moving
  <1>3. ASSUME NEW b \in Approvers, ReviewStep(b)
        PROVE  /\ UNCHANGED <<quarantine, moves>>
               /\ \A a \in Approvers : \A s : Moving(a, s)' => Moving(a, s) /\ ap'[a] = ap[a]
    <2>1. /\ UNCHANGED <<quarantine, moves>>
          /\ \E c : ap' = [ap EXCEPT ![b] = c] /\ c.pc # "move"
      <3>1. CASE ReviewRevision(b)
        <4>1. [ap[b] EXCEPT !.pc = "decide", !.rev = Revision(RowsOf(store, ap[b].source))].pc = "decide"
          BY DEF TypeOK, ReviewCalls
        <4>2. QED
          BY <3>1, <4>1 DEF ReviewRevision
      <3>2. CASE \E s \in Sources : ReviewText(b, s)
        <4>1. PICK s \in Sources : ReviewText(b, s)
          BY <3>2
        <4>2. [NoReview EXCEPT !.pc = "revision", !.source = s,
                               !.shown = ShownTexts(RowsOf(store, s))].pc = "revision"
          BY DEF NoReview
        <4>3. QED
          BY <4>1, <4>2 DEF ReviewText
      <3>3. CASE Approve(b) \/ Reject(b) \/ DecisionRefused(b) \/ ReviewFail(b)
        <4>1. NoReview.pc = "idle"
          BY DEF NoReview
        <4>2. [NoReview EXCEPT !.pc = "quarantine", !.source = ap[b].source].pc = "quarantine"
          BY DEF NoReview
        <4>3. QED
          BY <3>3, <4>1, <4>2 DEF Approve, Reject, DecisionRefused, ReviewFail
      <3>4. CASE QuarantineFile(b)
        <4>1. [ap[b] EXCEPT !.pc = "place"].pc = "place" /\ NoReview.pc = "idle"
          BY DEF TypeOK, ReviewCalls, NoReview
        <4>2. QED
          BY <3>4, <4>1 DEF QuarantineFile
      <3>5. QED
        BY <1>3, <3>1, <3>2, <3>3, <3>4 DEF ReviewStep
    <2>2. PICK c : ap' = [ap EXCEPT ![b] = c] /\ c.pc # "move"
      BY <2>1
    <2>3. QED
      BY <2>1, <2>2 DEF Moving, TypeOK
  <1>4. CASE \/ \E s \in Curated, v \in TextOrNone : HostEdit(s, v)
             \/ \E o \in Directories : HostRemove(o)
    BY <1>4 DEF HostEdit, HostRemove, Moving
  <1>5. CASE Restart
    BY <1>5 DEF Restart, NoReview, Moving
  <1>6. CASE UNCHANGED vars
    BY <1>6 DEF vars, Moving
  <1>7. QED
    BY <1>1, <1>2, <1>3, <1>4, <1>5, <1>6 DEF Next

\* What is not crossed after a step was not before it, and has one mover at most.
LEMMA CrossedGrows ==
    ASSUME QuarantineInv, [Next]_vars, NEW s \in Uploads, s \notin crossed'
    PROVE  /\ s \notin crossed
           /\ \A a, b \in Approvers : Moving(a, s)' /\ Moving(b, s)' => a = b
  <1>1. CASE UNCHANGED vars
    BY <1>1 DEF vars, QuarantineInv, Kept, Moving
  <1>2. CASE Next
    BY <1>2, NextObserves DEF ObserveSigned
  <1>3. QED
    BY <1>1, <1>2

LEMMA PlaceKeepsInv ==
    ASSUME TypeOK, NEW a \in Approvers, QuarantinePlace(a),
           NEW s \in Uploads, Kept(s),
           \A b, c \in Approvers : Moving(b, s)' /\ Moving(c, s)' => b = c
    PROVE  Kept(s)'
  <1>1. UNCHANGED <<quarantine, moves>>
    BY DEF QuarantinePlace
  <1>2. /\ ap'[a].source = ap[a].source /\ ap'[a].dest = quarantine[ap[a].source].own
        /\ \A b \in Approvers : b # a => ap'[b] = ap[b]
    BY DEF QuarantinePlace, Destination, TypeOK, ReviewCalls
  <1>3. \A b \in Approvers : Moving(b, s)' => ap'[b].dest = quarantine[s].own
    BY <1>2 DEF Kept, Moving
  <1>4. QED
    BY <1>1, <1>3 DEF Kept

LEMMA MoveKeepsInv ==
    ASSUME TypeOK, NEW a \in Approvers, QuarantineMove(a),
           NEW s \in Uploads, Kept(s),
           \A b, c \in Approvers : Moving(b, s)' /\ Moving(c, s)' => b = c
    PROVE  Kept(s)'
  <1>1. /\ ap'[a].pc = "idle" /\ Moving(a, ap[a].source)
        /\ \A b \in Approvers : b # a => ap'[b] = ap[b]
    BY DEF QuarantineMove, NoReview, TypeOK, Moving
  <1>2. CASE s = ap[a].source /\ file[s] # None
    <2> DEFINE shelf == Shelved(quarantine[s], Destination(quarantine[s]), file[s])
    <2>1. ap[a].dest = Destination(quarantine[s])
      BY <1>1, <1>2 DEF Kept, Destination
    <2>2. /\ file[s] \in Texts /\ moves[s] \in Seq(Texts) /\ quarantine[s] \in Shelves
      BY <1>2, ReviewGateAssumption DEF TypeOK, TextOrNone
    <2>3. moves'[s] = Append(moves[s], file[s]) /\ quarantine'[s] = shelf
      BY <1>2, <2>1 DEF QuarantineMove, TypeOK
    <2>4. /\ Append(moves[s], file[s]) # <<>>
          /\ shelf.own = Append(moves[s], file[s])[1]
          /\ Len(Append(moves[s], file[s])) >= 2
                => shelf.suffixed[Append(moves[s], file[s])[1]]
                     = Append(moves[s], file[s])[Len(Append(moves[s], file[s]))]
      <3>1. (moves[s] = <<>> => quarantine[s].own = None)
            /\ (moves[s] # <<>> => quarantine[s].own = moves[s][1])
        BY DEF Kept
      <3>2. QED
        BY <2>2, <3>1, PlacesKept
    <2> HIDE DEF shelf
    <2>5. \A b \in Approvers : ~Moving(b, s)'
      BY <1>1, <1>2 DEF Kept, Moving
    <2>6. QED
      BY <2>3, <2>4, <2>5 DEF Kept
  <1>3. CASE ~(s = ap[a].source /\ file[s] # None)
    <2>1. quarantine'[s] = quarantine[s] /\ moves'[s] = moves[s]
      BY <1>3 DEF QuarantineMove, TypeOK
    <2>2. \A b \in Approvers : Moving(b, s)' => Moving(b, s) /\ ap'[b] = ap[b]
      BY <1>1 DEF Moving
    <2>3. QED
      BY <2>1, <2>2 DEF Kept
  <1>4. QED
    BY <1>2, <1>3

LEMMA QuarantineStep ==
    ASSUME TypeOK, QuarantineInv, [Next]_vars
    PROVE  QuarantineInv'
  <1> SUFFICES ASSUME NEW s \in Uploads, s \notin crossed' PROVE Kept(s)'
    BY DEF QuarantineInv
  <1>1. Kept(s) /\ \A a, b \in Approvers : Moving(a, s)' /\ Moving(b, s)' => a = b
    BY CrossedGrows DEF QuarantineInv
  <1>2. CASE \E a \in Approvers : QuarantinePlace(a)
    BY <1>1, <1>2, PlaceKeepsInv
  <1>3. CASE \E a \in Approvers : QuarantineMove(a)
    BY <1>1, <1>3, MoveKeepsInv
  <1>4. CASE \A a \in Approvers : ~QuarantinePlace(a) /\ ~QuarantineMove(a)
    <2>1. /\ UNCHANGED <<quarantine, moves>>
          /\ \A a \in Approvers : Moving(a, s)' => Moving(a, s) /\ ap'[a] = ap[a]
      BY <1>4, OthersKeepQuarantine
    <2>2. QED
      BY <1>1, <2>1 DEF Kept
  <1>5. QED
    BY <1>2, <1>3, <1>4

\* For any number of approvers, uploads and restarts: the second of two rejected
\* files with one name leaves the first where it is, unless two rejections of that
\* name were past their choice of a place at the same time.
THEOREM GateQuarantine == Spec => []SecondRejectionKeepsFirst
  <1>1. Init => QuarantineInv
    BY DEF Init, QuarantineInv, Kept, Moving, NoReview
  <1>2. TypeOK /\ QuarantineInv => SecondRejectionKeepsFirst
    <2>1. ASSUME TypeOK, QuarantineInv, NEW s \in Uploads \ crossed, NEW i \in DOMAIN moves[s],
                 Len(moves[s]) <= 2
          PROVE  \/ moves[s][i] = quarantine[s].own
                 \/ \E v \in Texts : moves[s][i] = quarantine[s].suffixed[v]
      <3>1. moves[s] \in Seq(Texts)
        BY <2>1 DEF TypeOK
      <3>2. (i = 1 \/ (i = 2 /\ Len(moves[s]) = 2)) /\ moves[s] # <<>>
        <4>1. i \in 1 .. Len(moves[s]) /\ Len(moves[s]) \in Nat
          BY <2>1, <3>1
        <4>2. moves[s] # <<>>
          BY <4>1
        <4>3. \A n \in Nat : n <= 2 => \A k \in 1 .. n : k = 1 \/ (k = 2 /\ n = 2)
          OBVIOUS
        <4>4. i = 1 \/ (i = 2 /\ Len(moves[s]) = 2)
          BY <2>1, <4>1, <4>3
        <4>5. QED
          BY <4>2, <4>4
      <3>3. moves[s][1] \in Texts
        BY <3>1, <3>2
      <3>4. /\ quarantine[s].own = moves[s][1]
            /\ Len(moves[s]) >= 2 => quarantine[s].suffixed[moves[s][1]] = moves[s][Len(moves[s])]
        BY <2>1, <3>2 DEF QuarantineInv, Kept
      <3>5. QED
        BY <3>2, <3>3, <3>4
    <2>2. QED
      BY <2>1 DEF SecondRejectionKeepsFirst
  <1>3. QED
    BY <1>1, <1>2, QuarantineStep, GateTypeOK, PTL DEF Spec

-----------------------------------------------------------------------------
(* Origins *)

\* A row carries the origin of its source, and a sweep works on the sources of the
\* directory it listed.
ScopeInv ==
    /\ \A r \in store : r.origin = OriginOf(r.source)
    /\ \A w \in Sweepers :
          /\ sw[w].todo \subseteq SourcesOf(sw[w].origin)
          /\ sw[w].seen \subseteq SourcesOf(sw[w].origin)
          /\ sw[w].pc \in {"delete", "add"} => sw[w].source \in SourcesOf(sw[w].origin)

LEMMA OriginsOfSources ==
    /\ \A o \in {"curated", "upload"} : \A s \in SourcesOf(o) : s \in Sources /\ OriginOf(s) = o
    /\ \A s \in Sources : s \in SourcesOf(OriginOf(s))
    /\ \A s \in Uploads : OriginOf(s) = "upload"
  BY ReviewGateAssumption DEF SourcesOf, OriginOf

LEMMA ScopeAdd ==
    ASSUME ScopeInv, NEW s, NEW v, NEW rs,
           store' = AddChunks(store, ChunkRows(s, v, OriginOf(s), rs))
    PROVE  \A r \in store' : r.origin = OriginOf(r.source)
  <1> SUFFICES ASSUME NEW r \in store' PROVE r.origin = OriginOf(r.source)
    OBVIOUS
  <1>1. r \in store \/ (r.source = s /\ r.origin = OriginOf(s))
    BY AddedOrigins
  <1>2. QED
    BY <1>1 DEF ScopeInv

\* Approval changes neither the source nor the origin of a row.
LEMMA ScopeSign ==
    ASSUME TypeOK, ScopeInv, NEW s, NEW h, store' = MarkReviewed(store, s, h)
    PROVE  \A r \in store' : r.origin = OriginOf(r.source)
  <1> SUFFICES ASSUME NEW r \in store' PROVE r.origin = OriginOf(r.source)
    OBVIOUS
  <1>1. PICK q \in store :
           r = IF q.source = s THEN [q EXCEPT !.reviewed = "true", !.signed = h] ELSE q
    BY DEF MarkReviewed
  <1>2. r.source = q.source /\ r.origin = q.origin
    BY <1>1 DEF TypeOK, Rows
  <1>3. QED
    BY <1>2 DEF ScopeInv

LEMMA ScopeSweep ==
    ASSUME TypeOK, ScopeInv, NEW w \in Sweepers, SweepStep(w)
    PROVE  ScopeInv'
  <1>0. sw \in [Sweepers -> SweepCalls] /\ sw[w].origin \in {"curated", "upload"}
    BY DEF TypeOK, SweepCalls, Directories
  <1>k. ASSUME NEW c, sw' = [sw EXCEPT ![w] = c],
               \A r \in store' : r.origin = OriginOf(r.source),
               c.todo \subseteq SourcesOf(c.origin), c.seen \subseteq SourcesOf(c.origin),
               c.pc \in {"delete", "add"} => c.source \in SourcesOf(c.origin)
        PROVE  ScopeInv'
    BY <1>0, <1>k DEF ScopeInv
  <1>1. CASE SweepList(w)
    <2> DEFINE o == NextDirectory(w)
               c == [NoSweep EXCEPT !.pc = "file", !.origin = o,
                                    !.todo = {s \in SourcesOf(o) : file[s] # None}]
    <2>1. sw' = [sw EXCEPT ![w] = c] /\ store' = store
      BY <1>1 DEF SweepList
    <2>2. c.pc = "file" /\ c.todo \subseteq SourcesOf(c.origin) /\ c.seen = {}
      BY DEF NoSweep
    <2> HIDE DEF c
    <2>3. QED
      BY <1>k, <2>1, <2>2 DEF ScopeInv
  <1>2. ASSUME NEW s \in Sources, SweepRead(w, s)
        PROVE  ScopeInv'
    BY <1>0, <1>2 DEF SweepRead, ScopeInv, SweepCalls
  <1>3. ASSUME NEW s \in Sources, SweepSkip(w, s)
        PROVE  ScopeInv'
    BY <1>0, <1>3 DEF SweepSkip, ScopeInv, SweepCalls
  <1>4. CASE SweepDelete(w)
    BY <1>0, <1>4 DEF SweepDelete, ScopeInv, SweepCalls, DeleteSource
  <1>5. CASE SweepAdd(w)
    <2>1. sw[w].origin = OriginOf(sw[w].source)
      BY <1>0, <1>5, OriginsOfSources DEF SweepAdd, ScopeInv
    <2>2. \A r \in store' : r.origin = OriginOf(r.source)
      BY <1>5, <2>1, ScopeAdd DEF SweepAdd
    <2>3. QED
      BY <1>0, <1>5, <2>2, <1>k DEF SweepAdd, ScopeInv
  <1>6. CASE SweepDiff(w)
    <2>1. Gone(w) \subseteq SourcesOf(sw[w].origin)
      BY OriginsOfSources DEF Gone, IndexedSources, ScopeInv, TypeOK, Rows
    <2>2. QED
      BY <1>0, <1>6, <2>1 DEF SweepDiff, ScopeInv, SweepCalls
  <1>7. ASSUME NEW s \in Sources, SweepRetract(w, s)
        PROVE  ScopeInv'
    BY <1>0, <1>7 DEF SweepRetract, ScopeInv, SweepCalls, DeleteSource
  <1>8. CASE SweepDone(w) \/ SweepFail(w) \/ SweepNothing(w)
    <2>1. PICK pc \in {"next", "idle"} : sw' = [sw EXCEPT ![w] = [NoSweep EXCEPT !.pc = pc]]
      BY <1>8 DEF SweepDone, SweepFail, SweepNothing, NoSweep
    <2>2. store' = store
      BY <1>8 DEF SweepDone, SweepFail, SweepNothing
    <2>3. QED
      BY <1>k, <2>1, <2>2 DEF ScopeInv, NoSweep
  <1>9. QED
    BY <1>1, <1>2, <1>3, <1>4, <1>5, <1>6, <1>7, <1>8 DEF SweepStep

LEMMA ScopeStep ==
    ASSUME TypeOK, ScopeInv, [Next]_vars
    PROVE  ScopeInv'
  <1>1. ASSUME UNCHANGED sw, \A r \in store' : r.origin = OriginOf(r.source)
        PROVE  ScopeInv'
    BY <1>1 DEF ScopeInv
  <1>2. ASSUME NEW u \in Uploaders, UploadStep(u)
        PROVE  ScopeInv'
    <2>1. up[u].pc # "idle" => OriginOf(up[u].source) = "upload"
      BY OriginsOfSources DEF TypeOK, CallsOK
    <2>2. CASE UploadDelete(u)
      BY <1>1, <2>2 DEF UploadDelete, DeleteSource, ScopeInv
    <2>3. CASE UploadAdd(u)
      BY <1>1, <2>1, <2>3, ScopeAdd DEF UploadAdd
    <2>4. CASE UploadFail(u) \/ \E s \in Uploads, v \in Texts : UploadWrite(u, s, v)
      BY <1>1, <2>4 DEF UploadFail, UploadWrite, ScopeInv
    <2>5. QED
      BY <1>2, <2>2, <2>3, <2>4 DEF UploadStep
  <1>3. ASSUME NEW a \in Approvers, ReviewStep(a)
        PROVE  ScopeInv'
    <2>1. CASE Approve(a)
      BY <1>1, <2>1, ScopeSign DEF Approve
    <2>2. CASE Reject(a)
      BY <1>1, <2>2 DEF Reject, DeleteSource, ScopeInv
    <2>3. CASE \/ ReviewRevision(a) \/ DecisionRefused(a) \/ ReviewFail(a)
               \/ QuarantineFile(a) \/ QuarantinePlace(a) \/ QuarantineMove(a)
               \/ \E s \in Sources : ReviewText(a, s)
      BY <1>1, <2>3 DEF ReviewRevision, DecisionRefused, QuarantineFile, QuarantinePlace,
                        QuarantineMove, ReviewFail, ReviewText, ScopeInv
    <2>4. QED
      BY <1>3, <2>1, <2>2, <2>3 DEF ReviewStep
  <1>4. CASE Restart
    BY <1>4 DEF Restart, NoSweep, ScopeInv
  <1>5. CASE \/ UNCHANGED vars \/ \E s \in Curated, v \in TextOrNone : HostEdit(s, v)
             \/ \E o \in Directories : HostRemove(o)
    BY <1>1, <1>5 DEF vars, HostEdit, HostRemove, ScopeInv
  <1>6. QED
    BY <1>2, <1>3, <1>4, <1>5, ScopeSweep DEF Next

LEMMA ScopeInvariant == Spec => []ScopeInv
  <1>1. Init => ScopeInv
    BY DEF Init, NoSweep, ScopeInv
  <1>2. QED
    BY <1>1, ScopeStep, GateTypeOK, PTL DEF Spec

-----------------------------------------------------------------------------
(* Which call changed what *)

LEMMA SweepChanges ==
    ASSUME TypeOK, ScopeInv, NEW w \in Sweepers, SweepStep(w),
           NEW s \in Sources, RowsOf(store', s) # RowsOf(store, s)
    PROVE  sw'[w] # sw[w] /\ sw[w].origin = OriginOf(s)
  <1>0. sw \in [Sweepers -> SweepCalls] /\ sw[w].origin \in {"curated", "upload"}
        /\ store \in SUBSET Rows
    BY DEF TypeOK, SweepCalls, Directories
  <1>1. CASE SweepDelete(w)
    <2>1. s = sw[w].source
      BY ZenonT(30), <1>0, <1>1, OtherRowsKept DEF SweepDelete, TypeOK, CallsOK
    <2>2. sw'[w].pc = "add"
      BY <1>0, <1>1 DEF SweepDelete, SweepCalls
    <2>3. QED
      BY <1>0, <1>1, <2>1, <2>2, OriginsOfSources DEF SweepDelete, ScopeInv
  <1>2. CASE SweepAdd(w)
    <2>1. s = sw[w].source
      <3>1. sw[w].text \in Texts
        BY <1>2 DEF SweepAdd, TypeOK, CallsOK
      <3>2. store' = AddChunks(store, ChunkRows(sw[w].source, sw[w].text, sw[w].origin, "absent"))
        BY <1>2 DEF SweepAdd
      <3>3. s # sw[w].source => RowsOf(store', s) = RowsOf(store, s)
        BY <1>0, <3>1, <3>2, OtherRowsKept
      <3>4. QED
        BY <3>3
    <2>2. sw'[w].pc = "file"
      BY <1>0, <1>2 DEF SweepAdd
    <2>3. QED
      BY <1>0, <1>2, <2>1, <2>2, OriginsOfSources DEF SweepAdd, ScopeInv
  <1>3. ASSUME NEW t \in Sources, SweepRetract(w, t)
        PROVE  sw'[w] # sw[w] /\ sw[w].origin = OriginOf(s)
    <2>1. s = t
      BY <1>3 DEF SweepRetract, RowsOf, DeleteSource
    <2>2. t \in sw[w].todo /\ t \notin sw'[w].todo
      BY <1>0, <1>3 DEF SweepRetract, SweepCalls
    <2>3. QED
      BY <1>0, <2>1, <2>2, OriginsOfSources DEF ScopeInv
  <1>4. CASE \/ SweepList(w) \/ SweepNothing(w) \/ SweepDiff(w) \/ SweepDone(w) \/ SweepFail(w)
             \/ \E t \in Sources : SweepRead(w, t) \/ SweepSkip(w, t)
    <2>1. store' = store
      BY <1>4 DEF SweepList, SweepNothing, SweepDiff, SweepDone, SweepFail, SweepRead, SweepSkip
    <2>2. QED
      BY <2>1
  <1>5. QED
    BY <1>1, <1>2, <1>3, <1>4 DEF SweepStep

LEMMA UploadChanges ==
    ASSUME TypeOK, NEW u \in Uploaders, UploadStep(u),
           NEW s \in Sources, RowsOf(store', s) # RowsOf(store, s)
    PROVE  up'[u] # up[u] /\ up[u].source = s
  <1>0. up \in [Uploaders -> UploadCalls] /\ store \in SUBSET Rows
    BY DEF TypeOK
  <1>1. CASE UploadDelete(u)
    <2>1. up[u].pc = "delete" /\ up'[u].pc = "add"
      BY <1>0, <1>1 DEF UploadDelete, UploadCalls
    <2>2. QED
      BY ZenonT(30), <1>0, <1>1, <2>1, OtherRowsKept DEF UploadDelete, TypeOK, CallsOK
  <1>2. CASE UploadAdd(u)
    <2>1. up[u].pc = "add" /\ up'[u].pc = "idle"
      BY <1>0, <1>2 DEF UploadAdd, NoUpload
    <2>2. QED
      <3>1. up[u].text \in Texts
        BY <1>2 DEF UploadAdd, TypeOK, CallsOK
      <3>2. store' = AddChunks(store, ChunkRows(up[u].source, up[u].text, "upload", "false"))
        BY <1>2 DEF UploadAdd
      <3>3. s # up[u].source => RowsOf(store', s) = RowsOf(store, s)
        BY <1>0, <3>1, <3>2, OtherRowsKept
      <3>4. QED
        BY <2>1, <3>3
  <1>3. CASE UploadFail(u) \/ \E t \in Uploads, v \in Texts : UploadWrite(u, t, v)
    BY <1>3 DEF UploadFail, UploadWrite
  <1>4. QED
    BY <1>1, <1>2, <1>3 DEF UploadStep

LEMMA ReviewChanges ==
    ASSUME TypeOK, NEW a \in Approvers, ReviewStep(a),
           NEW s \in Sources, RowsOf(store', s) # RowsOf(store, s)
    PROVE  ap'[a] # ap[a] /\ ap[a].source = s
  <1>0. ap \in [Approvers -> ReviewCalls] /\ store \in SUBSET Rows
    BY DEF TypeOK
  <1>1. CASE Approve(a)
    <2>1. ap[a].pc = "decide" /\ ap'[a].pc = "idle" /\ ap[a].rev \in Texts
      BY <1>0, <1>1, CurrentRows DEF Approve, NoReview
    <2>2. QED
      BY <1>0, <1>1, <2>1, OtherRowsKept DEF Approve
  <1>2. CASE Reject(a)
    <2>1. ap[a].pc = "decide" /\ ap'[a].pc = "quarantine" /\ ap[a].rev \in Texts
      BY <1>0, <1>2, CurrentRows DEF Reject, NoReview
    <2>2. QED
      <3>1. s # ap[a].source => RowsOf(store', s) = RowsOf(store, s)
        BY <1>2 DEF Reject, RowsOf, DeleteSource
      <3>2. QED
        BY <2>1, <3>1
  <1>3. CASE \/ ReviewRevision(a) \/ DecisionRefused(a) \/ ReviewFail(a)
             \/ QuarantineFile(a) \/ QuarantinePlace(a) \/ QuarantineMove(a)
             \/ \E t \in Sources : ReviewText(a, t)
    BY <1>3 DEF ReviewRevision, DecisionRefused, QuarantineFile, QuarantinePlace,
                QuarantineMove, ReviewFail, ReviewText
  <1>4. QED
    BY <1>1, <1>2, <1>3 DEF ReviewStep

\* Whatever interleaves: the chunks of a source change only in a step of a sweep
\* over its own directory, of an upload of it, or of a review of it.
THEOREM GateScope == Spec => SweepsKeepToTheirOrigin
  <1> DEFINE Scoped ==
        \A s \in Sources :
          RowsOf(store', s) # RowsOf(store, s) =>
             \/ \E w \in Sweepers : sw'[w] # sw[w] /\ sw[w].origin = OriginOf(s)
             \/ \E u \in Uploaders : up'[u] # up[u] /\ up[u].source = s
             \/ \E a \in Approvers : ap'[a] # ap[a] /\ ap[a].source = s
  <1>1. TypeOK /\ ScopeInv /\ [Next]_vars => [Scoped]_vars
    <2> SUFFICES ASSUME TypeOK, ScopeInv, Next PROVE Scoped
      BY DEF vars
    <2>1. CASE \E w \in Sweepers : SweepStep(w)
      BY <2>1, SweepChanges
    <2>2. CASE \E u \in Uploaders : UploadStep(u)
      BY <2>2, UploadChanges
    <2>3. CASE \E a \in Approvers : ReviewStep(a)
      BY <2>3, ReviewChanges
    <2>4. CASE \/ Restart \/ \E s \in Curated, v \in TextOrNone : HostEdit(s, v)
               \/ \E o \in Directories : HostRemove(o)
      <3>1. store' = store
        BY <2>4 DEF Restart, HostEdit, HostRemove
      <3>2. QED
        BY <3>1
    <2>5. QED
      BY <2>1, <2>2, <2>3, <2>4 DEF Next
  <1>2. QED
    BY <1>1, ScopeInvariant, GateTypeOK, PTL DEF Spec, SweepsKeepToTheirOrigin

-----------------------------------------------------------------------------
(* A sweep nothing disturbs *)

\* The sources of the directory sweep w is on that have a file.
OnDisk(w) == {s \in SourcesOf(sw[w].origin) : file[s] # None}

Settled(s) == RowsOf(store, s) = SweptRows(s)

\* What a sweep nothing disturbed has done so far: every file was listed; those it
\* is through with are indexed as they are on disk; the one in hand is read, and
\* then has no chunks left; what has no file and is not about to be retracted has
\* no chunks either.
Reconciled(w) ==
    /\ sw[w].pc \in {"file", "delete", "add"} => sw[w].todo \cup sw[w].seen = OnDisk(w)
    /\ sw[w].pc \in {"delete", "add"} =>
          sw[w].source \in sw[w].seen /\ sw[w].text = file[sw[w].source]
    /\ sw[w].pc = "add" => RowsOf(store, sw[w].source) = {}
    /\ sw[w].pc = "retract" =>
          /\ sw[w].seen = OnDisk(w) /\ sw[w].todo \cap sw[w].seen = {}
          /\ \A s \in SourcesOf(sw[w].origin) \ (sw[w].seen \cup sw[w].todo) :
                RowsOf(store, s) = {}
    /\ \A s \in sw[w].seen :
          Settled(s) \/ (sw[w].pc \in {"delete", "add"} /\ s = sw[w].source)

CalmInv == \A w \in Sweepers : calm[w] => Reconciled(w)

\* The other calls do nothing between two states in which they are idle.
LEMMA CalmOthers ==
    ASSUME TypeOK, Next, NEW w \in Sweepers, OthersIdle(w), OthersIdle(w)', ~SweepStep(w)
    PROVE  store' = store /\ (sw'[w] = sw[w] \/ sw'[w] = NoSweep)
  <1>1. ASSUME NEW u \in Uploaders, UploadStep(u) PROVE FALSE
    BY <1>1 DEF OthersIdle, UploadStep, UploadWrite, UploadDelete, UploadAdd, UploadFail, TypeOK
  <1>2. ASSUME NEW x \in Sweepers, x # w, SweepStep(x) PROVE FALSE
    <2>1. sw[x].pc = "idle" /\ sw'[x].pc = "idle"
      BY <1>2 DEF OthersIdle
    <2>2. SweepList(x) \/ SweepNothing(x)
      <3>1. ~\E s \in Sources : SweepRead(x, s) \/ SweepSkip(x, s) \/ SweepRetract(x, s)
        BY <2>1 DEF SweepRead, SweepSkip, SweepRetract
      <3>2. ~SweepDelete(x) /\ ~SweepAdd(x) /\ ~SweepDiff(x) /\ ~SweepDone(x) /\ ~SweepFail(x)
        BY <2>1 DEF SweepDelete, SweepAdd, SweepDiff, SweepDone, SweepFail
      <3>3. QED
        BY <1>2, <3>1, <3>2 DEF SweepStep
    <2>3. CASE SweepList(x)
      <3>1. sw'[x].pc = "file"
        BY <2>3 DEF SweepList, NoSweep, TypeOK
      <3>2. QED
        BY <2>1, <3>1
    <2>4. CASE SweepNothing(x)
      <3>1. sw'[x].pc = "next"
        BY <2>1, <2>4 DEF SweepNothing, NextDirectory, NoSweep, TypeOK
      <3>2. QED
        BY <2>1, <3>1
    <2>5. QED
      BY <2>2, <2>3, <2>4
  <1>3. ASSUME NEW a \in Approvers, ReviewStep(a) PROVE FALSE
    <2>1. ap[a].pc = "idle" /\ ap'[a].pc = "idle"
      BY <1>3 DEF OthersIdle
    <2>2. PICK s \in Sources : ReviewText(a, s)
      BY <1>3, <2>1 DEF ReviewStep, ReviewRevision, Approve, Reject, DecisionRefused,
                        QuarantineFile, QuarantinePlace, QuarantineMove, ReviewFail
    <2>3. ap'[a].pc = "revision"
      BY <2>2 DEF ReviewText, NoReview, TypeOK
    <2>4. QED
      BY <2>1, <2>3
  <1>4. CASE \/ Restart \/ \E s \in Curated, v \in TextOrNone : HostEdit(s, v)
             \/ \E o \in Directories : HostRemove(o)
    BY <1>4 DEF Restart, HostEdit, HostRemove
  <1>5. QED
    BY <1>1, <1>2, <1>3, <1>4 DEF Next

LEMMA CalmSweep ==
    ASSUME TypeOK, ScopeInv, NEW w \in Sweepers, SweepStep(w), file' = file,
           Reconciled(w) \/ SweepList(w)
    PROVE  Reconciled(w)'
  <1> DEFINE o == sw[w].origin
  <1>0. /\ sw \in [Sweepers -> SweepCalls] /\ store \in SUBSET Rows
        /\ sw[w] \in SweepCalls /\ o \in {"curated", "upload"}
        /\ \A s : SweptRows(s)' = SweptRows(s)
        /\ None \notin Texts
    BY ChunkStoreAssumption DEF TypeOK, SweepCalls, Directories, SweptRows
  <1>1. CASE SweepList(w)
    <2> DEFINE q == NextDirectory(w)
               c == [NoSweep EXCEPT !.pc = "file", !.origin = q,
                                    !.todo = {s \in SourcesOf(q) : file[s] # None}]
    <2>1. sw'[w] = c
      BY <1>0, <1>1 DEF SweepList
    <2>2. /\ c.pc = "file" /\ c.seen = {} /\ c.origin = q
          /\ c.todo = {s \in SourcesOf(q) : file[s] # None}
      BY DEF NoSweep
    <2> HIDE DEF c, q
    <2>3. OnDisk(w)' = {s \in SourcesOf(q) : file[s] # None}
      BY <2>1, <2>2 DEF OnDisk
    <2>4. QED
      BY <2>1, <2>2, <2>3 DEF Reconciled
  <1> SUFFICES ASSUME Reconciled(w), ~SweepList(w) PROVE Reconciled(w)'
    BY <1>1
  <1>2. ASSUME NEW s \in Sources, SweepRead(w, s)
        PROVE  Reconciled(w)'
    <2>1. /\ sw[w].pc = "file" /\ s \in sw[w].todo
          /\ sw'[w].pc = "delete" /\ sw'[w].todo = sw[w].todo \ {s}
          /\ sw'[w].seen = sw[w].seen \cup {s} /\ sw'[w].source = s /\ sw'[w].text = file[s]
          /\ sw'[w].origin = o /\ store' = store
      BY <1>0, <1>2 DEF SweepRead, SweepCalls
    <2>2. OnDisk(w)' = OnDisk(w)
      BY <2>1 DEF OnDisk
    <2>3. QED
      BY <1>0, <2>1, <2>2 DEF Reconciled, Settled
  <1>3. ASSUME NEW s \in Sources, SweepSkip(w, s)
        PROVE  Reconciled(w)'
    BY <1>3 DEF SweepSkip, Reconciled, OnDisk
  <1>4. CASE SweepDelete(w)
    <2>1. /\ sw[w].pc = "delete" /\ sw'[w].pc = "add"
          /\ sw'[w].todo = sw[w].todo /\ sw'[w].seen = sw[w].seen
          /\ sw'[w].source = sw[w].source /\ sw'[w].text = sw[w].text
          /\ sw'[w].origin = o /\ store' = DeleteSource(store, sw[w].source)
      BY <1>0, <1>4 DEF SweepDelete, SweepCalls
    <2>2. OnDisk(w)' = OnDisk(w)
      BY <2>1 DEF OnDisk
    <2>3. RowsOf(store', sw[w].source) = {}
      BY <2>1, DeletedRows
    <2>4. \A s : s # sw[w].source => RowsOf(store', s) = RowsOf(store, s)
      BY <2>1 DEF RowsOf, DeleteSource
    <2>5. QED
      BY <1>0, <2>1, <2>2, <2>3, <2>4 DEF Reconciled, Settled
  <1>5. CASE SweepAdd(w)
    <2>1. /\ sw[w].pc = "add" /\ sw'[w].pc = "file"
          /\ sw'[w].todo = sw[w].todo /\ sw'[w].seen = sw[w].seen /\ sw'[w].origin = o
          /\ store' = AddChunks(store, ChunkRows(sw[w].source, sw[w].text, o, "absent"))
      BY <1>0, <1>5 DEF SweepAdd
    <2>2. OnDisk(w)' = OnDisk(w)
      BY <2>1 DEF OnDisk
    <2>3. sw[w].source \in SourcesOf(o) /\ sw[w].text \in Texts /\ OriginOf(sw[w].source) = o
      BY <1>0, <2>1, OriginsOfSources DEF ScopeInv, TypeOK, CallsOK
    <2>4. RowsOf(store', sw[w].source) = SweptRows(sw[w].source)
      <3>1. RowsOf(store', sw[w].source) = ChunkRows(sw[w].source, sw[w].text, o, "absent")
        BY <2>1, AddedAfresh DEF Reconciled
      <3>2. file[sw[w].source] = sw[w].text /\ sw[w].text # None
        BY <1>0, <2>1, <2>3 DEF Reconciled
      <3>3. QED
        BY <2>3, <3>1, <3>2 DEF SweptRows
    <2>5. \A s : s # sw[w].source => RowsOf(store', s) = RowsOf(store, s)
      BY <1>0, <2>1, <2>3, OtherRowsKept
    <2>6. \A s \in sw[w].seen : Settled(s)'
      BY <1>0, <2>1, <2>4, <2>5 DEF Reconciled, Settled
    <2>7. QED
      BY <2>1, <2>2, <2>6 DEF Reconciled
  <1>6. CASE SweepDiff(w)
    <2>1. /\ sw[w].pc = "file" /\ sw[w].todo = {} /\ sw'[w].pc = "retract"
          /\ sw'[w].todo = Gone(w) /\ sw'[w].seen = sw[w].seen
          /\ sw'[w].origin = o /\ store' = store
      BY <1>0, <1>6 DEF SweepDiff, SweepCalls
    <2>2. OnDisk(w)' = OnDisk(w) /\ sw[w].seen = OnDisk(w)
      BY <2>1 DEF OnDisk, Reconciled
    <2>3. Gone(w) \cap sw[w].seen = {}
      BY DEF Gone
    <2>4. ASSUME NEW s \in SourcesOf(o), s \notin sw[w].seen, s \notin Gone(w)
          PROVE  RowsOf(store, s) = {}
      <3>1. \A r \in RowsOf(store, s) : r \in store /\ r.source = s /\ r.origin = o
        BY <1>0, OriginsOfSources DEF RowsOf, ScopeInv
      <3>2. QED
        BY <2>4, <3>1 DEF Gone, IndexedSources
    <2>5. \A s \in sw[w].seen : Settled(s)'
      BY <1>0, <2>1 DEF Reconciled, Settled
    <2>6. QED
      BY <2>1, <2>2, <2>3, <2>4, <2>5 DEF Reconciled
  <1>7. ASSUME NEW t \in Sources, SweepRetract(w, t)
        PROVE  Reconciled(w)'
    <2>1. /\ sw[w].pc = "retract" /\ t \in sw[w].todo /\ sw'[w].pc = "retract"
          /\ sw'[w].todo = sw[w].todo \ {t} /\ sw'[w].seen = sw[w].seen
          /\ sw'[w].origin = o /\ store' = DeleteSource(store, t)
      BY <1>0, <1>7 DEF SweepRetract, SweepCalls
    <2>2. OnDisk(w)' = OnDisk(w)
      BY <2>1 DEF OnDisk
    <2>3. RowsOf(store', t) = {} /\ \A s : s # t => RowsOf(store', s) = RowsOf(store, s)
      BY <2>1 DEF RowsOf, DeleteSource
    <2>4. t \notin sw[w].seen
      BY <2>1 DEF Reconciled
    <2>5. \A s \in sw[w].seen : Settled(s)'
      BY <1>0, <2>1, <2>3, <2>4 DEF Reconciled, Settled
    <2>6. QED
      BY <2>1, <2>2, <2>3, <2>5 DEF Reconciled
  <1>8. CASE SweepDone(w) \/ SweepFail(w) \/ SweepNothing(w)
    <2>1. sw'[w].pc \in {"next", "idle"} /\ sw'[w].seen = {}
      BY <1>0, <1>8 DEF SweepDone, SweepFail, SweepNothing, NoSweep
    <2>2. QED
      BY <2>1 DEF Reconciled
  <1>9. QED
    BY <1>2, <1>3, <1>4, <1>5, <1>6, <1>7, <1>8 DEF SweepStep

LEMMA CalmStep ==
    ASSUME TypeOK, ScopeInv, CalmInv, [Next]_vars
    PROVE  CalmInv'
  <1>1. CASE UNCHANGED vars
    BY <1>1 DEF vars, CalmInv, Reconciled, OnDisk, Settled, SweptRows
  <1>2. CASE Next
    <2> SUFFICES ASSUME NEW w \in Sweepers, calm'[w] PROVE Reconciled(w)'
      BY DEF CalmInv
    <2>1. \E signed : ObserveSigned(signed)
      BY <1>2, NextObserves
    <2>2. /\ calm[w] \/ Listing(w)
          /\ OthersIdle(w) /\ OthersIdle(w)' /\ file' = file
      BY <2>1 DEF ObserveSigned
    <2>3. CASE SweepStep(w)
      <3>1. Listing(w) => SweepList(w)
        <4>1. ASSUME Listing(w), ~SweepList(w) PROVE FALSE
          <5>1. sw[w].pc \in {"idle", "next"} /\ sw'[w].pc = "file"
            BY <4>1 DEF Listing
          <5>2. ~\E s \in Sources : SweepRead(w, s) \/ SweepSkip(w, s) \/ SweepRetract(w, s)
            BY <5>1 DEF SweepRead, SweepSkip, SweepRetract
          <5>3. ~SweepDelete(w) /\ ~SweepAdd(w) /\ ~SweepDiff(w) /\ ~SweepDone(w)
            BY <5>1 DEF SweepDelete, SweepAdd, SweepDiff, SweepDone
          <5>4. ~SweepFail(w) /\ ~SweepNothing(w)
            BY <5>1 DEF SweepFail, SweepNothing, NoSweep, TypeOK
          <5>5. QED
            BY <2>3, <4>1, <5>2, <5>3, <5>4 DEF SweepStep
        <4>2. QED
          BY <4>1
      <3>2. QED
        BY <2>2, <2>3, <3>1, CalmSweep DEF CalmInv
    <2>4. CASE ~SweepStep(w)
      <3>1. store' = store /\ (sw'[w] = sw[w] \/ sw'[w] = NoSweep)
        BY <1>2, <2>2, <2>4, CalmOthers
      <3>2. calm[w]
        BY <2>2, <3>1 DEF Listing, NoSweep
      <3>3. CASE sw'[w] = NoSweep
        BY <3>3 DEF Reconciled, NoSweep
      <3>4. CASE sw'[w] = sw[w]
        BY <2>2, <3>1, <3>2, <3>4 DEF CalmInv, Reconciled, OnDisk, Settled, SweptRows
      <3>5. QED
        BY <3>1, <3>3, <3>4
    <2>5. QED
      BY <2>3, <2>4
  <1>3. QED
    BY <1>1, <1>2

\* Whatever is on disk and whatever the index held before: a sweep that nothing else
\* ran beside is done with a directory only when its chunks are as they would be cut
\* from its files now.  (Of a directory that is not there it does nothing.)
THEOREM GateReconciles == Spec => UndisturbedSweepReconciles
  <1> DEFINE Reconciles ==
        \A w \in Sweepers : calm[w] /\ SweepDone(w) =>
          \A s \in SourcesOf(sw[w].origin) : RowsOf(store, s) = SweptRows(s)
  <1>1. Init => CalmInv
    BY DEF Init, CalmInv
  <1>2. CalmInv => Reconciles
    <2> SUFFICES ASSUME CalmInv, NEW w \in Sweepers, calm[w], SweepDone(w),
                        NEW s \in SourcesOf(sw[w].origin)
                 PROVE  RowsOf(store, s) = SweptRows(s)
      OBVIOUS
    <2>1. Reconciled(w) /\ sw[w].pc = "retract" /\ sw[w].todo = {}
      BY DEF CalmInv, SweepDone
    <2>2. CASE s \in sw[w].seen
      BY <2>1, <2>2 DEF Reconciled, Settled
    <2>3. CASE s \notin sw[w].seen
      BY <2>1, <2>3 DEF Reconciled, OnDisk, SweptRows
    <2>4. QED
      BY <2>2, <2>3
  <1>3. CalmInv => [Reconciles]_vars
    BY <1>2
  <1>4. QED
    BY <1>1, <1>3, CalmStep, ScopeInvariant, GateTypeOK, PTL DEF Spec, UndisturbedSweepReconciles

-----------------------------------------------------------------------------
(* The pages of the queue *)

PageLength(queue, offset, limit) ==
    IF offset + limit < Len(queue) THEN limit
    ELSE IF offset < Len(queue) THEN Len(queue) - offset ELSE 0

LEMMA PageEntries ==
    ASSUME NEW S, NEW queue \in Seq(S), NEW offset \in Nat, NEW limit \in Nat
    PROVE  LET page == Page(queue, offset, limit)
           IN /\ page \in Seq(S)
              /\ Len(page) = PageLength(queue, offset, limit)
              /\ \A j \in 1 .. Len(page) : page[j] = queue[offset + j]
  <1> DEFINE n == Len(queue)
             last == IF offset + limit < n THEN offset + limit ELSE n
  <1>1. n \in Nat /\ last \in Nat /\ last <= n
    OBVIOUS
  <1>2. Page(queue, offset, limit) = SubSeq(queue, offset + 1, last)
    BY DEF Page
  <1>3. PageLength(queue, offset, limit) = IF offset + 1 <= last THEN last - offset ELSE 0
    BY DEF PageLength
  <1> HIDE DEF last
  <1>4. CASE offset + 1 <= last
    BY <1>1, <1>2, <1>3, <1>4
  <1>5. CASE ~(offset + 1 <= last)
    BY <1>1, <1>2, <1>3, <1>5
  <1>6. QED
    BY <1>4, <1>5

LEMMA SequencesAreEqual ==
    ASSUME NEW S, NEW s \in Seq(S), NEW t \in Seq(S),
           Len(s) = Len(t), \A j \in 1 .. Len(t) : s[j] = t[j]
    PROVE  s = t
  OBVIOUS

\* Two pages that a client asks for one after the other are one longer page:
\* nothing of the queue is left out between them or shown twice, wherever the
\* first begins, however long each is, and past the end of the queue as well.
THEOREM PagesJoin ==
    ASSUME NEW S, NEW queue \in Seq(S), NEW offset \in Nat, NEW limit \in Nat, NEW next \in Nat
    PROVE  Page(queue, offset, limit) \o Page(queue, offset + limit, next)
             = Page(queue, offset, limit + next)
  <1> DEFINE first == Page(queue, offset, limit)
             second == Page(queue, offset + limit, next)
             both == Page(queue, offset, limit + next)
  <1>1. /\ first \in Seq(S) /\ Len(first) = PageLength(queue, offset, limit)
        /\ \A j \in 1 .. Len(first) : first[j] = queue[offset + j]
    BY PageEntries
  <1>2. /\ second \in Seq(S) /\ Len(second) = PageLength(queue, offset + limit, next)
        /\ \A j \in 1 .. Len(second) : second[j] = queue[offset + limit + j]
    BY PageEntries
  <1>3. /\ both \in Seq(S) /\ Len(both) = PageLength(queue, offset, limit + next)
        /\ \A j \in 1 .. Len(both) : both[j] = queue[offset + j]
    BY PageEntries
  <1> HIDE DEF first, second, both
  <1>0. Len(queue) \in Nat /\ Len(first) \in Nat /\ Len(second) \in Nat /\ Len(both) \in Nat
    BY <1>1, <1>2, <1>3
  <1>p. \A n, o, l, m \in Nat :
          LET L(p, k) == IF p + k < n THEN k ELSE IF p < n THEN n - p ELSE 0
          IN L(o, l + m) = L(o, l) + L(o + l, m) /\ (L(o + l, m) # 0 => L(o, l) = l)
    OBVIOUS
  <1>q. /\ PageLength(queue, offset, limit + next)
             = PageLength(queue, offset, limit) + PageLength(queue, offset + limit, next)
        /\ PageLength(queue, offset + limit, next) # 0 => PageLength(queue, offset, limit) = limit
    BY <1>0, <1>p DEF PageLength
  <1>4. Len(both) = Len(first) + Len(second)
    BY <1>q, <1>1, <1>2, <1>3
  <1>5. Len(second) # 0 => Len(first) = limit
    BY <1>q, <1>1, <1>2
  <1>6. ASSUME NEW j \in 1 .. Len(both) PROVE (first \o second)[j] = both[j]
    <2>1. CASE j <= Len(first)
      <3>1. j \in 1 .. Len(first)
        BY <1>0, <2>1
      <3>2. (first \o second)[j] = first[j]
        BY <1>1, <1>2, <3>1
      <3>3. QED
        BY <1>1, <1>3, <3>1, <3>2
    <2>2. CASE j > Len(first)
      <3>1. j - Len(first) \in 1 .. Len(second) /\ Len(first) = limit
        BY <1>1, <1>2, <1>4, <1>5, <2>2
      <3>2. (first \o second)[j] = second[j - Len(first)]
        <4>1. first \in Seq(S) /\ second \in Seq(S) /\ j \in 1 .. Len(first) + Len(second)
          BY <1>1, <1>2, <1>4
        <4>2. QED
          BY <4>1, <2>2, <1>0
      <3>3. second[j - Len(first)] = queue[offset + limit + (j - limit)]
        BY <1>2, <3>1
      <3>4. QED
        BY <1>3, <3>1, <3>2, <3>3
    <2>3. j <= Len(first) \/ j > Len(first)
      BY <1>0
    <2>4. QED
      BY <2>1, <2>2, <2>3
  <1>7. first \o second \in Seq(S) /\ Len(first \o second) = Len(both)
    BY <1>1, <1>2, <1>4
  <1>8. first \o second = both
    <2> DEFINE joined == first \o second
    <2>1. joined \in Seq(S) /\ Len(joined) = Len(both) /\ both \in Seq(S)
          /\ \A j \in 1 .. Len(both) : joined[j] = both[j]
      BY <1>3, <1>6, <1>7
    <2> HIDE DEF joined
    <2>2. joined = both
      BY <2>1, SequencesAreEqual
    <2>3. QED
      BY <2>2 DEF joined
  <1>9. QED
    BY <1>8 DEF first, second, both

\* A page as long as the queue is the queue.
THEOREM PagesComplete ==
    ASSUME NEW S, NEW queue \in Seq(S), NEW limit \in Nat, limit >= Len(queue)
    PROVE  Page(queue, 0, limit) = queue
  BY DEF Page
=============================================================================
