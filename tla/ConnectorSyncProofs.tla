------------------------ MODULE ConnectorSyncProofs ------------------------
(***************************************************************************)
(* Theorems about ConnectorSync, for any number of tickets, versions,      *)
(* tiers and overlapping syncs.  What overlapping syncs violate is proved  *)
(* for one sync at a time.                                                 *)
(***************************************************************************)
EXTENDS ConnectorSync, ChunkStoreProofs, Sealing, TLAPS

\* A record is a record.
LEMMA NoneIsNoRecord == None \notin Records
  BY ConnectorAssumption

-----------------------------------------------------------------------------
(* Type correctness *)

LEMMA TierInTiers == \A i \in 1 .. Len(TierSeq) : TierSeq[i] \in Tiers
  BY DEF Tiers

LEMMA NoSyncType == NoSync \in SyncCalls
  BY DEF NoSync, SyncCalls, RecordOrNone

\* The rows an earlier version of the program left.
LEMMA OldRows ==
    ASSUME NEW old \in OldRecords, NEW t \in Tiers,
           NEW r \in UNION {ChunkRows(s, old[s].text, "connector", "false") :
                              s \in Indexed(old, t)}
    PROVE  \E s \in Indexed(old, t) :
              /\ s \in Sources /\ old[s] \in Records /\ old[s].acl = t
              /\ old[s].text \in Texts
              /\ r \in Rows /\ r.source = s /\ r.text = old[s].text
              /\ r.reviewed = "false"
  <1>1. PICK s \in Indexed(old, t) : r \in ChunkRows(s, old[s].text, "connector", "false")
    OBVIOUS
  <1>2. s \in Sources /\ old[s] \in Records /\ old[s].acl = t
    BY ConnectorAssumption DEF Indexed, OldRecords, RecordOrNone
  <1>3. old[s].text \in Texts
    BY <1>2 DEF Records
  <1>4. r \in Rows
    BY <1>1, <1>2, <1>3, ChunkRowsType DEF Origins
  <1>5. r.source = s /\ r.text = old[s].text /\ r.reviewed = "false"
    BY <1>1 DEF ChunkRows
  <1>6. QED
    BY <1>2, <1>3, <1>4, <1>5

LEMMA InitTypeOK == Init => TypeOK
  <1> SUFFICES ASSUME Init PROVE TypeOK
    OBVIOUS
  <1>1. sync \in [Syncs -> SyncCalls]
    BY NoSyncType DEF Init
  <1>2. CallsOK
    BY DEF Init, CallsOK, NoSync
  <1>3. PICK old \in OldRecords :
          /\ upstream = old
          /\ store = [t \in Tiers |-> UNION {ChunkRows(s, old[s].text, "connector", "false") :
                                               s \in Indexed(old, t)}]
          /\ plain = [t \in Tiers |-> Indexed(old, t)]
          /\ published = UNION {{<<t, s, old[s].text>> : s \in Indexed(old, t)} : t \in Tiers}
    BY DEF Init
  <1>4. upstream \in [Sources -> RecordOrNone]
    BY <1>3 DEF OldRecords
  <1>5. \A t \in Tiers : Indexed(old, t) \subseteq Sources
    BY ConnectorAssumption DEF Indexed
  <1>6. plain \in [Tiers -> SUBSET Sources]
    BY <1>3, <1>5
  <1>7. store \in [Tiers -> SUBSET Rows]
    <2>1. ASSUME NEW t \in Tiers
          PROVE  UNION {ChunkRows(s, old[s].text, "connector", "false") :
                           s \in Indexed(old, t)} \in SUBSET Rows
      BY OldRows
    <2>2. QED
      BY <1>3, <2>1
  <1>8. published \subseteq Tiers \X Sources \X Texts
    <2> SUFFICES ASSUME NEW t \in Tiers, NEW s \in Indexed(old, t)
                 PROVE  <<t, s, old[s].text>> \in Tiers \X Sources \X Texts
      BY <1>3
    <2>1. old[s] \in Records
      BY ConnectorAssumption DEF Indexed, OldRecords, RecordOrNone
    <2>2. old[s].text \in Texts
      BY <2>1 DEF Records
    <2>3. QED
      BY <1>5, <2>2
  <1>9. signoffs = {} /\ events = 0
    BY DEF Init
  <1>10. QED
    BY <1>1, <1>2, <1>4, <1>6, <1>7, <1>8, <1>9 DEF TypeOK

\* What a sync that still has something to write knows about it.
LEMMA TodoKnown ==
    ASSUME TypeOK, NEW w \in Syncs, NEW s \in sync[w].todo, sync[w].pc = "apply"
    PROVE  /\ s \in Sources
           /\ TierSeq[sync[w].tier] \in Tiers
           /\ sync[w].want[s] \in Records
           /\ sync[w].want[s].text \in Texts
           /\ sync[w].want[s].acl = TierSeq[sync[w].tier]
  <1>1. sync[w] \in SyncCalls
    BY DEF TypeOK
  <1>2. s \in Sources
    BY <1>1 DEF SyncCalls
  <1>3. sync[w].tier \in 1 .. Len(TierSeq)
    BY <1>1, ConnectorAssumption DEF TypeOK, CallsOK, SyncCalls
  <1>4. sync[w].want[s] \in Records /\ sync[w].want[s].acl = TierSeq[sync[w].tier]
    BY DEF TypeOK, CallsOK
  <1>5. QED
    BY <1>2, <1>3, <1>4, TierInTiers DEF Records

\* The record a sync is about to add.
LEMMA AddKnown ==
    ASSUME TypeOK, NEW w \in Syncs, SyncAdd(w)
    PROVE  LET t == TierSeq[sync[w].tier]
               s == sync[w].source
               v == sync[w].want[s].text
           IN /\ t \in Tiers /\ s \in Sources /\ v \in Texts
              /\ sync[w].want[s] \in Records /\ sync[w].want[s].acl = t
              /\ store' = [store EXCEPT ![t] =
                              AddChunks(store[t], ChunkRows(s, v, "connector", "false"))]
  <1>1. sync[w].source # None
    BY DEF SyncAdd
  <1>2. sync[w].pc = "apply" /\ sync[w].source \in sync[w].todo
    BY <1>1 DEF TypeOK, CallsOK
  <1>3. QED
    BY <1>2, TodoKnown DEF SyncAdd

LEMMA ProgressTypeOK ==
    ASSUME TypeOK, NEW w \in Syncs, Progress(w)
    PROVE  TypeOK'
  <1>w. sync \in [Syncs -> SyncCalls]
    BY DEF TypeOK
  <1>1. ASSUME NEW s \in Sources, SyncDelete(w, s) PROVE TypeOK'
    <2>1. sync' \in [Syncs -> SyncCalls]
      <3> DEFINE c == [sync[w] EXCEPT !.gone = @ \ {s}]
      <3>1. sync' = [sync EXCEPT ![w] = c]
        BY <1>1 DEF SyncDelete
      <3>2. c \in SyncCalls
        BY <1>w DEF SyncCalls
      <3> HIDE DEF c
      <3>3. QED
        BY <1>w, <3>1, <3>2
    <2>2. CallsOK'
      BY <1>1, <1>w DEF SyncDelete, SyncCalls, CallsOK, TypeOK
    <2>3. store' \in [Tiers -> SUBSET Rows]
      BY <1>1 DEF SyncDelete, DeleteSource, TypeOK
    <2>4. plain' \in [Tiers -> SUBSET Sources]
      BY <1>1 DEF SyncDelete, TypeOK
    <2>5. QED
      BY <1>1, <2>1, <2>2, <2>3, <2>4 DEF SyncDelete, TypeOK
  <1>2. ASSUME NEW s \in Sources, SyncReplace(w, s) PROVE TypeOK'
    <2>1. sync' \in [Syncs -> SyncCalls]
      <3> DEFINE c == [sync[w] EXCEPT !.source = s]
      <3>1. sync' = [sync EXCEPT ![w] = c]
        BY <1>2 DEF SyncReplace
      <3>2. c \in SyncCalls
        BY <1>w DEF SyncCalls
      <3> HIDE DEF c
      <3>3. QED
        BY <1>w, <3>1, <3>2
    <2>2. CallsOK'
      BY <1>2, <1>w DEF SyncReplace, SyncCalls, CallsOK, TypeOK
    <2>3. store' \in [Tiers -> SUBSET Rows]
      BY <1>2 DEF SyncReplace, DeleteSource, TypeOK
    <2>4. plain' \in [Tiers -> SUBSET Sources]
      BY <1>2 DEF SyncReplace, TypeOK
    <2>5. QED
      BY <1>2, <2>1, <2>2, <2>3, <2>4 DEF SyncReplace, TypeOK
  <1>3. CASE SyncDiff(w)
    <2> DEFINE t == TierSeq[sync[w].tier]
               want == sync[w].want
    <2>1. PICK seen \in [Sources -> Texts \cup {None}] :
            sync' = [sync EXCEPT ![w] =
                       [pc |-> "apply", tier |-> sync[w].tier, want |-> want,
                        gone |-> Gone(store[t], want, t),
                        todo |-> Changed(want, t, seen), source |-> None,
                        since |-> sync[w].since]]
      BY <1>3 DEF SyncDiff
    <2>2. /\ sync[w].tier \in 1 .. Len(TierSeq) /\ t \in Tiers
          /\ want \in [Sources -> RecordOrNone]
      <3>1. sync[w].pc = "tier" /\ sync[w].tier <= Len(TierSeq)
        BY <1>3 DEF SyncDiff
      <3>2. sync[w].tier \in Nat /\ sync[w].tier >= 1
        BY <1>w, <3>1 DEF SyncCalls, TypeOK, CallsOK
      <3>3. sync[w].tier \in 1 .. Len(TierSeq)
        BY <3>1, <3>2, ConnectorAssumption
      <3>4. QED
        BY <3>3, <1>w, TierInTiers DEF SyncCalls
    <2>3. Gone(store[t], want, t) \in SUBSET Sources
      BY <2>2 DEF Gone, IndexedSources, Rows, TypeOK
    <2>4. Changed(want, t, seen) \in SUBSET Sources
      BY DEF Changed, Wanted
    <2>5. \A s \in Changed(want, t, seen) : want[s] \in Records /\ want[s].acl = t
      BY <2>2 DEF Changed, Wanted, RecordOrNone
    <2> HIDE DEF t, want
    <2>6. [pc |-> "apply", tier |-> sync[w].tier, want |-> want,
           gone |-> Gone(store[t], want, t),
           todo |-> Changed(want, t, seen), source |-> None,
           since |-> sync[w].since] \in SyncCalls
      BY <2>2, <2>3, <2>4, <1>w DEF SyncCalls
    <2>7. sync' \in [Syncs -> SyncCalls]
      BY <2>1, <2>6, <1>w
    <2>8. CallsOK'
      <3>1. ASSUME NEW x \in Syncs, x # w PROVE sync'[x] = sync[x]
        BY <2>1, <3>1, <1>w
      <3>2. /\ sync'[w].pc = "apply" /\ sync'[w].tier = sync[w].tier
            /\ sync'[w].want = want /\ sync'[w].source = None
            /\ sync'[w].todo = Changed(want, t, seen)
        BY <2>1, <1>w
      <3>3. QED
        BY <3>1, <3>2, <2>2, <2>5 DEF CallsOK, TypeOK, t
    <2>9. QED
      BY <1>3, <2>7, <2>8 DEF SyncDiff, TypeOK
  <1>4. CASE SyncAdd(w)
    <2> DEFINE t == TierSeq[sync[w].tier]
               s == sync[w].source
               v == sync[w].want[s].text
    <2>1. /\ t \in Tiers /\ s \in Sources /\ v \in Texts
          /\ store' = [store EXCEPT ![t] =
                          AddChunks(store[t], ChunkRows(s, v, "connector", "false"))]
      BY <1>4, AddKnown
    <2>2. sync' \in [Syncs -> SyncCalls]
      <3> DEFINE c == [sync[w] EXCEPT !.source = None, !.todo = @ \ {s}]
      <3>1. sync' = [sync EXCEPT ![w] = c]
        BY <1>4 DEF SyncAdd
      <3>2. c \in SyncCalls
        BY <1>w DEF SyncCalls
      <3> HIDE DEF c
      <3>3. QED
        BY <1>w, <3>1, <3>2
    <2>3. CallsOK'
      BY <1>4, <1>w DEF SyncAdd, SyncCalls, CallsOK, TypeOK
    <2> HIDE DEF t, s, v
    <2>4. AddChunks(store[t], ChunkRows(s, v, "connector", "false")) \in SUBSET Rows
      <3>1. ChunkRows(s, v, "connector", "false") \in SUBSET Rows
        BY <2>1, ChunkRowsType DEF Origins
      <3>2. store[t] \in SUBSET Rows
        BY <2>1 DEF TypeOK
      <3>3. QED
        BY <3>1, <3>2, AddChunksType
    <2>5. store' \in [Tiers -> SUBSET Rows]
      BY <2>1, <2>4 DEF TypeOK
    <2>6. QED
      BY <1>4, <2>2, <2>3, <2>5 DEF SyncAdd, TypeOK
  <1>5. CASE SyncNextTier(w)
    <2>1. sync' \in [Syncs -> SyncCalls]
      BY <1>5, <1>w DEF SyncNextTier, SyncCalls
    <2>2. CallsOK'
      BY <1>5, <1>w DEF SyncNextTier, SyncCalls, CallsOK, TypeOK
    <2>3. QED
      BY <1>5, <2>1, <2>2 DEF SyncNextTier, TypeOK
  <1>6. CASE SyncDone(w)
    <2>1. CallsOK'
      BY <1>6, <1>w DEF SyncDone, CallsOK, TypeOK, NoSync
    <2>2. QED
      BY <1>6, <1>w, <2>1, NoSyncType DEF SyncDone, TypeOK
  <1>7. QED
    BY <1>1, <1>2, <1>3, <1>4, <1>5, <1>6 DEF Progress

LEMMA NextTypeOK == TypeOK /\ [Next]_vars => TypeOK'
  <1> SUFFICES ASSUME TypeOK, [Next]_vars PROVE TypeOK'
    OBVIOUS
  <1>w. sync \in [Syncs -> SyncCalls]
    BY DEF TypeOK
  <1>1. ASSUME NEW s \in Sources, NEW r \in RecordOrNone, UpstreamEdit(s, r)
        PROVE  TypeOK'
    <2>1. published' \subseteq Tiers \X Sources \X Texts
      <3>1. CASE r # None /\ r.acl \in Tiers
        <4>1. r.text \in Texts
          BY <3>1 DEF RecordOrNone, Records
        <4>2. QED
          BY <1>1, <3>1, <4>1 DEF UpstreamEdit, TypeOK
      <3>2. CASE ~(r # None /\ r.acl \in Tiers)
        BY <1>1, <3>2 DEF UpstreamEdit, TypeOK
      <3>3. QED
        BY <3>1, <3>2
    <2>2. upstream' \in [Sources -> RecordOrNone] /\ events' \in Nat /\ CallsOK'
      BY <1>1 DEF UpstreamEdit, TypeOK, CallsOK
    <2>3. QED
      BY <1>1, <2>1, <2>2 DEF UpstreamEdit, TypeOK
  <1>2. ASSUME NEW w \in Syncs, SyncFetch(w) PROVE TypeOK'
    <2> DEFINE want == [s \in Sources |-> ToDocument(upstream[s])]
    <2>1. want \in [Sources -> RecordOrNone]
      BY DEF ToDocument, RecordOrNone, TypeOK
    <2> HIDE DEF want
    <2>2. sync' = [sync EXCEPT ![w] = [pc |-> "tier", tier |-> 1, want |-> want,
                       gone |-> {}, todo |-> {}, source |-> None, since |-> events']]
          /\ events' \in Nat
      BY <1>2 DEF SyncFetch, want, TypeOK
    <2>3. sync' \in [Syncs -> SyncCalls]
      BY <2>1, <2>2, <1>w DEF SyncCalls
    <2>4. CallsOK'
      BY <2>2, <1>w DEF CallsOK, TypeOK
    <2>5. QED
      BY <1>2, <2>3, <2>4 DEF SyncFetch, TypeOK
  <1>3. ASSUME NEW w \in Syncs, SyncFail(w) PROVE TypeOK'
    <2>1. CallsOK'
      BY <1>3, <1>w DEF SyncFail, CallsOK, TypeOK, NoSync
    <2>2. QED
      BY <1>3, <1>w, <2>1, NoSyncType DEF SyncFail, TypeOK
  <1>4. ASSUME NEW t \in Tiers, NEW s \in Sources, NEW h \in Texts \cup {None}, Approve(t, s, h)
        PROVE  TypeOK'
    <2>1. h \in Texts
      BY <1>4, CurrentRows DEF Approve
    <2>2. MarkReviewed(store[t], s, h) \in SUBSET Rows
      BY <2>1, MarkReviewedType DEF TypeOK
    <2>3. store' \in [Tiers -> SUBSET Rows]
      BY <1>4, <2>2 DEF Approve, TypeOK
    <2>4. signoffs' \subseteq Tiers \X Sources \X Texts
      BY <1>4, <2>1 DEF Approve, TypeOK
    <2>5. CallsOK'
      BY <1>4 DEF Approve, TypeOK, CallsOK
    <2>6. QED
      BY <1>4, <2>3, <2>4, <2>5 DEF Approve, TypeOK
  <1>5. ASSUME NEW t \in Tiers, NEW s \in Sources, NEW h \in Texts \cup {None}, Reject(t, s, h)
        PROVE  TypeOK'
    <2>1. store' \in [Tiers -> SUBSET Rows]
      BY <1>5 DEF Reject, TypeOK, DeleteSource
    <2>2. CallsOK'
      BY <1>5 DEF Reject, TypeOK, CallsOK
    <2>3. plain' \in [Tiers -> SUBSET Sources]
      BY <1>5 DEF Reject, TypeOK
    <2>4. QED
      BY <1>5, <2>1, <2>2, <2>3 DEF Reject, TypeOK
  <1>6. CASE Restart
    <2>1. CallsOK'
      BY <1>6 DEF Restart, CallsOK, NoSync
    <2>2. QED
      BY <1>6, <2>1, NoSyncType DEF Restart, TypeOK
  <1>7. CASE UNCHANGED vars
    BY <1>7 DEF vars, TypeOK, CallsOK
  <1>8. QED
    BY <1>1, <1>2, <1>3, <1>4, <1>5, <1>6, <1>7, ProgressTypeOK DEF Next

\* Every variable keeps its type, and a sync that is writing a record knows the
\* version and that upstream has it in the tier the sync is at.
THEOREM ConnectorTypeOK == Spec => []TypeOK
  BY InitTypeOK, NextTypeOK, PTL DEF Spec

-----------------------------------------------------------------------------
(* What one step does to the store *)

StoreKept == store' = store /\ signoffs' = signoffs

StoreDelete == \E t \in Tiers, s \in Sources :
    store' = [store EXCEPT ![t] = DeleteSource(store[t], s)] /\ signoffs' = signoffs

StoreAdd == \E w \in Syncs, t \in Tiers, s \in Sources, v \in Texts :
    /\ sync[w].want[s] \in Records
    /\ sync[w].want[s].acl = t
    /\ sync[w].want[s].text = v
    /\ store' = [store EXCEPT ![t] = AddChunks(store[t], ChunkRows(s, v, "connector", "false"))]
    /\ signoffs' = signoffs

StoreSign == \E t \in Tiers, s \in Sources, h \in Texts :
    /\ IsCurrent(store[t], s, h)
    /\ store' = [store EXCEPT ![t] = MarkReviewed(store[t], s, h)]
    /\ signoffs' = signoffs \cup {<<t, s, h>>}

StoreStep == StoreKept \/ StoreDelete \/ StoreAdd \/ StoreSign

LEMMA NextStoreStep == TypeOK /\ [Next]_vars => StoreStep
  <1> SUFFICES ASSUME TypeOK, [Next]_vars PROVE StoreStep
    OBVIOUS
  <1>1. ASSUME NEW w \in Syncs, Progress(w) PROVE StoreStep
    <2>1. ASSUME NEW s \in Sources, SyncDelete(w, s) \/ SyncReplace(w, s) PROVE StoreStep
      <3>1. sync[w].pc = "apply"
        BY <2>1 DEF SyncDelete, SyncReplace
      <3>2. sync[w].tier \in 1 .. Len(TierSeq)
        BY <3>1, ConnectorAssumption DEF TypeOK, CallsOK, SyncCalls
      <3>3. TierSeq[sync[w].tier] \in Tiers
        BY <3>2, TierInTiers
      <3>4. QED
        BY <2>1, <3>3 DEF SyncDelete, SyncReplace, StoreStep, StoreDelete
    <2>2. CASE SyncAdd(w)
      <3>1. signoffs' = signoffs
        BY <2>2 DEF SyncAdd
      <3>2. QED
        BY <2>2, <3>1, AddKnown DEF StoreStep, StoreAdd
    <2>3. CASE SyncDiff(w) \/ SyncNextTier(w) \/ SyncDone(w)
      BY <2>3 DEF SyncDiff, SyncNextTier, SyncDone, StoreStep, StoreKept
    <2>4. QED
      BY <1>1, <2>1, <2>2, <2>3 DEF Progress
  <1>2. ASSUME NEW t \in Tiers, NEW s \in Sources, NEW h \in Texts \cup {None}, Approve(t, s, h)
        PROVE  StoreStep
    <2>1. h \in Texts
      BY <1>2, CurrentRows DEF Approve
    <2>2. QED
      BY <1>2, <2>1 DEF Approve, StoreStep, StoreSign
  <1>3. ASSUME NEW t \in Tiers, NEW s \in Sources, NEW h, Reject(t, s, h)
        PROVE  StoreStep
    BY <1>3 DEF Reject, StoreStep, StoreDelete
  <1>4. CASE \/ Restart \/ UNCHANGED vars
             \/ \E s \in Sources, r \in RecordOrNone : UpstreamEdit(s, r)
             \/ \E w \in Syncs : SyncFetch(w) \/ SyncFail(w)
    BY <1>4 DEF Restart, vars, UpstreamEdit, SyncFetch, SyncFail, StoreStep, StoreKept
  <1>5. QED
    BY <1>1, <1>2, <1>3, <1>4 DEF Next

-----------------------------------------------------------------------------
(* Tiers *)

Published(r, s) == r \in Records /\ r.acl \in Tiers => <<r.acl, s, r.text>> \in published

\* The inductive form of TierInherited: what upstream says now, and what any
\* sync ever fetched, has been published in its tier.
TierInv ==
    /\ TierInherited
    /\ \A s \in Sources : Published(upstream[s], s)
    /\ \A w \in Syncs, s \in Sources : Published(sync[w].want[s], s)

LEMMA TierStore ==
    ASSUME TypeOK, TierInv, StoreStep, published \subseteq published'
    PROVE  TierInherited'
  <1> SUFFICES ASSUME NEW u \in Tiers, NEW r \in store'[u]
               PROVE  <<u, r.source, r.text>> \in published'
    BY DEF TierInherited
  <1>t. \A t \in Tiers : store[t] \in SUBSET Rows
    BY DEF TypeOK
  <1>1. ASSUME NEW q \in store[u], q.source = r.source, q.text = r.text
        PROVE  <<u, r.source, r.text>> \in published'
    BY <1>1 DEF TierInv, TierInherited
  <1>2. CASE StoreKept
    BY <1>2, <1>1 DEF StoreKept
  <1>3. CASE StoreDelete
    BY <1>3, <1>1 DEF StoreDelete, DeleteSource, TypeOK
  <1>4. CASE StoreAdd
    <2>1. PICK w \in Syncs, t \in Tiers, s \in Sources, v \in Texts :
            /\ sync[w].want[s] \in Records
            /\ sync[w].want[s].acl = t
            /\ sync[w].want[s].text = v
            /\ store' = [store EXCEPT ![t] =
                            AddChunks(store[t], ChunkRows(s, v, "connector", "false"))]
            /\ signoffs' = signoffs
      BY <1>4 DEF StoreAdd
    <2> DEFINE new == ChunkRows(s, v, "connector", "false")
    <2>2. CASE u # t
      BY <2>1, <2>2, <1>1 DEF TypeOK
    <2>3. CASE u = t
      <3>1. new \in SUBSET Rows /\ \A n \in new : n.source = s /\ n.text = v
        <4>1. new \in SUBSET Rows
          BY <2>1, ChunkRowsType DEF Origins
        <4>2. \A n \in new : n.source = s /\ n.text = v
          BY DEF ChunkRows
        <4>3. QED
          BY <4>1, <4>2
      <3>2. r \in AddChunks(store[u], new)
        BY <2>1, <2>3 DEF TypeOK
      <3> HIDE DEF new
      <3>3. PICK q \in store[u] \cup new : q.source = r.source /\ q.text = r.text
        BY <3>1, <3>2, <1>t, AddedContents
      <3>4. CASE q \in new
        <4>1. r.source = s /\ r.text = v
          BY <3>1, <3>3, <3>4
        <4>2. <<t, s, v>> \in published
          BY <2>1 DEF TierInv, Published
        <4>3. QED
          BY <4>1, <4>2, <2>3
      <3>5. CASE q \in store[u]
        BY <3>3, <3>5, <1>1
      <3>6. QED
        BY <3>4, <3>5
    <2>4. QED
      BY <2>2, <2>3
  <1>5. CASE StoreSign
    <2>1. PICK t \in Tiers, s \in Sources, h \in Texts :
            store' = [store EXCEPT ![t] = MarkReviewed(store[t], s, h)]
      BY <1>5 DEF StoreSign
    <2>2. CASE u # t
      BY <2>1, <2>2, <1>1 DEF TypeOK
    <2>3. CASE u = t
      <3>1. r \in MarkReviewed(store[u], s, h)
        BY <2>1, <2>3 DEF TypeOK
      <3>2. PICK q \in store[u] : q.source = r.source /\ q.text = r.text
        BY <3>1, <1>t, MarkedContents
      <3>3. QED
        BY <3>2, <1>1
    <2>4. QED
      BY <2>2, <2>3
  <1>6. QED
    BY <1>2, <1>3, <1>4, <1>5 DEF StoreStep

LEMMA TierStep == TypeOK /\ TierInv /\ [Next]_vars => TierInv'
  <1> SUFFICES ASSUME TypeOK, TierInv, [Next]_vars PROVE TierInv'
    OBVIOUS
  <1>w. sync \in [Syncs -> SyncCalls] /\ upstream \in [Sources -> RecordOrNone]
    BY DEF TypeOK
  <1>1. /\ published \subseteq published'
        /\ \A s \in Sources : Published(upstream[s], s)'
    <2>1. ASSUME NEW s \in Sources, NEW r \in RecordOrNone, UpstreamEdit(s, r)
          PROVE  /\ published \subseteq published'
                 /\ \A x \in Sources : Published(upstream[x], x)'
      <3>1. published \subseteq published'
        BY <2>1 DEF UpstreamEdit
      <3>2. ASSUME NEW x \in Sources, x # s PROVE Published(upstream[x], x)'
        BY <2>1, <3>1, <3>2, <1>w DEF UpstreamEdit, Published, TierInv
      <3>3. Published(upstream[s], s)'
        <4>1. upstream'[s] = r
          BY <2>1, <1>w DEF UpstreamEdit
        <4>2. CASE r # None
          BY <2>1, <4>1, <4>2 DEF UpstreamEdit, Published
        <4>3. CASE r = None
          <5>1. CASE r \in Records
            BY <2>1, <4>1, <4>3, <5>1, NoneIsNoRecord
          <5>2. CASE r \notin Records
            BY <4>1, <5>2 DEF Published
          <5>3. QED
            BY <5>1, <5>2
        <4>4. QED
          BY <4>2, <4>3
      <3>4. QED
        BY <3>1, <3>2, <3>3
    <2>2. CASE UNCHANGED <<upstream, published>>
      BY <2>2 DEF TierInv, Published
    <2>3. ASSUME NEW w \in Syncs, SyncFetch(w) \/ Progress(w) \/ SyncFail(w)
          PROVE  UNCHANGED <<upstream, published>>
      BY <2>3 DEF SyncFetch, SyncFail, Progress, SyncDiff, SyncDelete, SyncReplace,
                  SyncAdd, SyncNextTier, SyncDone
    <2>4. ASSUME Restart \/ UNCHANGED vars
                 \/ \E t \in Tiers, s \in Sources, h \in Texts \cup {None} :
                        Approve(t, s, h) \/ Reject(t, s, h)
          PROVE  UNCHANGED <<upstream, published>>
      BY <2>4 DEF Restart, vars, Approve, Reject
    <2>5. QED
      BY <2>1, <2>2, <2>3, <2>4 DEF Next
  <1>2. \A w \in Syncs, s \in Sources : Published(sync[w].want[s], s)'
    <2> SUFFICES ASSUME NEW x \in Syncs, NEW s \in Sources
                 PROVE  Published(sync[x].want[s], s)'
      OBVIOUS
    <2>1. CASE sync'[x].want = sync[x].want
      BY <2>1, <1>1 DEF TierInv, Published
    <2>2. CASE sync'[x] = NoSync
      <3>1. sync'[x].want[s] = None
        BY <2>2 DEF NoSync
      <3>2. QED
        BY <3>1, NoneIsNoRecord DEF Published
    <2>3. ASSUME NEW w \in Syncs, SyncFetch(w) PROVE Published(sync[x].want[s], s)'
      <3>1. CASE x = w
        <4>1. sync'[x].want[s] = ToDocument(upstream[s])
          BY <2>3, <3>1, <1>w DEF SyncFetch
        <4>2. sync'[x].want[s] = upstream[s] \/ sync'[x].want[s] = None
          BY <4>1 DEF ToDocument
        <4>3. QED
          BY <4>2, <1>1, NoneIsNoRecord DEF Published, TierInv
      <3>2. CASE x # w
        BY <2>1, <2>3, <3>2, <1>w DEF SyncFetch
      <3>3. QED
        BY <3>1, <3>2
    <2>4. ASSUME NEW w \in Syncs, Progress(w) \/ SyncFail(w)
          PROVE  sync'[x].want = sync[x].want \/ sync'[x] = NoSync
      <3>1. CASE SyncAdd(w) \/ SyncNextTier(w)
        <4>1. \/ sync' = [sync EXCEPT ![w].source = None, ![w].todo = @ \ {sync[w].source}]
              \/ sync' = [sync EXCEPT ![w].pc = "tier", ![w].tier = @ + 1]
          BY <3>1 DEF SyncAdd, SyncNextTier
        <4>2. CASE x # w
          BY <4>1, <4>2, <1>w
        <4>3. CASE x = w
          <5>1. sync[w] \in SyncCalls
            BY <1>w
          <5>2. \/ sync'[w] = [sync[w] EXCEPT !.source = None, !.todo = @ \ {sync[w].source}]
                \/ sync'[w] = [sync[w] EXCEPT !.pc = "tier", !.tier = @ + 1]
            BY <4>1, <1>w
          <5>3. sync'[w].want = sync[w].want
            BY <5>1, <5>2 DEF SyncCalls
          <5>4. QED
            BY <5>3, <4>3
        <4>4. QED
          BY <4>2, <4>3
      <3>2. ASSUME NEW y \in Sources, SyncDelete(w, y) \/ SyncReplace(w, y)
            PROVE  sync'[x].want = sync[x].want
        <4>1. CASE SyncDelete(w, y)
          BY <4>1, <1>w DEF SyncDelete, SyncCalls
        <4>2. CASE SyncReplace(w, y)
          BY <4>2, <1>w DEF SyncReplace, SyncCalls
        <4>3. QED
          BY <3>2, <4>1, <4>2
      <3>3. CASE SyncDiff(w)
        BY <3>3, <1>w DEF SyncDiff
      <3>4. CASE SyncDone(w) \/ SyncFail(w)
        BY <3>4, <1>w DEF SyncDone, SyncFail
      <3>5. QED
        BY <2>4, <3>1, <3>2, <3>3, <3>4 DEF Progress
    <2>5. ASSUME \/ Restart \/ UNCHANGED vars
                 \/ \E y \in Sources, r \in RecordOrNone : UpstreamEdit(y, r)
                 \/ \E t \in Tiers, y \in Sources, h \in Texts \cup {None} :
                        Approve(t, y, h) \/ Reject(t, y, h)
          PROVE  sync'[x].want = sync[x].want \/ sync'[x] = NoSync
      BY <2>5 DEF Restart, vars, UpstreamEdit, Approve, Reject
    <2>6. QED
      BY <2>1, <2>2, <2>3, <2>4, <2>5 DEF Next
  <1>3. TierInherited'
    BY <1>1, NextStoreStep, TierStore
  <1>4. QED
    BY <1>1, <1>2, <1>3 DEF TierInv

\* Nothing is ever indexed in a tier in which upstream did not publish it: not
\* by a sync that works from a stale fetch, not by two that overlap, and not
\* after a failure or a restart.
THEOREM ConnectorTiers == Spec => []TierInherited
  <1>1. Init => TierInv
    <2> SUFFICES ASSUME Init PROVE TierInv
      OBVIOUS
    <2>1. PICK old \in OldRecords :
            /\ upstream = old
            /\ store = [t \in Tiers |-> UNION {ChunkRows(s, old[s].text, "connector", "false") :
                                                 s \in Indexed(old, t)}]
            /\ published = UNION {{<<t, s, old[s].text>> : s \in Indexed(old, t)} : t \in Tiers}
      BY DEF Init
    <2>2. \A w \in Syncs, s \in Sources : sync[w].want[s] = None
      BY DEF Init, NoSync
    <2>3. ASSUME NEW t \in Tiers, NEW s \in Indexed(old, t)
          PROVE  <<t, s, old[s].text>> \in published
      BY <2>1
    <2>4. TierInherited
      <3> SUFFICES ASSUME NEW t \in Tiers, NEW r \in store[t]
                   PROVE  <<t, r.source, r.text>> \in published
        BY DEF TierInherited
      <3>1. PICK s \in Indexed(old, t) : r.source = s /\ r.text = old[s].text
        BY <2>1, OldRows
      <3>2. QED
        BY <3>1, <2>3
    <2>5. ASSUME NEW s \in Sources PROVE Published(upstream[s], s)
      <3>1. CASE old[s] = None
        BY <3>1, <2>1, NoneIsNoRecord DEF Published
      <3>2. CASE old[s] # None
        <4>1. old[s].acl \in Tiers /\ s \in Indexed(old, old[s].acl)
          BY <3>2 DEF OldRecords, Indexed
        <4>2. QED
          BY <4>1, <2>1, <2>3 DEF Published
      <3>3. QED
        BY <3>1, <3>2
    <2>6. QED
      BY <2>2, <2>4, <2>5, NoneIsNoRecord DEF TierInv, Published
  <1>2. TypeOK /\ TierInv /\ [Next]_vars => TierInv'
    BY TierStep
  <1>3. TierInv => TierInherited
    BY DEF TierInv
  <1>4. QED
    BY <1>1, <1>2, <1>3, ConnectorTypeOK, PTL DEF Spec

-----------------------------------------------------------------------------
(* Trust *)

Answers == {x \in (Tiers \X Sources) \X Texts : <<x[1][2], x[2]>> \in Answerable(store[x[1][1]])}

Signed == {<<<<g[1], g[2]>>, g[3]>> : g \in signoffs}

LEMMA WithdrawStep ==
    ASSUME TypeOK, StoreKept \/ StoreDelete \/ StoreAdd
    PROVE  Answers' \subseteq Answers /\ Signed' = Signed
  <1>1. signoffs' = signoffs
    BY DEF StoreKept, StoreDelete, StoreAdd
  <1>2. ASSUME NEW t \in Tiers PROVE Answerable(store'[t]) \subseteq Answerable(store[t])
    <2>1. CASE StoreKept
      BY <2>1 DEF StoreKept
    <2>2. CASE StoreDelete
      BY <2>2, DeletedAnswers DEF StoreDelete, TypeOK
    <2>3. CASE StoreAdd
      BY <2>3, AddedAnswers DEF StoreAdd, TypeOK
    <2>4. QED
      BY <2>1, <2>2, <2>3
  <1>3. QED
    BY <1>1, <1>2 DEF Answers, Signed

LEMMA SignStep ==
    ASSUME TypeOK, StoreSign
    PROVE  \E c \in Tiers \X Sources, h \in Texts :
              /\ Signed' = Signed \cup {<<c, h>>}
              /\ Answers' = {p \in Answers : p[1] # c} \cup {<<c, h>>}
  <1>1. PICK t \in Tiers, s \in Sources, h \in Texts :
          /\ IsCurrent(store[t], s, h)
          /\ store' = [store EXCEPT ![t] = MarkReviewed(store[t], s, h)]
          /\ signoffs' = signoffs \cup {<<t, s, h>>}
    BY DEF StoreSign
  <1>2. Answerable(store'[t]) = {p \in Answerable(store[t]) : p[1] # s} \cup {<<s, h>>}
    <2>1. store[t] \in SUBSET Rows
      BY DEF TypeOK
    <2>2. store'[t] = MarkReviewed(store[t], s, h)
      BY <1>1 DEF TypeOK
    <2>3. QED
      BY <1>1, <2>1, <2>2, MarkedAnswers
  <1>3. \A u \in Tiers \ {t} : store'[u] = store[u]
    BY <1>1 DEF TypeOK
  <1>4. Signed' = Signed \cup {<<<<t, s>>, h>>}
    <2> DEFINE g0 == <<t, s, h>>
    <2>1. g0[1] = t /\ g0[2] = s /\ g0[3] = h
      OBVIOUS
    <2> HIDE DEF g0
    <2>2. signoffs' = signoffs \cup {g0}
      BY <1>1 DEF g0
    <2>3. QED
      BY <2>1, <2>2 DEF Signed
  <1>5. ASSUME NEW u \in Tiers, NEW y \in Sources, NEW v \in Texts
        PROVE  <<<<u, y>>, v>> \in Answers' <=>
                 \/ <<<<u, y>>, v>> \in Answers /\ ~(u = t /\ y = s)
                 \/ u = t /\ y = s /\ v = h
    BY <1>2, <1>3 DEF Answers
  <1>6. Answers' = {p \in Answers : p[1] # <<t, s>>} \cup {<<<<t, s>>, h>>}
    <2>1. \A p \in Answers \cup Answers' : \E u \in Tiers, y \in Sources, v \in Texts : p = <<<<u, y>>, v>>
      BY DEF Answers
    <2>2. \A u \in Tiers, y \in Sources : <<u, y>> = <<t, s>> <=> u = t /\ y = s
      OBVIOUS
    <2>3. ASSUME NEW p \in Answers' PROVE p \in {q \in Answers : q[1] # <<t, s>>} \cup {<<<<t, s>>, h>>}
      BY <1>5, <2>1, <2>2
    <2>4. ASSUME NEW p \in Answers, p[1] # <<t, s>> PROVE p \in Answers'
      BY <1>5, <2>1, <2>2, <2>4
    <2>5. <<<<t, s>>, h>> \in Answers'
      BY <1>5
    <2>6. QED
      BY <2>3, <2>4, <2>5
  <1>7. QED
    BY <1>4, <1>6

\* A connector record becomes answerable only in the step that signs off that
\* version in that tier, and no sync, however many overlap, ever makes one
\* answerable: what it upserts over a signed chunk says reviewed = False.
THEOREM ConnectorRefinement == Spec => GateRefined
  <1>1. Init => Gate!GateInit
    <2> SUFFICES ASSUME Init PROVE Gate!GateInit
      OBVIOUS
    <2>1. \A t \in Tiers : \A r \in store[t] : r.reviewed = "false"
      BY OldRows DEF Init
    <2>2. \A t \in Tiers : Answerable(store[t]) = {}
      BY <2>1 DEF Answerable
    <2>3. signoffs = {}
      BY DEF Init
    <2>4. QED
      BY <2>2, <2>3 DEF Gate!GateInit
  <1>2. TypeOK /\ [Next]_vars => [Gate!GateNext]_(Gate!gateVars)
    <2> SUFFICES ASSUME TypeOK, [Next]_vars PROVE [Gate!GateNext]_(Gate!gateVars)
      OBVIOUS
    <2>1. StoreStep
      BY NextStoreStep
    <2>2. CASE StoreSign
      BY <2>2, SignStep DEF Answers, Signed, Gate!GateNext, Gate!SignOff
    <2>3. CASE StoreKept \/ StoreDelete \/ StoreAdd
      BY <2>3, WithdrawStep DEF Answers, Signed, Gate!GateNext, Gate!Withdraw
    <2>4. QED
      BY <2>1, <2>2, <2>3 DEF StoreStep
  <1>3. QED
    BY <1>1, <1>2, ConnectorTypeOK, PTL DEF Spec, GateRefined, Gate!GateSpec

\* What may be answered from a tier was signed off in that tier, and it is one
\* version of the record: any number of overlapping syncs, edits upstream, failures
\* and restarts only ever take answers away.
THEOREM ConnectorAnswers == Spec => []Gate!GateSafe
  <1>1. Gate!GateInit => Gate!GateSafe
    BY DEF Gate!GateInit, Gate!GateSafe
  <1>2. Gate!GateSafe /\ [Gate!GateNext]_(Gate!gateVars) => Gate!GateSafe'
    <2> DEFINE Safe(A, S) == A \subseteq S /\ \A p, q \in A : p[1] = q[1] => p = q
    <2>1. (Gate!GateSafe <=> Safe(Answers, Signed))
          /\ (Gate!GateSafe' <=> Safe(Answers', Signed'))
      BY DEF Gate!GateSafe, Answers, Signed
    <2>2. ASSUME [Gate!GateNext]_(Gate!gateVars)
          PROVE  \/ Answers' \subseteq Answers /\ Signed' = Signed
                 \/ \E c \in Tiers \X Sources, v \in Texts :
                      /\ Signed' = Signed \cup {<<c, v>>}
                      /\ Answers' = {p \in Answers : p[1] # c} \cup {<<c, v>>}
      <3>1. CASE Gate!Withdraw \/ UNCHANGED Gate!gateVars
        BY <3>1 DEF Gate!Withdraw, Gate!gateVars, Answers, Signed
      <3>2. ASSUME NEW c \in Tiers \X Sources, NEW v \in Texts, Gate!SignOff(c, v)
            PROVE  /\ Signed' = Signed \cup {<<c, v>>}
                   /\ Answers' = {p \in Answers : p[1] # c} \cup {<<c, v>>}
        BY <3>2 DEF Gate!SignOff, Answers, Signed
      <3>3. QED
        BY <2>2, <3>1, <3>2 DEF Gate!GateNext
    <2>3. ASSUME Safe(Answers, Signed), Answers' \subseteq Answers, Signed' = Signed
          PROVE  Safe(Answers', Signed')
      BY <2>3
    <2>4. ASSUME Safe(Answers, Signed), NEW c, NEW v, Signed' = Signed \cup {<<c, v>>},
                 Answers' = {p \in Answers : p[1] # c} \cup {<<c, v>>}
          PROVE  Safe(Answers', Signed')
      BY <2>4
    <2> HIDE DEF Safe
    <2>5. QED
      BY <2>1, <2>2, <2>3, <2>4
  <1>3. Gate!GateSpec => []Gate!GateSafe
    BY <1>1, <1>2, PTL DEF Gate!GateSpec
  <1>4. QED
    BY <1>3, ConnectorRefinement, PTL DEF GateRefined

-----------------------------------------------------------------------------
(* One sync at a time *)

Shown(t, s) == ShownTexts(RowsOf(store[t], s))

Positions(t, s) == IndexesOf(RowsOf(store[t], s))

\* To the diff and to a reader the chunks of s in tier t are as they were.
Kept(t, s) ==
    /\ Shown(t, s)' = Shown(t, s)
    /\ Positions(t, s)' = Positions(t, s)
    /\ s \in plain[t] => s \in plain'[t]

\* What one step does to the chunks of s in tier t, unless it indexes s there.
Indexes(w, t, s) == SyncAdd(w) /\ TierSeq[sync[w].tier] = t /\ sync[w].source = s

LEMMA DeleteShows ==
    ASSUME TypeOK, NEW t \in Tiers, NEW s \in Sources, NEW u \in Tiers, NEW x \in Sources,
           store' = [store EXCEPT ![u] = DeleteSource(store[u], x)],
           plain' = [plain EXCEPT ![u] = @ \ {x}]
    PROVE  \/ Shown(t, s)' = {}
           \/ Kept(t, s)
  <1>1. CASE u = t /\ x = s
    <2>1. store'[t] = DeleteSource(store[t], s)
      BY <1>1 DEF TypeOK
    <2>2. QED
      BY <2>1, DeletedRows DEF Shown, ShownTexts
  <1>2. CASE u = t /\ x # s
    <2>1. store'[t] = DeleteSource(store[t], x) /\ plain'[t] = plain[t] \ {x}
      BY <1>2 DEF TypeOK
    <2>2. RowsOf(store'[t], s) = RowsOf(store[t], s)
      BY <2>1, <1>2 DEF RowsOf, DeleteSource
    <2>3. QED
      BY <1>2, <2>1, <2>2 DEF Kept, Shown, Positions
  <1>3. CASE u # t
    BY <1>3 DEF Kept, Shown, Positions, TypeOK
  <1>4. QED
    BY <1>1, <1>2, <1>3

LEMMA StepShows ==
    ASSUME TypeOK, [Next]_vars, NEW t \in Tiers, NEW s \in Sources
    PROVE  \/ Shown(t, s)' = {}
           \/ Kept(t, s)
           \/ \E w \in Syncs : Indexes(w, t, s)
  <1> DEFINE Goal == \/ Shown(t, s)' = {}
                     \/ Kept(t, s)
                     \/ \E w \in Syncs : Indexes(w, t, s)
  <1>1. CASE UNCHANGED <<store, plain>>
    BY <1>1 DEF Kept, Shown, Positions
  <1>2. ASSUME NEW w \in Syncs, Progress(w) PROVE Goal
    <2>1. ASSUME NEW x \in Sources, SyncDelete(w, x) \/ SyncReplace(w, x) PROVE Goal
      <3>1. sync[w].tier \in 1 .. Len(TierSeq)
        BY <2>1, ConnectorAssumption DEF TypeOK, CallsOK, SyncCalls, SyncDelete, SyncReplace
      <3>2. TierSeq[sync[w].tier] \in Tiers
        BY <3>1, TierInTiers
      <3>3. QED
        BY <2>1, <3>2, DeleteShows DEF SyncDelete, SyncReplace
    <2>2. CASE SyncAdd(w)
      <3> DEFINE u == TierSeq[sync[w].tier]
                 x == sync[w].source
                 v == sync[w].want[x].text
      <3>1. /\ u \in Tiers /\ x \in Sources /\ v \in Texts
            /\ store' = [store EXCEPT ![u] =
                            AddChunks(store[u], ChunkRows(x, v, "connector", "false"))]
        BY <2>2, AddKnown
      <3>2. plain' = plain
        BY <2>2 DEF SyncAdd
      <3>3. CASE u = t /\ x = s
        BY <2>2, <3>3 DEF Indexes
      <3> HIDE DEF u, x, v
      <3>4. CASE u # t
        BY <3>1, <3>2, <3>4 DEF Kept, Shown, Positions, TypeOK
      <3>5. CASE u = t /\ x # s
        <4>1. store'[t] = AddChunks(store[t], ChunkRows(x, v, "connector", "false"))
          BY <3>1, <3>5 DEF TypeOK
        <4>2. store[t] \in SUBSET Rows
          BY DEF TypeOK
        <4>3. RowsOf(store'[t], s) = RowsOf(store[t], s)
          BY <3>1, <3>5, <4>1, <4>2, OtherRowsKept
        <4>4. QED
          BY <3>2, <4>3 DEF Kept, Shown, Positions
      <3>6. QED
        BY <3>3, <3>4, <3>5
    <2>3. CASE SyncDiff(w) \/ SyncNextTier(w) \/ SyncDone(w)
      BY <1>1, <2>3 DEF SyncDiff, SyncNextTier, SyncDone
    <2>4. QED
      BY <1>2, <2>1, <2>2, <2>3 DEF Progress
  <1>3. ASSUME NEW u \in Tiers, NEW x \in Sources, NEW h \in Texts \cup {None},
               Approve(u, x, h)
        PROVE  Goal
    <2>1. CASE u = t
      <3>1. store'[t] = MarkReviewed(store[t], x, h) /\ plain' = plain
        BY <1>3, <2>1 DEF Approve, TypeOK
      <3>2. store[t] \in SUBSET Rows
        BY DEF TypeOK
      <3>3. QED
        BY <3>1, <3>2, MarkedShows DEF Kept, Shown, Positions
    <2>2. CASE u # t
      BY <1>3, <2>2 DEF Approve, Kept, Shown, Positions, TypeOK
    <2>3. QED
      BY <2>1, <2>2
  <1>4. ASSUME NEW u \in Tiers, NEW x \in Sources, NEW h, Reject(u, x, h) PROVE Goal
    BY <1>4, DeleteShows DEF Reject
  <1>5. CASE \/ Restart \/ UNCHANGED vars
             \/ \E x \in Sources, r \in RecordOrNone : UpstreamEdit(x, r)
             \/ \E w \in Syncs : SyncFetch(w) \/ SyncFail(w)
    BY <1>1, <1>5 DEF Restart, vars, UpstreamEdit, SyncFetch, SyncFail
  <1>6. QED
    BY <1>2, <1>3, <1>4, <1>5 DEF Next

\* A collection of the ticket system holds nothing else.
FromConnector == \A t \in Tiers : \A r \in store[t] : r.origin = "connector"

\* The tier the loop's sync is at.
Here == TierSeq[sync[Loop].tier]

\* What the sync does not want in a tier it has dealt with is not there.
Left ==
    \A i \in 1 .. Len(TierSeq), s \in Sources :
        /\ sync[Loop].pc # "idle"
        /\ s \notin Wanted(sync[Loop].want, TierSeq[i])
        /\ \/ i < sync[Loop].tier
           \/ i = sync[Loop].tier /\ sync[Loop].pc = "apply" /\ s \notin sync[Loop].gone
        => Shown(TierSeq[i], s) = {}

\* It deletes nothing it wants.
Unwanted == sync[Loop].pc = "apply" => sync[Loop].gone \cap Wanted(sync[Loop].want, Here) = {}

\* What it is going to write it has good reason to write, still.
Outdated ==
    sync[Loop].pc = "apply" => \A s \in sync[Loop].todo :
        \/ Shown(Here, s) = {}
        \/ s \in plain[Here]
        \/ \E v \in Shown(Here, s) : v # sync[Loop].want[s].text

\* Between the two halves of _index the ticket is gone.
Replaced == sync[Loop].source # None => Shown(Here, sync[Loop].source) = {}

LoneInv == FromConnector /\ Left /\ Unwanted /\ Outdated /\ Replaced

LEMMA FromConnectorInit == Init => FromConnector
  <1> SUFFICES ASSUME Init, NEW t \in Tiers, NEW r \in store[t] PROVE r.origin = "connector"
    BY DEF FromConnector
  <1>1. PICK old \in OldRecords :
          store = [u \in Tiers |-> UNION {ChunkRows(s, old[s].text, "connector", "false") :
                                             s \in Indexed(old, u)}]
    BY DEF Init
  <1>2. PICK s : r \in ChunkRows(s, old[s].text, "connector", "false")
    BY <1>1
  <1>3. QED
    BY <1>2 DEF ChunkRows

LEMMA FromConnectorStep == TypeOK /\ FromConnector /\ [Next]_vars => FromConnector'
  <1> SUFFICES ASSUME TypeOK, FromConnector, [Next]_vars, NEW u \in Tiers, NEW r \in store'[u]
               PROVE  r.origin = "connector"
    BY DEF FromConnector
  <1>1. StoreStep
    BY NextStoreStep
  <1>2. CASE StoreKept
    BY <1>2 DEF StoreKept, FromConnector
  <1>3. CASE StoreDelete
    BY <1>3 DEF StoreDelete, DeleteSource, FromConnector, TypeOK
  <1>4. CASE StoreAdd
    <2>1. PICK t \in Tiers, s \in Sources, v \in Texts :
            store' = [store EXCEPT ![t] =
                         AddChunks(store[t], ChunkRows(s, v, "connector", "false"))]
      BY <1>4 DEF StoreAdd
    <2>2. CASE u = t
      <3>1. r \in AddChunks(store[t], ChunkRows(s, v, "connector", "false"))
        BY <2>1, <2>2 DEF TypeOK
      <3>2. r \in store[t] \/ r.origin = "connector"
        BY <3>1, AddedOrigins
      <3>3. QED
        BY <3>2, <2>2 DEF FromConnector
    <2>3. CASE u # t
      BY <2>1, <2>3 DEF FromConnector, TypeOK
    <2>4. QED
      BY <2>2, <2>3
  <1>5. CASE StoreSign
    <2>1. PICK t \in Tiers, s \in Sources, h \in Texts :
            store' = [store EXCEPT ![t] = MarkReviewed(store[t], s, h)]
      BY <1>5 DEF StoreSign
    <2>2. CASE u = t
      <3>1. r \in MarkReviewed(store[t], s, h) /\ store[t] \in SUBSET Rows
        BY <2>1, <2>2 DEF TypeOK
      <3>2. \A p \in MarkReviewed(store[t], s, h) : \E q \in store[t] : q.origin = p.origin
        BY ZenonT(20), <3>1, MarkedShows
      <3>3. QED
        BY <3>1, <3>2, <2>2 DEF FromConnector
    <2>3. CASE u # t
      BY <2>1, <2>3 DEF FromConnector, TypeOK
    <2>4. QED
      BY <2>2, <2>3
  <1>6. QED
    BY <1>1, <1>2, <1>3, <1>4, <1>5 DEF StoreStep

\* The steps of the only sync there is.
LoopMoves ==
    \/ SyncFetch(Loop) \/ SyncDiff(Loop) \/ SyncAdd(Loop) \/ SyncNextTier(Loop)
    \/ \E s \in Sources : SyncDelete(Loop, s) \/ SyncReplace(Loop, s)

LEMMA OnlyLoopMoves ==
    ASSUME TypeOK, [Next]_vars, Syncs = {Loop}
    PROVE  LoopMoves \/ sync'[Loop] = NoSync \/ sync'[Loop] = sync[Loop]
  <1>1. ASSUME NEW w \in Syncs, Progress(w) PROVE LoopMoves \/ sync'[Loop] = NoSync
    <2>1. w = Loop
      OBVIOUS
    <2>2. CASE SyncDone(Loop)
      BY <2>2 DEF SyncDone, TypeOK
    <2>3. QED
      BY <1>1, <2>1, <2>2 DEF Progress, LoopMoves
  <1>2. ASSUME NEW w \in Syncs, SyncFail(w) PROVE sync'[Loop] = NoSync
    BY <1>2 DEF SyncFail, TypeOK
  <1>3. ASSUME NEW w \in Syncs, SyncFetch(w) PROVE LoopMoves
    BY <1>3 DEF LoopMoves
  <1>4. CASE Restart
    BY <1>4 DEF Restart
  <1>5. CASE \/ UNCHANGED vars
             \/ \E s \in Sources, r \in RecordOrNone : UpstreamEdit(s, r)
             \/ \E t \in Tiers, s \in Sources, h \in Texts \cup {None} :
                    Approve(t, s, h) \/ Reject(t, s, h)
    BY <1>5 DEF vars, UpstreamEdit, Approve, Reject
  <1>6. QED
    BY <1>1, <1>2, <1>3, <1>4, <1>5 DEF Next

\* The loop's own record after each of its steps.
LEMMA LoopAfter ==
    ASSUME TypeOK
    PROVE  /\ SyncFetch(Loop) =>
                 /\ sync'[Loop].pc = "tier" /\ sync'[Loop].tier = 1
                 /\ sync'[Loop].source = None
           /\ SyncDiff(Loop) =>
                 /\ sync'[Loop].pc = "apply" /\ sync'[Loop].tier = sync[Loop].tier
                 /\ sync'[Loop].want = sync[Loop].want /\ sync'[Loop].source = None
                 /\ sync'[Loop].gone = Gone(store[Here], sync[Loop].want, Here)
           /\ SyncAdd(Loop) =>
                 /\ sync'[Loop].pc = sync[Loop].pc /\ sync'[Loop].tier = sync[Loop].tier
                 /\ sync'[Loop].want = sync[Loop].want /\ sync'[Loop].gone = sync[Loop].gone
                 /\ sync'[Loop].source = None
                 /\ sync'[Loop].todo = sync[Loop].todo \ {sync[Loop].source}
           /\ SyncNextTier(Loop) =>
                 /\ sync'[Loop].pc = "tier" /\ sync'[Loop].tier = sync[Loop].tier + 1
                 /\ sync'[Loop].want = sync[Loop].want
                 /\ sync'[Loop].source = sync[Loop].source
           /\ \A s \in Sources : SyncDelete(Loop, s) =>
                 /\ sync'[Loop].pc = sync[Loop].pc /\ sync'[Loop].tier = sync[Loop].tier
                 /\ sync'[Loop].want = sync[Loop].want /\ sync'[Loop].source = sync[Loop].source
                 /\ sync'[Loop].gone = sync[Loop].gone \ {s}
                 /\ sync'[Loop].todo = sync[Loop].todo
           /\ \A s \in Sources : SyncReplace(Loop, s) =>
                 /\ sync'[Loop].pc = sync[Loop].pc /\ sync'[Loop].tier = sync[Loop].tier
                 /\ sync'[Loop].want = sync[Loop].want /\ sync'[Loop].source = s
                 /\ sync'[Loop].gone = sync[Loop].gone
                 /\ sync'[Loop].todo = sync[Loop].todo
  <1>1. Loop \in Syncs /\ sync \in [Syncs -> SyncCalls] /\ sync[Loop] \in SyncCalls
    BY ConnectorAssumption DEF TypeOK
  <1>2. ASSUME SyncFetch(Loop)
        PROVE  /\ sync'[Loop].pc = "tier" /\ sync'[Loop].tier = 1
               /\ sync'[Loop].source = None
    BY <1>1, <1>2 DEF SyncFetch
  <1>3. ASSUME SyncDiff(Loop)
        PROVE  /\ sync'[Loop].pc = "apply" /\ sync'[Loop].tier = sync[Loop].tier
               /\ sync'[Loop].want = sync[Loop].want /\ sync'[Loop].source = None
               /\ sync'[Loop].gone = Gone(store[Here], sync[Loop].want, Here)
    BY <1>1, <1>3 DEF SyncDiff, Here
  <1>4. ASSUME SyncAdd(Loop)
        PROVE  /\ sync'[Loop].pc = sync[Loop].pc /\ sync'[Loop].tier = sync[Loop].tier
               /\ sync'[Loop].want = sync[Loop].want /\ sync'[Loop].gone = sync[Loop].gone
               /\ sync'[Loop].source = None
               /\ sync'[Loop].todo = sync[Loop].todo \ {sync[Loop].source}
    BY <1>1, <1>4 DEF SyncAdd, SyncCalls
  <1>5. ASSUME SyncNextTier(Loop)
        PROVE  /\ sync'[Loop].pc = "tier" /\ sync'[Loop].tier = sync[Loop].tier + 1
               /\ sync'[Loop].want = sync[Loop].want
               /\ sync'[Loop].source = sync[Loop].source
    BY <1>1, <1>5 DEF SyncNextTier, SyncCalls
  <1>6. ASSUME NEW s \in Sources, SyncDelete(Loop, s)
        PROVE  /\ sync'[Loop].pc = sync[Loop].pc /\ sync'[Loop].tier = sync[Loop].tier
               /\ sync'[Loop].want = sync[Loop].want /\ sync'[Loop].source = sync[Loop].source
               /\ sync'[Loop].gone = sync[Loop].gone \ {s}
               /\ sync'[Loop].todo = sync[Loop].todo
    BY <1>1, <1>6 DEF SyncDelete, SyncCalls
  <1>7. ASSUME NEW s \in Sources, SyncReplace(Loop, s)
        PROVE  /\ sync'[Loop].pc = sync[Loop].pc /\ sync'[Loop].tier = sync[Loop].tier
               /\ sync'[Loop].want = sync[Loop].want /\ sync'[Loop].source = s
               /\ sync'[Loop].gone = sync[Loop].gone
               /\ sync'[Loop].todo = sync[Loop].todo
    BY <1>1, <1>7 DEF SyncReplace, SyncCalls
  <1>8. QED
    BY <1>2, <1>3, <1>4, <1>5, <1>6, <1>7

\* Its deletes delete, in the tier it is at.
LEMMA LoopDeletes ==
    ASSUME TypeOK, NEW s \in Sources, SyncDelete(Loop, s) \/ SyncReplace(Loop, s)
    PROVE  Here \in Tiers /\ Shown(Here, s)' = {} /\ Here' = Here
  <1>1. sync[Loop].tier \in 1 .. Len(TierSeq)
    BY ConnectorAssumption DEF TypeOK, CallsOK, SyncCalls, SyncDelete, SyncReplace
  <1>2. Here \in Tiers
    BY <1>1, TierInTiers DEF Here
  <1>3. store'[Here] = DeleteSource(store[Here], s)
    BY <1>2 DEF SyncDelete, SyncReplace, Here, TypeOK
  <1>4. Here' = Here
    BY LoopAfter DEF Here
  <1> HIDE DEF Here
  <1>5. Shown(Here, s)' = ShownTexts(RowsOf(store'[Here'], s))
    BY DEF Shown
  <1>6. QED
    BY <1>2, <1>3, <1>4, <1>5, DeletedRows DEF ShownTexts

LEMMA UnwantedStep ==
    ASSUME TypeOK, Unwanted, [Next]_vars, Syncs = {Loop}
    PROVE  Unwanted'
  <1>1. CASE SyncDiff(Loop)
    <2>1. sync'[Loop].gone = Gone(store[Here], sync[Loop].want, Here)
          /\ sync'[Loop].want = sync[Loop].want /\ Here' = Here
      BY <1>1, LoopAfter DEF Here
    <2>2. QED
      BY <2>1 DEF Unwanted, Gone
  <1>2. ASSUME NEW s \in Sources, SyncDelete(Loop, s) \/ SyncReplace(Loop, s) PROVE Unwanted'
    BY <1>2, LoopAfter DEF Unwanted, Here
  <1>3. CASE SyncAdd(Loop)
    BY <1>3, LoopAfter DEF Unwanted, Here
  <1>4. CASE SyncFetch(Loop) \/ SyncNextTier(Loop)
    <2>1. sync'[Loop].pc = "tier"
      BY <1>4, LoopAfter
    <2>2. QED
      BY <2>1 DEF Unwanted
  <1>5. CASE sync'[Loop] = NoSync
    BY <1>5 DEF Unwanted, NoSync
  <1>6. CASE sync'[Loop] = sync[Loop]
    BY <1>6 DEF Unwanted, Here
  <1>7. QED
    BY <1>1, <1>2, <1>3, <1>4, <1>5, <1>6, OnlyLoopMoves DEF LoopMoves

\* Indexing takes the ticket off the list, and it was wanted in that tier.
LEMMA LoopIndexes ==
    ASSUME TypeOK, Syncs = {Loop}, NEW w \in Syncs, NEW t, NEW s, Indexes(w, t, s)
    PROVE  /\ SyncAdd(Loop) /\ sync[Loop].source = s /\ Here = t
           /\ s \in Wanted(sync[Loop].want, t)
  <1>1. w = Loop /\ Loop \in Syncs
    OBVIOUS
  <1>2. SyncAdd(Loop) /\ sync[Loop].source = s /\ Here = t
    BY <1>1 DEF Indexes, Here
  <1>3. s \in Sources /\ sync[Loop].want[s] \in Records /\ sync[Loop].want[s].acl = t
    BY <1>1, <1>2, AddKnown DEF Here
  <1>4. QED
    BY <1>2, <1>3, NoneIsNoRecord DEF Wanted

LEMMA LeftStep ==
    ASSUME TypeOK, FromConnector, Left, [Next]_vars, Syncs = {Loop}
    PROVE  Left'
  <1> SUFFICES ASSUME NEW i \in 1 .. Len(TierSeq), NEW s \in Sources,
                      sync'[Loop].pc # "idle",
                      s \notin Wanted(sync'[Loop].want, TierSeq[i]),
                      \/ i < sync'[Loop].tier
                      \/ i = sync'[Loop].tier /\ sync'[Loop].pc = "apply"
                                             /\ s \notin sync'[Loop].gone
               PROVE  Shown(TierSeq[i], s)' = {}
    BY DEF Left
  <1> DEFINE t == TierSeq[i]
  <1>t. t \in Tiers /\ sync[Loop] \in SyncCalls
    BY TierInTiers, ConnectorAssumption DEF TypeOK
  <1>n. sync[Loop].tier \in Nat /\ i \in Nat
    BY <1>t DEF SyncCalls
  <1>1. ASSUME NEW w \in Syncs, Indexes(w, t, s) PROVE FALSE
    <2>1. SyncAdd(Loop) /\ s \in Wanted(sync[Loop].want, t)
      BY <1>1, LoopIndexes
    <2>2. QED
      BY <2>1, LoopAfter
  \* Nothing else makes chunks appear: what was gone stays gone.
  <1>2. Shown(t, s) = {} => Shown(t, s)' = {}
    BY <1>1, <1>t, StepShows DEF Kept
  <1>3. CASE SyncFetch(Loop)
    BY <1>3, <1>n, LoopAfter
  <1>4. CASE SyncDiff(Loop)
    <2>1. /\ sync[Loop].pc # "idle"
          /\ sync'[Loop].tier = sync[Loop].tier
          /\ sync'[Loop].want = sync[Loop].want
          /\ sync'[Loop].gone = Gone(store[Here], sync[Loop].want, Here)
      BY <1>4, LoopAfter DEF SyncDiff
    <2>2. CASE i < sync[Loop].tier
      BY <2>1, <2>2, <1>2 DEF Left
    <2>3. CASE ~(i < sync[Loop].tier)
      <3>1. Here = t /\ s \notin Gone(store[t], sync[Loop].want, t)
        BY <2>1, <2>3 DEF Here
      <3>2. s \notin IndexedSources(store[t], "connector")
        BY <3>1, <2>1 DEF Gone
      <3>3. RowsOf(store[t], s) = {}
        BY <3>2, <1>t DEF IndexedSources, RowsOf, FromConnector
      <3>4. Shown(t, s) = {}
        BY <3>3 DEF Shown, ShownTexts
      <3>5. QED
        BY <3>4, <1>2
    <2>4. QED
      BY <2>2, <2>3
  <1>5. ASSUME NEW x \in Sources, SyncDelete(Loop, x) PROVE Shown(t, s)' = {}
    <2>1. /\ sync'[Loop].pc = sync[Loop].pc /\ sync'[Loop].tier = sync[Loop].tier
          /\ sync'[Loop].want = sync[Loop].want
          /\ sync'[Loop].gone = sync[Loop].gone \ {x}
      BY <1>5, LoopAfter
    <2>2. CASE i = sync[Loop].tier /\ s = x
      <3>1. Here = t /\ Shown(Here, s)' = {} /\ Here' = Here
        BY <1>5, <2>2, LoopDeletes DEF Here
      <3> HIDE DEF t
      <3>2. QED
        BY <3>1 DEF Shown
    <2>3. CASE ~(i = sync[Loop].tier /\ s = x)
      BY <2>1, <2>3, <1>2 DEF Left
    <2>4. QED
      BY <2>2, <2>3
  <1>6. ASSUME NEW x \in Sources, SyncReplace(Loop, x) PROVE Shown(t, s)' = {}
    BY <1>2, <1>6, LoopAfter DEF Left
  <1>7. CASE SyncAdd(Loop)
    BY <1>2, <1>7, LoopAfter DEF Left
  <1>8. CASE SyncNextTier(Loop)
    <2>1. sync[Loop].pc = "apply" /\ sync[Loop].gone = {}
      BY <1>8 DEF SyncNextTier
    <2>2. /\ sync'[Loop].pc = "tier" /\ sync'[Loop].tier = sync[Loop].tier + 1
          /\ sync'[Loop].want = sync[Loop].want
      BY <1>8, LoopAfter
    <2>3. i < sync[Loop].tier \/ i = sync[Loop].tier
      BY <2>2, <1>n
    <2>4. QED
      BY <2>1, <2>2, <2>3, <1>2 DEF Left
  <1>9. CASE sync'[Loop] = NoSync
    BY <1>9 DEF NoSync
  <1>10. CASE sync'[Loop] = sync[Loop]
    BY <1>10, <1>2 DEF Left
  <1>11. QED
    BY <1>3, <1>4, <1>5, <1>6, <1>7, <1>8, <1>9, <1>10, OnlyLoopMoves DEF LoopMoves

LEMMA ReplacedStep ==
    ASSUME TypeOK, Replaced, [Next]_vars, Syncs = {Loop}
    PROVE  Replaced'
  <1> SUFFICES ASSUME sync'[Loop].source # None
               PROVE  Shown(Here, sync[Loop].source)' = {}
    BY DEF Replaced
  <1>1. CASE SyncFetch(Loop) \/ SyncDiff(Loop) \/ SyncAdd(Loop)
    BY <1>1, LoopAfter
  <1>2. CASE sync'[Loop] = NoSync
    BY <1>2 DEF NoSync
  <1>3. ASSUME NEW s \in Sources, SyncReplace(Loop, s)
        PROVE  Shown(Here, sync[Loop].source)' = {}
    <2>1. Shown(Here, s)' = {} /\ sync'[Loop].source = s
      BY <1>3, LoopDeletes, LoopAfter
    <2>2. QED
      BY <2>1 DEF Shown
  <1>4. CASE SyncNextTier(Loop)
    <2>1. sync'[Loop].source = sync[Loop].source /\ sync[Loop].todo = {}
      BY <1>4, LoopAfter DEF SyncNextTier
    <2>2. sync[Loop].source \in sync[Loop].todo
      BY <2>1 DEF TypeOK, CallsOK
    <2>3. QED
      BY <2>1, <2>2
  <1>5. ASSUME sync'[Loop].source = sync[Loop].source, sync'[Loop].tier = sync[Loop].tier
        PROVE  Shown(Here, sync[Loop].source)' = {}
    <2> DEFINE t == Here
               s == sync[Loop].source
    <2>1. sync[Loop].pc = "apply" /\ s \in sync[Loop].todo /\ Loop \in Syncs
      BY <1>5 DEF TypeOK, CallsOK
    <2>2. s \in Sources /\ t \in Tiers
      BY <2>1, TodoKnown DEF Here
    <2>3. ASSUME NEW w \in Syncs, Indexes(w, t, s) PROVE FALSE
      <3>1. SyncAdd(Loop)
        BY <2>3, LoopIndexes
      <3>2. QED
        BY <3>1, <1>5, LoopAfter
    <2>4. Shown(t, s) = {}
      BY <1>5 DEF Replaced
    <2>5. Here' = t /\ sync'[Loop].source = s
      BY <1>5 DEF Here
    <2> HIDE DEF t, s
    <2>6. ShownTexts(RowsOf(store'[t], s)) = {}
      BY <2>2, <2>3, <2>4, StepShows DEF Kept, Shown, t, s
    <2>7. QED
      BY <2>5, <2>6 DEF Shown
  <1>6. ASSUME NEW s \in Sources, SyncDelete(Loop, s)
        PROVE  Shown(Here, sync[Loop].source)' = {}
    BY <1>5, <1>6, LoopAfter
  <1>7. CASE sync'[Loop] = sync[Loop]
    BY <1>5, <1>7
  <1>8. QED
    BY <1>1, <1>2, <1>3, <1>4, <1>6, <1>7, OnlyLoopMoves DEF LoopMoves

\* The diff puts on the list what the index does not show as it should.
LEMMA DiffOutdated ==
    ASSUME TypeOK, SyncDiff(Loop), NEW s \in sync'[Loop].todo
    PROVE  \/ Shown(Here, s) = {}
           \/ s \in plain[Here]
           \/ \E v \in Shown(Here, s) : v # sync[Loop].want[s].text
  <1>1. Loop \in Syncs /\ sync \in [Syncs -> SyncCalls]
    BY ConnectorAssumption DEF TypeOK
  <1>2. PICK seen \in [Sources -> Texts \cup {None}] :
          /\ \A x \in Sources : seen[x] \in SeenHashes(store[Here], x, plain[Here])
          /\ sync'[Loop].todo = Changed(sync[Loop].want, Here, seen)
    BY <1>1 DEF SyncDiff, Here
  <1>3. s \in Sources /\ seen[s] # sync[Loop].want[s].text
    BY <1>2 DEF Changed, Wanted
  <1>4. CASE RowsOf(store[Here], s) = {}
    BY <1>4 DEF Shown, ShownTexts
  <1>5. CASE RowsOf(store[Here], s) # {} /\ s \notin plain[Here]
    <2>1. seen[s] \in ShownTexts(RowsOf(store[Here], s))
      BY <1>2, <1>3, <1>5 DEF SeenHashes
    <2>2. seen[s] \in Shown(Here, s)
      BY <2>1 DEF Shown
    <2>3. QED
      BY <2>2, <1>3
  <1>6. QED
    BY <1>4, <1>5

LEMMA OutdatedStep ==
    ASSUME TypeOK, Outdated, [Next]_vars, Syncs = {Loop}
    PROVE  Outdated'
  <1> SUFFICES ASSUME sync'[Loop].pc = "apply", NEW s \in sync'[Loop].todo
               PROVE  \/ ShownTexts(RowsOf(store'[Here'], s)) = {}
                      \/ s \in plain'[Here']
                      \/ \E v \in ShownTexts(RowsOf(store'[Here'], s)) :
                            v # sync'[Loop].want[s].text
    BY DEF Outdated, Shown
  <1> DEFINE Goal == \/ ShownTexts(RowsOf(store'[Here'], s)) = {}
                     \/ s \in plain'[Here']
                     \/ \E v \in ShownTexts(RowsOf(store'[Here'], s)) :
                           v # sync'[Loop].want[s].text
  <1>1. CASE SyncFetch(Loop) \/ SyncNextTier(Loop)
    BY <1>1, LoopAfter
  <1>2. CASE sync'[Loop] = NoSync
    BY <1>2 DEF NoSync
  <1>3. CASE SyncDiff(Loop)
    <2>1. /\ Here' = Here /\ sync'[Loop].want = sync[Loop].want
          /\ store' = store /\ plain' = plain
      BY <1>3, LoopAfter DEF Here, SyncDiff
    <2>2. QED
      BY <1>3, <2>1, DiffOutdated DEF Shown
  \* While the tier is applied, the list only gets shorter.
  <1>4. ASSUME sync[Loop].pc = "apply", s \in sync[Loop].todo,
               sync'[Loop].want = sync[Loop].want, sync'[Loop].tier = sync[Loop].tier,
               SyncAdd(Loop) => s # sync[Loop].source
        PROVE  Goal
    <2> DEFINE t == Here
    <2>1. s \in Sources /\ t \in Tiers /\ Loop \in Syncs
      BY <1>4, TodoKnown, ConnectorAssumption DEF Here
    <2>2. ASSUME NEW w \in Syncs, Indexes(w, t, s) PROVE FALSE
      BY <2>2, <1>4, LoopIndexes
    <2>3. \/ Shown(t, s) = {}
          \/ s \in plain[t]
          \/ \E v \in Shown(t, s) : v # sync[Loop].want[s].text
      BY <1>4 DEF Outdated
    <2>4. Here' = t
      BY <1>4 DEF Here
    <2> HIDE DEF t
    <2>5. \/ ShownTexts(RowsOf(store'[t], s)) = {}
          \/ /\ ShownTexts(RowsOf(store'[t], s)) = Shown(t, s)
             /\ s \in plain[t] => s \in plain'[t]
      BY <2>1, <2>2, StepShows DEF Kept, Shown
    <2>6. QED
      BY <1>4, <2>3, <2>4, <2>5
  <1>5. CASE SyncAdd(Loop)
    <2>1. sync[Loop].source # None /\ Loop \in Syncs
      BY <1>5, ConnectorAssumption DEF SyncAdd
    <2>2. sync[Loop].pc = "apply"
      BY <2>1 DEF TypeOK, CallsOK
    <2>3. QED
      BY <1>4, <1>5, <2>2, LoopAfter
  <1>6. ASSUME NEW x \in Sources, SyncDelete(Loop, x) \/ SyncReplace(Loop, x) PROVE Goal
    <2>1. /\ sync[Loop].pc = "apply" /\ sync'[Loop].todo = sync[Loop].todo
          /\ sync'[Loop].want = sync[Loop].want /\ sync'[Loop].tier = sync[Loop].tier
      BY <1>6, LoopAfter DEF SyncDelete, SyncReplace
    <2>2. CASE SyncAdd(Loop)
      BY <2>2, <1>5
    <2>3. CASE ~SyncAdd(Loop)
      BY <2>1, <2>3, <1>4
    <2>4. QED
      BY <2>2, <2>3
  <1>7. CASE sync'[Loop] = sync[Loop]
    <2>1. CASE SyncAdd(Loop)
      BY <2>1, <1>5
    <2>2. CASE ~SyncAdd(Loop)
      BY <1>4, <1>7, <2>2
    <2>3. QED
      BY <2>1, <2>2
  <1>8. QED
    BY <1>1, <1>2, <1>3, <1>5, <1>6, <1>7, OnlyLoopMoves DEF LoopMoves

LEMMA LoneInvariant == Syncs = {Loop} /\ Spec => [](TypeOK /\ LoneInv)
  <1> SUFFICES ASSUME Syncs = {Loop} PROVE Spec => [](TypeOK /\ LoneInv)
    OBVIOUS
  <1>1. Init => LoneInv
    <2> SUFFICES ASSUME Init PROVE LoneInv
      OBVIOUS
    <2>1. sync[Loop] = NoSync
      BY ConnectorAssumption DEF Init
    <2>2. QED
      BY <2>1, FromConnectorInit DEF LoneInv, Left, Unwanted, Outdated, Replaced, NoSync
  <1>2. TypeOK /\ LoneInv /\ [Next]_vars => LoneInv'
    BY FromConnectorStep, LeftStep, UnwantedStep, OutdatedStep, ReplacedStep DEF LoneInv
  <1>3. QED
    BY <1>1, <1>2, ConnectorTypeOK, PTL DEF Spec

\* While one sync runs at a time: a record that moved to a later tier has left the
\* earlier ones before any of its chunks appears in the new one, whatever was
\* edited, approved or rejected since the sync fetched, and after any crash.
THEOREM ConnectorLeaves == Syncs = {Loop} /\ Spec => LeavesBeforeItArrives
  <1> SUFFICES ASSUME Syncs = {Loop} PROVE Spec => LeavesBeforeItArrives
    OBVIOUS
  <1> DEFINE Step == \A w \in Syncs :
                LET s == sync[w].source
                IN SyncAdd(w) => \A i \in 1 .. sync[w].tier - 1 : RowsOf(store[TierSeq[i]], s) = {}
  <1>1. TypeOK /\ LoneInv => Step
    <2> SUFFICES ASSUME TypeOK, LoneInv, NEW w \in Syncs, SyncAdd(w),
                        NEW i \in 1 .. sync[w].tier - 1
                 PROVE  RowsOf(store[TierSeq[i]], sync[w].source) = {}
      OBVIOUS
    <2> DEFINE s == sync[Loop].source
               t == TierSeq[sync[Loop].tier]
    <2>1. w = Loop /\ Loop \in Syncs
      OBVIOUS
    <2>2. sync[Loop].pc = "apply" /\ s \in Sources /\ sync[Loop].want[s].acl = t
      <3>1. s # None
        BY <2>1 DEF SyncAdd
      <3>2. sync[Loop].pc = "apply" /\ s \in sync[Loop].todo
        BY <2>1, <3>1 DEF TypeOK, CallsOK
      <3>3. QED
        BY <2>1, <3>2, TodoKnown
    <2>3. sync[Loop].tier \in 1 .. Len(TierSeq) /\ i \in 1 .. Len(TierSeq) /\ i < sync[Loop].tier
      <3>1. sync[Loop].tier \in Nat /\ sync[Loop].tier <= Len(TierSeq)
        BY <2>1, <2>2 DEF TypeOK, CallsOK, SyncCalls
      <3>2. QED
        BY <2>1, <3>1, ConnectorAssumption
    <2>4. TierSeq[i] # t
      BY <2>3, ConnectorAssumption
    <2>5. s \notin Wanted(sync[Loop].want, TierSeq[i])
      BY <2>2, <2>4 DEF Wanted
    <2>6. Shown(TierSeq[i], s) = {}
      BY <2>2, <2>3, <2>5 DEF LoneInv, Left
    <2>7. QED
      BY <2>1, <2>6 DEF Shown, ShownTexts
  <1> HIDE DEF Step
  <1>2. TypeOK /\ LoneInv => [Step]_vars
    BY <1>1
  <1>3. [](TypeOK /\ LoneInv) => [][Step]_vars
    BY <1>2, PTL
  <1>4. QED
    BY <1>3, LoneInvariant DEF LeavesBeforeItArrives, Step

\* While one sync runs at a time: no sync takes back the approval of a record that
\* upstream still has as it was approved, for any number of records and whatever
\* else the sync does.
THEOREM ConnectorApprovals == Syncs = {Loop} /\ Spec => ApprovalSurvivesSync
  <1> SUFFICES ASSUME Syncs = {Loop} PROVE Spec => ApprovalSurvivesSync
    OBVIOUS
  <1> DEFINE Step == \A t \in Tiers, s \in Sources, v \in Texts :
                /\ upstream[s] = [acl |-> t, text |-> v]
                /\ \A w \in Syncs : sync[w].pc # "idle" => sync[w].want[s] = upstream[s]
                /\ HashesAgree(RowsOf(store[t], s), v)
                /\ \A r \in RowsOf(store[t], s) : IsTrusted(r)
                /\ s \notin plain[t]
                /\ sync' # sync /\ events' = events
                => RowsOf(store'[t], s) = RowsOf(store[t], s)
  <1>1. TypeOK /\ LoneInv /\ [Next]_vars => Step
    <2> SUFFICES ASSUME TypeOK, LoneInv, [Next]_vars,
                        NEW t \in Tiers, NEW s \in Sources, NEW v \in Texts,
                        upstream[s] = [acl |-> t, text |-> v],
                        sync[Loop].pc # "idle" => sync[Loop].want[s] = upstream[s],
                        HashesAgree(RowsOf(store[t], s), v),
                        s \notin plain[t],
                        sync' # sync, events' = events
                 PROVE  RowsOf(store'[t], s) = RowsOf(store[t], s)
      OBVIOUS
    <2>t. Loop \in Syncs /\ events \in Nat /\ store[t] \in SUBSET Rows
      BY DEF TypeOK
    <2>v. Shown(t, s) = {v}
      BY DEF HashesAgree, Shown, ShownTexts
    <2>k. UNCHANGED store => RowsOf(store'[t], s) = RowsOf(store[t], s)
      OBVIOUS
    <2>1. ASSUME NEW x \in Sources, SyncDelete(Loop, x) \/ SyncReplace(Loop, x)
          PROVE  RowsOf(store'[t], s) = RowsOf(store[t], s)
      <3>1. sync[Loop].pc = "apply" /\ sync[Loop].want[s] = [acl |-> t, text |-> v]
        BY <2>1 DEF SyncDelete, SyncReplace
      <3>2. store' = [store EXCEPT ![Here] = DeleteSource(store[Here], x)]
        BY <2>1 DEF SyncDelete, SyncReplace, Here
      <3>3. CASE Here # t
        BY <3>2, <3>3 DEF TypeOK
      <3>4. CASE Here = t /\ x # s
        <4>1. store'[t] = DeleteSource(store[t], x)
          BY <3>2, <3>4 DEF TypeOK
        <4>2. QED
          BY <4>1, <3>4 DEF RowsOf, DeleteSource
      <3>5. CASE Here = t /\ x = s
        <4>1. [acl |-> t, text |-> v] \in Records
          BY DEF Records
        <4>2. s \in Wanted(sync[Loop].want, Here)
          BY <3>1, <3>5, <4>1, NoneIsNoRecord DEF Wanted
        <4>3. s \notin sync[Loop].gone
          BY <3>1, <4>2 DEF LoneInv, Unwanted
        <4>4. SyncReplace(Loop, s) /\ s \in sync[Loop].todo
          BY <2>1, <3>5, <4>3 DEF SyncDelete, SyncReplace
        <4>5. sync[Loop].want[s].text = v
          BY <3>1
        <4>6. QED
          BY <3>1, <3>5, <4>4, <4>5, <2>v DEF LoneInv, Outdated
      <3>6. QED
        BY <3>3, <3>4, <3>5
    <2>2. CASE SyncAdd(Loop)
      <3> DEFINE x == sync[Loop].source
                 u == sync[Loop].want[x].text
      <3>1. /\ Here \in Tiers /\ x \in Sources /\ u \in Texts
            /\ store' = [store EXCEPT ![Here] =
                            AddChunks(store[Here], ChunkRows(x, u, "connector", "false"))]
        BY <2>2, <2>t, AddKnown DEF Here
      <3>2. Shown(Here, x) = {}
        BY <2>2 DEF LoneInv, Replaced, SyncAdd
      <3> HIDE DEF x, u
      <3>3. CASE Here # t
        BY <3>1, <3>3 DEF TypeOK
      <3>4. CASE Here = t
        <4>1. x # s
          BY <3>2, <3>4, <2>v
        <4>2. store'[t] = AddChunks(store[t], ChunkRows(x, u, "connector", "false"))
          BY <3>1, <3>4 DEF TypeOK
        <4>3. QED
          BY <2>t, <3>1, <4>1, <4>2, OtherRowsKept
      <3>5. QED
        BY <3>3, <3>4
    <2>3. CASE SyncFetch(Loop) \/ SyncDiff(Loop) \/ SyncNextTier(Loop) \/ SyncDone(Loop)
      BY <2>3, <2>k DEF SyncFetch, SyncDiff, SyncNextTier, SyncDone
    <2>4. CASE SyncFail(Loop) \/ Restart
      BY <2>4, <2>k DEF SyncFail, Restart
    <2>5. CASE \/ UNCHANGED vars
               \/ \E x \in Sources, r \in RecordOrNone : UpstreamEdit(x, r)
               \/ \E u \in Tiers, x \in Sources, h \in Texts \cup {None} :
                      Approve(u, x, h) \/ Reject(u, x, h)
      BY <2>5 DEF vars, UpstreamEdit, Approve, Reject
    <2>6. ASSUME NEW w \in Syncs, SyncFetch(w) \/ Progress(w) \/ SyncFail(w)
          PROVE  RowsOf(store'[t], s) = RowsOf(store[t], s)
      BY <2>1, <2>2, <2>3, <2>4, <2>6 DEF Progress
    <2>7. QED
      BY <2>4, <2>5, <2>6 DEF Next
  <1> HIDE DEF Step
  <1>2. [](TypeOK /\ LoneInv) /\ [][Next]_vars => [][Step]_vars
    BY <1>1, PTL
  <1>3. QED
    BY <1>2, LoneInvariant, PTL DEF ApprovalSurvivesSync, Step, Spec

-----------------------------------------------------------------------------
(* What a sync that nobody disturbs leaves *)

\* All of version v of s is in tier t, and no other chunk of s.
VersionAt(t, s, v) == Shown(t, s) = {v} /\ Positions(t, s) = 0 .. NumChunks[v] - 1

\* With one sync at a time the index never mixes versions of a record.
OneVersionEach ==
    \A t \in Tiers, s \in Sources :
        Shown(t, s) = {} \/ \E v \in Texts : VersionAt(t, s, v)

\* Nothing was edited or rejected since the sync fetched.
Calm == sync[Loop].pc # "idle" /\ sync[Loop].since = events

SinceKnown == sync[Loop].since <= events

\* What it wants is what upstream says,
Fetched == Calm => sync[Loop].want = [s \in Sources |-> ToDocument(upstream[s])]

\* and what it wants in a tier it has dealt with is there.
Arrived ==
    \A i \in 1 .. Len(TierSeq), s \in Sources :
        /\ Calm
        /\ s \in Wanted(sync[Loop].want, TierSeq[i])
        /\ \/ i < sync[Loop].tier
           \/ i = sync[Loop].tier /\ sync[Loop].pc = "apply" /\ s \notin sync[Loop].todo
        => VersionAt(TierSeq[i], s, sync[Loop].want[s].text)

CalmInv == OneVersionEach /\ SinceKnown /\ Fetched /\ Arrived

LEMMA KeptVersion ==
    ASSUME NEW t, NEW s, NEW v, Kept(t, s), VersionAt(t, s, v)
    PROVE  VersionAt(t, s, v)'
  BY DEF Kept, VersionAt

\* The second half of _index leaves the version it adds, and every other ticket and
\* tier as it was.
LEMMA AddLeaves ==
    ASSUME TypeOK, Replaced, SyncAdd(Loop), NEW t \in Tiers, NEW s \in Sources
    PROVE  /\ t = Here /\ s = sync[Loop].source =>
                /\ sync[Loop].want[s].text \in Texts
                /\ \A v : v = sync[Loop].want[s].text => VersionAt(t, s, v)'
           /\ t # Here \/ s # sync[Loop].source => Kept(t, s)
  <1> DEFINE x == sync[Loop].source
             u == sync[Loop].want[x].text
             new == ChunkRows(x, u, "connector", "false")
  <1>1. /\ Here \in Tiers /\ x \in Sources /\ u \in Texts
        /\ store' = [store EXCEPT ![Here] = AddChunks(store[Here], new)]
    BY ConnectorAssumption, AddKnown DEF Here
  <1>2. plain' = plain /\ x # None
    BY DEF SyncAdd
  <1>3. RowsOf(store[Here], x) = {}
    BY <1>2 DEF Replaced, Shown, ShownTexts
  <1> HIDE DEF x, u
  <1>4. CASE t = Here /\ s = x
    <2>1. store'[t] = AddChunks(store[t], new)
      BY <1>1, <1>4 DEF TypeOK
    <2>2. RowsOf(store'[t], s) = new
      BY <2>1, <1>3, <1>4, AddedAfresh
    <2>3. ShownTexts(new) = {u} /\ IndexesOf(new) = 0 .. NumChunks[u] - 1
      BY <1>1, ChunkRowsShow, ConnectorAssumption
    <2>4. QED
      BY <1>1, <1>4, <2>2, <2>3 DEF VersionAt, Shown, Positions, x, u
  <1>5. CASE t # Here
    BY <1>1, <1>2, <1>5 DEF Kept, Shown, Positions, TypeOK
  <1>6. CASE t = Here /\ s # x
    <2>1. store'[t] = AddChunks(store[t], new) /\ store[t] \in SUBSET Rows
      BY <1>1, <1>6 DEF TypeOK
    <2>2. RowsOf(store'[t], s) = RowsOf(store[t], s)
      BY <1>1, <1>6, <2>1, OtherRowsKept
    <2>3. Kept(t, s)
      BY <1>2, <2>2 DEF Kept, Shown, Positions
    <2>4. QED
      BY <2>3, <1>6 DEF x
  <1>7. QED
    BY <1>4, <1>5, <1>6 DEF x

LEMMA OneVersionStep ==
    ASSUME TypeOK, Replaced, OneVersionEach, [Next]_vars, Syncs = {Loop}
    PROVE  OneVersionEach'
  <1> SUFFICES ASSUME NEW t \in Tiers, NEW s \in Sources
               PROVE  (Shown(t, s) = {} \/ \E v \in Texts : VersionAt(t, s, v))'
    BY DEF OneVersionEach
  <1>1. CASE Shown(t, s)' = {}
    BY <1>1
  <1>2. CASE Kept(t, s)
    <2>1. Shown(t, s)' = Shown(t, s) /\ Positions(t, s)' = Positions(t, s)
      BY <1>2 DEF Kept
    <2>2. QED
      BY <2>1 DEF OneVersionEach, VersionAt
  <1>3. ASSUME NEW w \in Syncs, Indexes(w, t, s)
        PROVE  (Shown(t, s) = {} \/ \E v \in Texts : VersionAt(t, s, v))'
    <2>1. SyncAdd(Loop) /\ sync[Loop].source = s /\ Here = t
      BY <1>3, LoopIndexes
    <2>2. PICK v \in Texts : v = sync[Loop].want[s].text
      BY <2>1, AddLeaves
    <2>3. VersionAt(t, s, v)'
      BY <2>1, <2>2, AddLeaves
    <2>4. QED
      BY <2>3
  <1>4. QED
    BY <1>1, <1>2, <1>3, StepShows

\* The steps that leave a sync calm: its own, and decisions that approve.
Rests == UNCHANGED <<upstream, sync>> /\ \A t \in Tiers, s \in Sources : Kept(t, s)

LEMMA CalmStep ==
    ASSUME TypeOK, SinceKnown, [Next]_vars, Syncs = {Loop}
    PROVE  /\ SinceKnown'
           /\ Calm' => \/ SyncFetch(Loop)
                       \/ Calm /\ upstream' = upstream /\ (LoopMoves \/ Rests)
  <1>s. /\ Loop \in Syncs /\ sync \in [Syncs -> SyncCalls] /\ sync[Loop] \in SyncCalls
        /\ sync[Loop].since \in Nat /\ events \in Nat
    BY DEF TypeOK, SyncCalls
  <1> DEFINE Goal == /\ SinceKnown'
                     /\ Calm' => \/ SyncFetch(Loop)
                                 \/ Calm /\ upstream' = upstream /\ (LoopMoves \/ Rests)
  <1>i. ASSUME sync'[Loop] = NoSync, events' \in Nat PROVE Goal
    BY <1>i DEF SinceKnown, Calm, NoSync
  <1>1. CASE SyncFetch(Loop)
    <2>1. sync'[Loop].since = events' /\ events' \in Nat
      BY <1>1, <1>s DEF SyncFetch
    <2>2. QED
      BY <1>1, <2>1 DEF SinceKnown
  <1>m. ASSUME sync'[Loop].since = sync[Loop].since, sync[Loop].pc # "idle", LoopMoves,
               events' = events, upstream' = upstream
        PROVE  Goal
    BY <1>m DEF SinceKnown, Calm
  <1>2. CASE SyncDiff(Loop)
    <2>1. sync'[Loop].since = sync[Loop].since /\ sync[Loop].pc # "idle"
      BY <1>2, <1>s DEF SyncDiff
    <2>2. QED
      BY <1>2, <2>1, <1>m DEF SyncDiff, LoopMoves
  <1>3. CASE SyncAdd(Loop)
    <2>1. sync'[Loop].since = sync[Loop].since
      BY <1>3, <1>s DEF SyncAdd, SyncCalls
    <2>2. sync[Loop].pc # "idle"
      BY <1>3, <1>s DEF SyncAdd, TypeOK, CallsOK
    <2>3. QED
      BY <1>3, <2>1, <2>2, <1>m DEF SyncAdd, LoopMoves
  <1>4. CASE SyncNextTier(Loop)
    <2>1. sync'[Loop].since = sync[Loop].since /\ sync[Loop].pc # "idle"
      BY <1>4, <1>s DEF SyncNextTier, SyncCalls
    <2>2. QED
      BY <1>4, <2>1, <1>m DEF SyncNextTier, LoopMoves
  <1>5. ASSUME NEW x \in Sources, SyncDelete(Loop, x) \/ SyncReplace(Loop, x) PROVE Goal
    <2>1. sync'[Loop].since = sync[Loop].since /\ sync[Loop].pc # "idle"
      <3>1. CASE SyncDelete(Loop, x)
        BY <3>1, <1>s DEF SyncDelete, SyncCalls
      <3>2. CASE SyncReplace(Loop, x)
        BY <3>2, <1>s DEF SyncReplace, SyncCalls
      <3>3. QED
        BY <1>5, <3>1, <3>2
    <2>2. events' = events /\ upstream' = upstream /\ LoopMoves
      BY <1>5 DEF SyncDelete, SyncReplace, LoopMoves
    <2>3. QED
      BY <2>1, <2>2, <1>m
  <1>6. CASE SyncDone(Loop) \/ SyncFail(Loop) \/ Restart
    <2>1. sync'[Loop] = NoSync
      BY <1>6, <1>s DEF SyncDone, SyncFail, Restart
    <2>2. events' \in Nat
      BY <1>6, <1>s DEF SyncDone, SyncFail, Restart
    <2>3. QED
      BY <2>1, <2>2, <1>i
  <1>7. ASSUME UNCHANGED <<upstream, sync, events>>, \A t \in Tiers, s \in Sources : Kept(t, s)
        PROVE  Goal
    BY <1>7 DEF SinceKnown, Calm, Rests
  <1>8. CASE UNCHANGED vars
    BY <1>7, <1>8 DEF vars, Kept, Shown, Positions
  <1>9. ASSUME NEW u \in Tiers, NEW x \in Sources, NEW h \in Texts \cup {None},
               Approve(u, x, h)
        PROVE  Goal
    <2>1. ASSUME NEW t \in Tiers, NEW s \in Sources PROVE Kept(t, s)
      <3>1. CASE u = t
        <4>1. store'[t] = MarkReviewed(store[t], x, h) /\ plain' = plain
          BY <1>9, <3>1 DEF Approve, TypeOK
        <4>2. store[t] \in SUBSET Rows
          BY DEF TypeOK
        <4>3. QED
          BY <4>1, <4>2, MarkedShows DEF Kept, Shown, Positions
      <3>2. CASE u # t
        BY <1>9, <3>2 DEF Approve, Kept, Shown, Positions, TypeOK
      <3>3. QED
        BY <3>1, <3>2
    <2>2. UNCHANGED <<upstream, sync, events>>
      BY <1>9 DEF Approve
    <2>3. QED
      BY <2>1, <2>2, <1>7
  <1>10. ASSUME sync' = sync, events' = events + 1 PROVE Goal
    BY <1>10, <1>s DEF SinceKnown, Calm
  <1>11. CASE \/ \E x \in Sources, r \in RecordOrNone : UpstreamEdit(x, r)
              \/ \E u \in Tiers, x \in Sources, h \in Texts \cup {None} : Reject(u, x, h)
    BY <1>10, <1>11 DEF UpstreamEdit, Reject
  <1>12. QED
    BY <1>1, <1>2, <1>3, <1>4, <1>5, <1>6, <1>8, <1>9, <1>11 DEF Next, Progress

LEMMA FetchedStep ==
    ASSUME TypeOK, SinceKnown, Fetched, [Next]_vars, Syncs = {Loop}
    PROVE  Fetched'
  <1> SUFFICES ASSUME Calm'
               PROVE  sync'[Loop].want = [s \in Sources |-> ToDocument(upstream'[s])]
    BY DEF Fetched
  <1>1. CASE SyncFetch(Loop)
    BY <1>1, ConnectorAssumption DEF SyncFetch, TypeOK
  <1>2. CASE Calm /\ upstream' = upstream /\ (LoopMoves \/ Rests) /\ ~SyncFetch(Loop)
    <2>1. sync'[Loop].want = sync[Loop].want
      BY <1>2, LoopAfter DEF LoopMoves, Rests
    <2>2. QED
      BY <1>2, <2>1 DEF Fetched
  <1>3. QED
    BY <1>1, <1>2, CalmStep

\* Deletes are about one ticket of one tier.
LEMMA DeleteLeaves ==
    ASSUME TypeOK, NEW x \in Sources, SyncDelete(Loop, x) \/ SyncReplace(Loop, x),
           NEW t \in Tiers, NEW s \in Sources, t # Here \/ s # x
    PROVE  Kept(t, s)
  <1>1. /\ store' = [store EXCEPT ![Here] = DeleteSource(store[Here], x)]
        /\ plain' = [plain EXCEPT ![Here] = @ \ {x}]
    BY DEF SyncDelete, SyncReplace, Here
  <1>2. CASE t # Here
    BY <1>1, <1>2 DEF Kept, Shown, Positions, TypeOK
  <1>3. CASE t = Here /\ s # x
    <2>1. store'[t] = DeleteSource(store[t], x) /\ plain'[t] = plain[t] \ {x}
      BY <1>1, <1>3 DEF TypeOK
    <2>2. RowsOf(store'[t], s) = RowsOf(store[t], s)
      BY <2>1, <1>3 DEF RowsOf, DeleteSource
    <2>3. QED
      BY <1>3, <2>1, <2>2 DEF Kept, Shown, Positions
  <1>4. QED
    BY <1>2, <1>3

\* What the diff takes for unchanged is there, all of it.
LEMMA DiffArrived ==
    ASSUME TypeOK, OneVersionEach, SyncDiff(Loop),
           NEW s \in Wanted(sync[Loop].want, Here), s \notin sync'[Loop].todo
    PROVE  VersionAt(Here, s, sync[Loop].want[s].text)
  <1>1. /\ Loop \in Syncs /\ sync \in [Syncs -> SyncCalls] /\ sync[Loop] \in SyncCalls
        /\ sync[Loop].pc = "tier" /\ sync[Loop].tier <= Len(TierSeq)
    BY ConnectorAssumption DEF TypeOK, SyncDiff
  <1>2. Here \in Tiers
    <2>1. sync[Loop].tier \in Nat /\ sync[Loop].tier >= 1
      BY <1>1 DEF SyncCalls, TypeOK, CallsOK
    <2>2. sync[Loop].tier \in 1 .. Len(TierSeq)
      BY <1>1, <2>1, ConnectorAssumption
    <2>3. QED
      BY <2>2, TierInTiers DEF Here
  <1>3. PICK seen \in [Sources -> Texts \cup {None}] :
          /\ \A x \in Sources : seen[x] \in SeenHashes(store[Here], x, plain[Here])
          /\ sync'[Loop].todo = Changed(sync[Loop].want, Here, seen)
    BY <1>1 DEF SyncDiff, Here
  <1>4. s \in Sources /\ sync[Loop].want[s] # None /\ seen[s] = sync[Loop].want[s].text
    BY <1>3 DEF Changed, Wanted
  <1>5. sync[Loop].want[s].text \in Texts
    BY <1>1, <1>4 DEF SyncCalls, RecordOrNone, Records
  <1>6. seen[s] # None
    BY <1>4, <1>5, ChunkStoreAssumption
  <1>7. seen[s] \in Shown(Here, s)
    BY <1>3, <1>4, <1>6 DEF SeenHashes, Shown
  <1>8. PICK v \in Texts : VersionAt(Here, s, v)
    BY <1>2, <1>4, <1>7 DEF OneVersionEach
  <1>9. v = seen[s]
    BY <1>7, <1>8 DEF VersionAt
  <1>10. QED
    BY <1>4, <1>8, <1>9

LEMMA ArrivedStep ==
    ASSUME TypeOK, LoneInv, CalmInv, [Next]_vars, Syncs = {Loop}
    PROVE  Arrived'
  <1> SUFFICES ASSUME NEW i \in 1 .. Len(TierSeq), NEW s \in Sources,
                      Calm',
                      s \in Wanted(sync'[Loop].want, TierSeq[i]),
                      \/ i < sync'[Loop].tier
                      \/ i = sync'[Loop].tier /\ sync'[Loop].pc = "apply"
                                             /\ s \notin sync'[Loop].todo
               PROVE  VersionAt(TierSeq[i], s, sync[Loop].want[s].text)'
    BY DEF Arrived
  <1> DEFINE t == TierSeq[i]
             v == sync'[Loop].want[s].text
             Goal == /\ ShownTexts(RowsOf(store'[t], s)) = {v}
                     /\ IndexesOf(RowsOf(store'[t], s)) = 0 .. NumChunks[v] - 1
  <1> SUFFICES Goal
    BY DEF VersionAt, Shown, Positions
  <1>t. t \in Tiers /\ sync[Loop] \in SyncCalls /\ Loop \in Syncs
    BY TierInTiers DEF TypeOK
  <1>n. sync[Loop].tier \in Nat /\ i \in Nat
    BY <1>t DEF SyncCalls
  <1>k. ASSUME Kept(t, s), VersionAt(t, s, v) PROVE Goal
    BY <1>k DEF Kept, VersionAt, Shown, Positions
  <1>o. ASSUME Calm, s \in Wanted(sync[Loop].want, t),
               \/ i < sync[Loop].tier
               \/ i = sync[Loop].tier /\ sync[Loop].pc = "apply" /\ s \notin sync[Loop].todo
        PROVE  VersionAt(t, s, sync[Loop].want[s].text)
    BY <1>o DEF CalmInv, Arrived
  <1> HIDE DEF Goal
  <1>1. CASE SyncFetch(Loop)
    BY <1>1, <1>n, LoopAfter
  <1> SUFFICES ASSUME Calm, LoopMoves \/ Rests PROVE Goal
    BY <1>1, CalmStep DEF CalmInv
  <1>2. CASE SyncDiff(Loop)
    <2>1. /\ sync'[Loop].tier = sync[Loop].tier /\ sync'[Loop].want = sync[Loop].want
          /\ store' = store /\ plain' = plain
      BY <1>2, LoopAfter DEF SyncDiff
    <2>2. Kept(t, s)
      BY <2>1 DEF Kept, Shown, Positions
    <2>3. CASE i < sync[Loop].tier
      BY <1>k, <1>o, <2>1, <2>2, <2>3
    <2>4. CASE i = sync[Loop].tier /\ s \notin sync'[Loop].todo
      <3>1. Here = t
        BY <2>4 DEF Here
      <3>2. VersionAt(t, s, sync[Loop].want[s].text)
        BY <1>2, <2>1, <2>4, <3>1, DiffArrived DEF CalmInv
      <3>3. QED
        BY <1>k, <2>1, <2>2, <3>2
    <2>5. QED
      BY <2>1, <2>3, <2>4
  <1>3. ASSUME NEW x \in Sources, SyncDelete(Loop, x) \/ SyncReplace(Loop, x) PROVE Goal
    <2>1. /\ sync'[Loop].pc = sync[Loop].pc /\ sync'[Loop].tier = sync[Loop].tier
          /\ sync'[Loop].want = sync[Loop].want /\ sync'[Loop].todo = sync[Loop].todo
          /\ sync[Loop].pc = "apply"
      BY <1>3, LoopAfter DEF SyncDelete, SyncReplace
    <2>2. VersionAt(t, s, v)
      BY <1>o, <2>1
    <2>3. t # Here \/ s # x
      <3> SUFFICES ASSUME t = Here, s = x PROVE FALSE
        OBVIOUS
      <3>1. s \notin sync[Loop].gone
        BY <2>1 DEF LoneInv, Unwanted
      <3>2. s \in sync[Loop].todo
        BY <1>3, <3>1 DEF SyncDelete, SyncReplace
      <3>3. sync[Loop].tier \in 1 .. Len(TierSeq) /\ TierSeq[sync[Loop].tier] = TierSeq[i]
        BY <1>t, <2>1, ConnectorAssumption DEF Here, TypeOK, CallsOK, SyncCalls
      <3>4. i = sync[Loop].tier
        BY <3>3, ConnectorAssumption
      <3>5. QED
        BY <2>1, <3>2, <3>4, <1>n
    <2>4. Kept(t, s)
      BY <1>3, <1>t, <2>3, DeleteLeaves
    <2>5. QED
      BY <1>k, <2>2, <2>4
  <1>4. CASE SyncAdd(Loop)
    <2>1. /\ sync'[Loop].pc = sync[Loop].pc /\ sync'[Loop].tier = sync[Loop].tier
          /\ sync'[Loop].want = sync[Loop].want
          /\ sync'[Loop].todo = sync[Loop].todo \ {sync[Loop].source}
      BY <1>4, LoopAfter
    <2>2. CASE t = Here /\ s = sync[Loop].source
      <3>1. PICK u \in Texts : u = sync[Loop].want[s].text
        BY <1>4, <1>t, <2>2, AddLeaves DEF LoneInv
      <3>2. VersionAt(t, s, u)'
        BY <1>4, <1>t, <2>2, <3>1, AddLeaves DEF LoneInv
      <3>3. u = v
        BY <2>1, <3>1
      <3>4. QED
        BY <3>2, <3>3 DEF VersionAt, Shown, Positions, Goal
    <2>3. CASE t # Here \/ s # sync[Loop].source
      <3>1. Kept(t, s)
        BY <1>4, <1>t, <2>3, AddLeaves DEF LoneInv
      <3>2. i = sync[Loop].tier => t = Here
        BY DEF Here
      <3>3. VersionAt(t, s, v)
        BY <1>o, <2>1, <2>3, <3>2
      <3>4. QED
        BY <1>k, <3>1, <3>3
    <2>4. QED
      BY <2>2, <2>3
  <1>5. CASE SyncNextTier(Loop)
    <2>1. /\ sync'[Loop].pc = "tier" /\ sync'[Loop].tier = sync[Loop].tier + 1
          /\ sync'[Loop].want = sync[Loop].want
          /\ sync[Loop].pc = "apply" /\ sync[Loop].todo = {}
          /\ store' = store /\ plain' = plain
      BY <1>5, LoopAfter DEF SyncNextTier
    <2>2. i < sync[Loop].tier \/ i = sync[Loop].tier
      BY <2>1, <1>n
    <2>3. VersionAt(t, s, v)
      BY <1>o, <2>1, <2>2
    <2>4. Kept(t, s)
      BY <2>1 DEF Kept, Shown, Positions
    <2>5. QED
      BY <1>k, <2>3, <2>4
  <1>6. CASE Rests
    <2>1. sync' = sync /\ Kept(t, s)
      BY <1>6, <1>t DEF Rests
    <2>2. VersionAt(t, s, v)
      BY <1>o, <2>1
    <2>3. QED
      BY <1>k, <2>1, <2>2
  <1>7. QED
    BY <1>1, <1>2, <1>3, <1>4, <1>5, <1>6 DEF LoopMoves

\* An earlier version of the program left whole records.
LEMMA OneVersionInit == Init => OneVersionEach
  <1> SUFFICES ASSUME Init, NEW t \in Tiers, NEW s \in Sources
               PROVE  Shown(t, s) = {} \/ \E v \in Texts : VersionAt(t, s, v)
    BY DEF OneVersionEach
  <1>1. PICK old \in OldRecords :
          store = [u \in Tiers |-> UNION {ChunkRows(x, old[x].text, "connector", "false") :
                                             x \in Indexed(old, u)}]
    BY DEF Init
  <1>2. \A x, y : \A r \in ChunkRows(x, y, "connector", "false") : r.source = x
    BY DEF ChunkRows
  <1>3. store[t] = UNION {ChunkRows(x, old[x].text, "connector", "false") : x \in Indexed(old, t)}
    BY <1>1
  <1>4. CASE s \notin Indexed(old, t)
    <2>1. RowsOf(store[t], s) = {}
      BY <1>2, <1>3, <1>4 DEF RowsOf
    <2>2. QED
      BY <2>1 DEF Shown, ShownTexts
  <1>5. CASE s \in Indexed(old, t)
    <2>1. RowsOf(store[t], s) = ChunkRows(s, old[s].text, "connector", "false")
      BY <1>2, <1>3, <1>5 DEF RowsOf
    <2>2. old[s] \in Records
      BY <1>5 DEF Indexed, OldRecords, RecordOrNone
    <2>3. old[s].text \in Texts
      BY <2>2 DEF Records
    <2> DEFINE v == old[s].text
               rows == ChunkRows(s, v, "connector", "false")
    <2>a. v \in Texts /\ NumChunks[v] > 0
      BY <2>3, ConnectorAssumption
    <2> HIDE DEF v
    <2>b. ShownTexts(rows) = {v} /\ IndexesOf(rows) = 0 .. NumChunks[v] - 1
      BY <2>a, ChunkRowsShow
    <2>4. VersionAt(t, s, v)
      BY <2>1, <2>b DEF VersionAt, Shown, Positions, v
    <2>5. QED
      BY <2>a, <2>4
  <1>6. QED
    BY <1>4, <1>5

LEMMA CalmInvariant == Syncs = {Loop} /\ Spec => [](TypeOK /\ LoneInv /\ CalmInv)
  <1> SUFFICES ASSUME Syncs = {Loop} PROVE Spec => [](TypeOK /\ LoneInv /\ CalmInv)
    OBVIOUS
  <1>1. Init => CalmInv
    <2> SUFFICES ASSUME Init PROVE CalmInv
      OBVIOUS
    <2>1. sync[Loop] = NoSync /\ events = 0
      BY ConnectorAssumption DEF Init
    <2>2. QED
      BY <2>1, OneVersionInit DEF CalmInv, SinceKnown, Fetched, Arrived, Calm, NoSync
  <1>2. TypeOK /\ LoneInv /\ CalmInv /\ [Next]_vars => CalmInv'
    <2> SUFFICES ASSUME TypeOK, LoneInv, CalmInv, [Next]_vars PROVE CalmInv'
      OBVIOUS
    <2>1. OneVersionEach'
      BY OneVersionStep DEF LoneInv, CalmInv
    <2>2. SinceKnown'
      BY CalmStep DEF CalmInv
    <2>3. Fetched'
      BY FetchedStep DEF CalmInv
    <2>4. Arrived'
      BY ArrivedStep
    <2>5. QED
      BY <2>1, <2>2, <2>3, <2>4 DEF CalmInv
  <1>3. QED
    BY <1>1, <1>2, LoneInvariant, PTL DEF Spec

\* While one sync runs at a time: one during which nothing is edited upstream or
\* rejected ends with the index exactly as upstream has it, every tier of it,
\* whatever failed syncs, crashes and an earlier version of the program left.  It is
\* what convergence rests on; that such a sync comes is fairness, and TLC's.
THEOREM ConnectorReconciles == Syncs = {Loop} /\ Spec => UndisturbedSyncReconciles
  <1> SUFFICES ASSUME Syncs = {Loop} PROVE Spec => UndisturbedSyncReconciles
    OBVIOUS
  <1> DEFINE Step == \A w \in Syncs : SyncDone(w) /\ sync[w].since = events => InSync
  <1>1. TypeOK /\ LoneInv /\ CalmInv => Step
    <2> SUFFICES ASSUME TypeOK, LoneInv, CalmInv, SyncDone(Loop), sync[Loop].since = events
                 PROVE  InSync
      OBVIOUS
    <2>1. sync[Loop].pc = "tier" /\ sync[Loop].tier > Len(TierSeq) /\ Calm
      BY DEF SyncDone, Calm
    <2>2. sync[Loop].want = [s \in Sources |-> ToDocument(upstream[s])]
      BY <2>1 DEF CalmInv, Fetched
    <2>3. sync[Loop].tier \in Nat /\ Len(TierSeq) \in Nat
      BY ConnectorAssumption DEF TypeOK, SyncCalls
    <2> SUFFICES ASSUME NEW t \in Tiers, NEW s \in Sources
                 PROVE  LET r == ToDocument(upstream[s])
                            rows == RowsOf(store[t], s)
                        IN IF r # None /\ r.acl = t
                           THEN /\ ShownTexts(rows) = {r.text}
                                /\ {q.index : q \in rows} = 0 .. NumChunks[r.text] - 1
                           ELSE rows = {}
      BY DEF InSync
    <2> DEFINE r == ToDocument(upstream[s])
    <2>4. PICK i \in 1 .. Len(TierSeq) : TierSeq[i] = t
      BY DEF Tiers
    <2>5. i < sync[Loop].tier /\ sync[Loop].want[s] = r
      BY <2>1, <2>2, <2>3
    <2>6. CASE r # None /\ r.acl = t
      <3>1. s \in Wanted(sync[Loop].want, TierSeq[i])
        BY <2>4, <2>5, <2>6 DEF Wanted
      <3>2. VersionAt(t, s, r.text)
        BY <2>1, <2>4, <2>5, <3>1 DEF CalmInv, Arrived
      <3>3. QED
        BY <2>6, <3>2 DEF VersionAt, Shown, Positions, IndexesOf
    <2>7. CASE ~(r # None /\ r.acl = t)
      <3>1. s \notin Wanted(sync[Loop].want, TierSeq[i])
        BY <2>4, <2>5, <2>7 DEF Wanted
      <3>2. Shown(t, s) = {}
        BY <2>1, <2>4, <2>5, <3>1 DEF LoneInv, Left
      <3>3. QED
        BY <2>7, <3>2 DEF Shown, ShownTexts
    <2>8. QED
      BY <2>6, <2>7
  <1> HIDE DEF Step
  <1>2. [](TypeOK /\ LoneInv /\ CalmInv) => [][Step]_vars
    BY <1>1, PTL
  <1>3. QED
    BY <1>2, CalmInvariant DEF UndisturbedSyncReconciles, Step

-----------------------------------------------------------------------------
(* Sealing *)

LEMMA DecryptsWhatItEncrypted ==
    ASSUME NEW x \in Words
    PROVE  /\ Encrypt(x) \in Ciphertexts
           /\ Decrypt(Encrypt(x)) = x
           /\ Encrypt(x) \notin Words \cup Flags
  <1>1. Encrypt(x) \in Ciphertexts /\ Encrypt(x)[2] = x
    BY DEF Ciphertexts, Encrypt
  <1>2. QED
    BY <1>1, SealingAssumption DEF Decrypt, HasPrefix

\* Text that is written as a body or as free metadata, text that begins like a
\* ciphertext included, is stored under a key and read back unchanged; a record
\* from before encryption is read as it is.
THEOREM SealingRoundTrip ==
    ASSUME NEW body \in Words, NEW D \in SUBSET Keys, NEW meta \in [D -> Values]
    PROVE  ReadsBack(body, meta) /\ NothingInTheClear(body, meta)
  <1> DEFINE record == Seal(body, meta)
  <1>1. record.body = Encrypt(body) /\ record.meta = SealMetadata(meta) /\ record.enc
    BY DEF Seal
  <1>2. DOMAIN record.meta = D /\ DOMAIN meta = D
    BY <1>1 DEF SealMetadata
  <1>3. ASSUME NEW k \in D, IsFreeText(k, meta[k])
        PROVE  /\ record.meta[k] = Encrypt(meta[k])
               /\ IsFreeText(k, record.meta[k])
               /\ Decrypt(record.meta[k]) = meta[k]
               /\ record.meta[k] \notin Words
    <2>1. meta[k] \in Words
      BY <1>3 DEF IsFreeText, Values
    <2>2. record.meta[k] = Encrypt(meta[k])
      BY <1>1, <1>3 DEF SealMetadata
    <2>3. k \notin Cleartext
      BY <1>3 DEF IsFreeText
    <2>4. QED
      BY <2>1, <2>2, <2>3, DecryptsWhatItEncrypted DEF IsFreeText
  <1>4. ASSUME NEW k \in D, ~IsFreeText(k, meta[k])
        PROVE  record.meta[k] = meta[k] /\ ~IsFreeText(k, record.meta[k])
    BY <1>1, <1>4 DEF SealMetadata
  <1>5. record.body \notin Words /\ Decrypt(record.body) = body
    BY <1>1, DecryptsWhatItEncrypted
  <1>6. NothingInTheClear(body, meta)
    <2>1. ASSUME NEW k \in D \ Cleartext PROVE record.meta[k] \notin Words
      <3>1. CASE IsFreeText(k, meta[k])
        BY <3>1, <1>3
      <3>2. CASE ~IsFreeText(k, meta[k])
        BY <3>2, <1>4, SealingAssumption DEF IsFreeText
      <3>3. QED
        BY <3>1, <3>2
    <2>2. QED
      BY <2>1, <1>2, <1>5 DEF NothingInTheClear
  <1>7. Read(record) = [body |-> body, meta |-> meta]
    <2> DEFINE opened == [k \in D |-> IF IsFreeText(k, record.meta[k])
                                      THEN Decrypt(record.meta[k]) ELSE record.meta[k]]
    <2>1. Read(record) = [body |-> Decrypt(record.body), meta |-> opened]
      BY <1>1, <1>2 DEF Read
    <2>2. ASSUME NEW k \in D PROVE opened[k] = meta[k]
      BY <1>3, <1>4
    <2>3. opened = meta
      BY <2>2
    <2> HIDE DEF opened
    <2>4. QED
      BY <2>1, <2>3, <1>5
  <1>8. Read(Unsealed(body, meta)) = [body |-> body, meta |-> meta]
    BY DEF Read, Unsealed
  <1>9. QED
    BY <1>6, <1>7, <1>8 DEF ReadsBack

\* mark_reviewed rewrites the metadata of a record, sealed or from before
\* encryption, without opening it: the keys of the decision are readable as
\* written and every text reads as before.
THEOREM DecisionsKeepTexts ==
    ASSUME NEW body, NEW D \in SUBSET Keys, NEW meta, DOMAIN meta = D, NEW enc \in BOOLEAN,
           NEW E \in SUBSET Cleartext, NEW verdict \in [E -> Values]
    PROVE  DecisionKeepsText([body |-> body, meta |-> meta, enc |-> enc], verdict)
  <1> DEFINE record == [body |-> body, meta |-> meta, enc |-> enc]
             decided == [k \in D \cup E |-> IF k \in E THEN verdict[k] ELSE meta[k]]
             View(f, k) == IF IsFreeText(k, f[k]) THEN Decrypt(f[k]) ELSE f[k]
  <1>1. Decide(record, verdict) = [body |-> body, meta |-> decided, enc |-> enc]
    BY DEF Decide
  <1>2. \A k \in D \ E : decided[k] = meta[k]
    OBVIOUS
  <1>3. \A k \in E : decided[k] = verdict[k] /\ ~IsFreeText(k, decided[k])
    BY DEF IsFreeText
  <1>4. CASE ~enc
    <2>1. Read(record).meta = meta /\ Read(record).body = body
      BY <1>4 DEF Read
    <2>2. Read(Decide(record, verdict)).meta = decided /\ Read(Decide(record, verdict)).body = body
      BY <1>1, <1>4 DEF Read
    <2>3. QED
      BY <2>1, <2>2, <1>2, <1>3 DEF DecisionKeepsText
  <1>5. CASE enc
    <2>1. /\ Read(record).body = Decrypt(body)
          /\ \A k \in D : Read(record).meta[k] = View(meta, k)
      BY <1>5 DEF Read
    <2>2. /\ Read(Decide(record, verdict)).body = Decrypt(body)
          /\ \A k \in D \cup E : Read(Decide(record, verdict)).meta[k] = View(decided, k)
      <3>1. DOMAIN decided = D \cup E
        OBVIOUS
      <3> HIDE DEF decided
      <3> DEFINE after == Decide(record, verdict)
      <3>a. after.body = body /\ after.meta = decided /\ after.enc
        BY <1>1, <1>5
      <3> HIDE DEF after
      <3>2. Read(after) =
              [body |-> Decrypt(body), meta |-> [k \in D \cup E |-> View(decided, k)]]
        BY <3>a, <3>1 DEF Read
      <3>3. QED
        BY <3>2 DEF after
    <2>3. QED
      BY <2>1, <2>2, <1>2, <1>3 DEF DecisionKeepsText
  <1>6. QED
    BY <1>4, <1>5
=============================================================================
