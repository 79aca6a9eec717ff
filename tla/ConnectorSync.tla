--------------------------- MODULE ConnectorSync ---------------------------
(***************************************************************************)
(* sync_connector (app/ingest.py): the index of every tier is reconciled   *)
(* with the records of the ticket system.                                  *)
(*                                                                         *)
(* The background loop runs one sync after another; POST /ingest runs      *)
(* further ones beside it.  A sync works from one fetch: for each tier in  *)
(* order it takes one look at the index, deletes what upstream no longer   *)
(* has in that tier and re-indexes what changed.  One action is one        *)
(* acquisition of _CLIENT_LOCK.  Approvers decide meanwhile; what they     *)
(* read is modelled in ReviewGate, here a decision is the hash it names.   *)
(***************************************************************************)
EXTENDS ChunkStore, Sequences

CONSTANTS
    TierSeq,      \* TIERS, the order in which a sync visits the tiers
    Syncs,        \* concurrent calls of sync_connector
    Loop,         \* the one the background loop makes
    Legacy,       \* tickets that may have been indexed before the store encrypted
    MaxEvents     \* bound on upstream edits, manual syncs, rejections and failures

Tiers == {TierSeq[i] : i \in 1 .. Len(TierSeq)}

\* A record of the ticket system.  An ACL of "refused" is one the connector
\* does not recognise, or a record without an id or a body.
Records == [acl : Tiers \cup {"refused"}, text : Texts]

\* A record without a body is refused, so what is indexed has a first chunk.
ASSUME ConnectorAssumption ==
    /\ None \notin Records
    /\ \A v \in Texts : NumChunks[v] > 0
    /\ TierSeq \in Seq(STRING \ {"refused"}) /\ Len(TierSeq) > 0
    /\ \A i, j \in 1 .. Len(TierSeq) : TierSeq[i] = TierSeq[j] => i = j
    /\ Loop \in Syncs
    /\ Legacy \subseteq Sources
    /\ MaxEvents \in Nat

VARIABLES
    upstream,     \* the ticket system: what each record says, None for no record
    store,        \* the collections, one per tier
    plain,        \* per tier, the tickets whose records lack the enc marker
    sync,         \* local state of the syncs
    events,       \* edits, manual syncs, rejections and failures so far
    published,    \* history: every <<tier, source, version>> upstream ever had
    signoffs      \* history: every <<tier, source, version>> ever approved

vars == <<upstream, store, plain, sync, events, published, signoffs>>

RecordOrNone == Records \cup {None}

\* since is history: the value of events when the sync fetched.
NoSync == [pc |-> "idle", tier |-> 0, want |-> [s \in Sources |-> None],
           gone |-> {}, todo |-> {}, source |-> None, since |-> 0]

SyncCalls == [pc : {"idle", "tier", "apply"}, tier : Nat,
              want : [Sources -> RecordOrNone],
              gone : SUBSET Sources, todo : SUBSET Sources,
              source : Sources \cup {None}, since : Nat]

\* A sync that applies a tier knows the tier, and the version it wants there of
\* everything it still has to write.
CallsOK ==
    \A w \in Syncs :
        /\ sync[w].pc # "idle" => sync[w].tier >= 1
        /\ sync[w].pc = "apply" => sync[w].tier <= Len(TierSeq)
        /\ sync[w].source # None => sync[w].pc = "apply" /\ sync[w].source \in sync[w].todo
        /\ \A s \in sync[w].todo : /\ sync[w].want[s] \in Records
                                   /\ sync[w].want[s].acl = TierSeq[sync[w].tier]

TypeOK ==
    /\ upstream \in [Sources -> RecordOrNone]
    /\ store \in [Tiers -> SUBSET Rows]
    /\ plain \in [Tiers -> SUBSET Sources]
    /\ sync \in [Syncs -> SyncCalls]
    /\ events \in Nat
    /\ published \subseteq Tiers \X Sources \X Texts
    /\ signoffs \subseteq Tiers \X Sources \X Texts
    /\ CallsOK

\* What a run of the program before encryption may have left: old[s] is the
\* record it indexed.
Indexed(old, t) == {s \in Legacy : old[s] # None /\ old[s].acl = t}

OldRecords ==
    {old \in [Sources -> RecordOrNone] :
        \A s \in Sources : old[s] # None => s \in Legacy /\ old[s].acl \in Tiers}

Init ==
    /\ \E old \in OldRecords :
          /\ upstream = old
          /\ store = [t \in Tiers |-> UNION {ChunkRows(s, old[s].text, "connector", "false") :
                                               s \in Indexed(old, t)}]
          /\ plain = [t \in Tiers |-> Indexed(old, t)]
          /\ published = UNION {{<<t, s, old[s].text>> : s \in Indexed(old, t)} : t \in Tiers}
    /\ sync = [w \in Syncs |-> NoSync]
    /\ events = 0
    /\ signoffs = {}

-----------------------------------------------------------------------------
(* The environment *)

\* A record is filed, edited, re-classified or deleted upstream.
UpstreamEdit(s, r) ==
    /\ events < MaxEvents
    /\ events' = events + 1
    /\ upstream' = [upstream EXCEPT ![s] = r]
    /\ published' = published \cup
          (IF r # None /\ r.acl \in Tiers THEN {<<r.acl, s, r.text>>} ELSE {})
    /\ UNCHANGED <<store, plain, sync, signoffs>>

-----------------------------------------------------------------------------
(* One sync *)

\* Mutant: a record with an unknown ACL is defaulted to the first tier.
ToDocumentDefault(r) ==
    IF r # None /\ r.acl = "refused" THEN [r EXCEPT !.acl = TierSeq[1]] ELSE r

\* Records whose ACL is not recognised are dropped, never defaulted.
ToDocument(r) == IF r # None /\ r.acl = "refused" THEN None ELSE r

\* The loop fetches again and again, POST /ingest on request.
SyncFetch(w) ==
    /\ sync[w].pc = "idle"
    /\ \/ w = Loop /\ events' = events
       \/ w # Loop /\ events < MaxEvents /\ events' = events + 1
    /\ sync' = [sync EXCEPT ![w] =
                   [pc |-> "tier", tier |-> 1,
                    want |-> [s \in Sources |-> ToDocument(upstream[s])],
                    gone |-> {}, todo |-> {}, source |-> None, since |-> events']]
    /\ UNCHANGED <<upstream, store, plain, published, signoffs>>

\* Mutant: the desired records are not kept apart by tier.
WantedEverywhere(want, t) == {s \in Sources : want[s] # None}

Wanted(want, t) == {s \in Sources : want[s] # None /\ want[s].acl = t}

\* Mutant: only records that vanished altogether are deleted, not moved ones.
GoneVanished(rows, want, t) ==
    {s \in IndexedSources(rows, "connector") : want[s] = None}

Gone(rows, want, t) == IndexedSources(rows, "connector") \ Wanted(want, t)

\* Mutant: a record in the clear reports its hash, so an unchanged one is never
\* re-indexed.
SeenHashesOnly(rows, s, inClear) ==
    IF RowsOf(rows, s) = {} THEN {None} ELSE ShownTexts(RowsOf(rows, s))

\* indexed_state answers one hash per source; where the chunks disagree it is
\* the hash of whichever chunk came last.  A source in the clear answers
\* _NEEDS_REINDEX, which no version has: None, like a source that is not there.
SeenHashes(rows, s, inClear) ==
    IF RowsOf(rows, s) = {} \/ s \in inClear THEN {None} ELSE ShownTexts(RowsOf(rows, s))

\* Mutants: an indexed record is never re-indexed; every record always is.
ChangedIfNew(want, t, seen) == {s \in Wanted(want, t) : seen[s] = None}
ChangedAlways(want, t, seen) == Wanted(want, t)

Changed(want, t, seen) == {s \in Wanted(want, t) : seen[s] # want[s].text}

SyncDiff(w) ==
    /\ sync[w].pc = "tier"
    /\ sync[w].tier <= Len(TierSeq)
    /\ LET t == TierSeq[sync[w].tier]
           want == sync[w].want
       IN \E seen \in [Sources -> Texts \cup {None}] :
             /\ \A s \in Sources : seen[s] \in SeenHashes(store[t], s, plain[t])
             /\ sync' = [sync EXCEPT ![w] =
                   [pc |-> "apply", tier |-> sync[w].tier, want |-> want,
                    gone |-> Gone(store[t], want, t),
                    todo |-> Changed(want, t, seen), source |-> None,
                    since |-> sync[w].since]]
    /\ UNCHANGED <<upstream, store, plain, events, published, signoffs>>

SyncDelete(w, s) ==
    /\ sync[w].pc = "apply"
    /\ s \in sync[w].gone
    /\ LET t == TierSeq[sync[w].tier]
       IN /\ store' = [store EXCEPT ![t] = DeleteSource(store[t], s)]
          /\ plain' = [plain EXCEPT ![t] = @ \ {s}]
    /\ sync' = [sync EXCEPT ![w].gone = @ \ {s}]
    /\ UNCHANGED <<upstream, events, published, signoffs>>

\* _index, first half.
SyncReplace(w, s) ==
    /\ sync[w].pc = "apply"
    /\ sync[w].gone = {}
    /\ sync[w].source = None
    /\ s \in sync[w].todo
    /\ LET t == TierSeq[sync[w].tier]
       IN /\ store' = [store EXCEPT ![t] = DeleteSource(store[t], s)]
          /\ plain' = [plain EXCEPT ![t] = @ \ {s}]
    /\ sync' = [sync EXCEPT ![w].source = s]
    /\ UNCHANGED <<upstream, events, published, signoffs>>

\* Mutant: a record approved before is indexed as approved.
SyncAddKeepsApproval(w) ==
    LET t == TierSeq[sync[w].tier]
        s == sync[w].source
        v == sync[w].want[s].text
    IN /\ s # None
       /\ store' = [store EXCEPT ![t] = AddChunks(store[t], ChunkRows(s, v, "connector",
              IF \E g \in signoffs : g[1] = t /\ g[2] = s THEN "true" ELSE "false"))]
       /\ sync' = [sync EXCEPT ![w].source = None, ![w].todo = @ \ {s}]
       /\ UNCHANGED <<upstream, plain, events, published, signoffs>>

\* _index, second half: always unreviewed, and sealed.  Nothing writes a record
\* in the clear, so the first half has left none for the upsert to meet.
SyncAdd(w) ==
    LET t == TierSeq[sync[w].tier]
        s == sync[w].source
        v == sync[w].want[s].text
    IN /\ s # None
       /\ store' = [store EXCEPT ![t] =
                       AddChunks(store[t], ChunkRows(s, v, "connector", "false"))]
       /\ sync' = [sync EXCEPT ![w].source = None, ![w].todo = @ \ {s}]
       /\ UNCHANGED <<upstream, plain, events, published, signoffs>>

SyncNextTier(w) ==
    /\ sync[w].pc = "apply"
    /\ sync[w].gone = {} /\ sync[w].todo = {}
    /\ sync' = [sync EXCEPT ![w].pc = "tier", ![w].tier = @ + 1]
    /\ UNCHANGED <<upstream, store, plain, events, published, signoffs>>

SyncDone(w) ==
    /\ sync[w].pc = "tier"
    /\ sync[w].tier > Len(TierSeq)
    /\ sync' = [sync EXCEPT ![w] = NoSync]
    /\ UNCHANGED <<upstream, store, plain, events, published, signoffs>>

\* The embedder or the store raises: the loop logs it and goes on.
SyncFail(w) ==
    /\ sync[w].pc # "idle"
    /\ events < MaxEvents
    /\ events' = events + 1
    /\ sync' = [sync EXCEPT ![w] = NoSync]
    /\ UNCHANGED <<upstream, store, plain, published, signoffs>>

Restart ==
    /\ events < MaxEvents
    /\ events' = events + 1
    /\ sync' = [w \in Syncs |-> NoSync]
    /\ UNCHANGED <<upstream, store, plain, published, signoffs>>

-----------------------------------------------------------------------------
(* Decisions of approvers, bound to a hash *)

Approve(t, s, h) ==
    /\ IsCurrent(store[t], s, h)
    /\ store' = [store EXCEPT ![t] = MarkReviewed(store[t], s, h)]
    /\ signoffs' = signoffs \cup {<<t, s, h>>}
    /\ UNCHANGED <<upstream, plain, sync, events, published>>

Reject(t, s, h) ==
    /\ events < MaxEvents
    /\ IsCurrent(store[t], s, h)
    /\ events' = events + 1
    /\ store' = [store EXCEPT ![t] = DeleteSource(store[t], s)]
    /\ plain' = [plain EXCEPT ![t] = @ \ {s}]
    /\ UNCHANGED <<upstream, sync, published, signoffs>>

-----------------------------------------------------------------------------
Progress(w) ==
    \/ \E s \in Sources : SyncDelete(w, s) \/ SyncReplace(w, s)
    \/ SyncDiff(w) \/ SyncAdd(w) \/ SyncNextTier(w) \/ SyncDone(w)

Next ==
    \/ \E s \in Sources, r \in RecordOrNone : UpstreamEdit(s, r)
    \/ \E w \in Syncs : SyncFetch(w) \/ Progress(w) \/ SyncFail(w)
    \/ \E t \in Tiers, s \in Sources, h \in Texts \cup {None} :
          Approve(t, s, h) \/ Reject(t, s, h)
    \/ Restart

Spec == Init /\ [][Next]_vars

\* The loop starts the next sync after every one that ended, however it ended
\* (a fetch that fails is no step: fairness asks that some fetch succeeds), and
\* a thread that can take its next step takes it.
FairSpec == Spec /\ WF_vars(SyncFetch(Loop)) /\ \A w \in Syncs : WF_vars(Progress(w))

-----------------------------------------------------------------------------
(* Properties *)

\* "Tier is inherited from upstream. The RAG does not get a vote": nothing is
\* indexed in a tier upstream never put that version of the record in.
TierInherited ==
    \A t \in Tiers : \A r \in store[t] : <<t, r.source, r.text>> \in published

\* A record whose ACL moved to a later tier of TIERS has left the earlier ones
\* before any of its chunks appears in the new one.
LeavesBeforeItArrives ==
    [][ \A w \in Syncs :
          LET s == sync[w].source
          IN SyncAdd(w) => \A i \in 1 .. sync[w].tier - 1 : RowsOf(store[TierSeq[i]], s) = {} ]_vars

\* An unchanged record is skipped: while upstream still says what an approver
\* signed off, and every sync in flight fetched that, no sync touches it; unless
\* it is still in the clear, when the sync that seals it takes the approval away.
ApprovalSurvivesSync ==
    [][ \A t \in Tiers, s \in Sources, v \in Texts :
          /\ upstream[s] = [acl |-> t, text |-> v]
          /\ \A w \in Syncs : sync[w].pc # "idle" => sync[w].want[s] = upstream[s]
          /\ HashesAgree(RowsOf(store[t], s), v)
          /\ \A r \in RowsOf(store[t], s) : IsTrusted(r)
          /\ s \notin plain[t]
          /\ sync' # sync /\ events' = events
          => RowsOf(store'[t], s) = RowsOf(store[t], s) ]_vars

\* "A migration that only covers the documents that happened to change is not a
\* migration": the loop re-indexes every ticket an earlier version of the program
\* stored in the clear, whether or not upstream ever changes it.
EverythingSealed == <>[](\A t \in Tiers : plain[t] = {})

\* The index shows every record of upstream in full, in its tier and nowhere
\* else, and nothing more.
InSync ==
    \A t \in Tiers, s \in Sources :
        LET r == ToDocument(upstream[s])
            rows == RowsOf(store[t], s)
        IN IF r # None /\ r.acl = t
           THEN /\ ShownTexts(rows) = {r.text}
                /\ {q.index : q \in rows} = 0 .. NumChunks[r.text] - 1
           ELSE rows = {}

\* sync_connector reconciles: while no sync overlaps another, one during which
\* nothing was edited upstream or rejected leaves the index as upstream has it,
\* whatever failed syncs and earlier versions of the program left there.
UndisturbedSyncReconciles ==
    [][ \A w \in Syncs : SyncDone(w) /\ sync[w].since = events => InSync ]_vars

\* Once edits, rejections and failures stop, the loop brings the index to what
\* upstream says and it stays there.
Converges == <>[]InSync

Gate == INSTANCE TrustGate WITH
    Sources <- Tiers \X Sources,
    answerable <- {x \in (Tiers \X Sources) \X Texts :
                      <<x[1][2], x[2]>> \in Answerable(store[x[1][1]])},
    signed <- {<<<<g[1], g[2]>>, g[3]>> : g \in signoffs}

\* Refinement: to retrieval, every sync is a withdrawal at most.
GateRefined == Gate!GateSpec

-----------------------------------------------------------------------------
(* A statement the code keeps for one sync at a time and not for two *)

\* ingest.py, sync_connector: "Reconcile the index against the upstream source".
OverlappingSyncsConverge == Converges
=============================================================================
