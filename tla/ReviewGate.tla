----------------------------- MODULE ReviewGate -----------------------------
(***************************************************************************)
(* The review gate of one tier: uploads, the ingest sweep, and review.     *)
(*                                                                         *)
(* POST /upload, POST /ingest, GET /review/document, POST /review and      *)
(* POST /review/reject are synchronous handlers that FastAPI runs on a     *)
(* thread pool, so their calls interleave at every acquisition of          *)
(* _CLIENT_LOCK and at every file operation.  One action below is one such *)
(* critical section, or the file operations between two of them that no    *)
(* other call can tell apart: making a directory and writing into it,      *)
(* testing for a directory and listing it, testing a destination and       *)
(* taking its mtime.  Source names embed the tier, and every tier has its  *)
(* own collection and directories, so one tier is modelled.                *)
(***************************************************************************)
EXTENDS ChunkStore, Sequences

CONSTANTS
    Curated,      \* sources under data/documents/, written by the host
    Uploads,      \* sources under data/uploads/, written by POST /upload
    Uploaders,    \* concurrent POST /upload calls
    Sweepers,     \* concurrent POST /ingest calls
    Approvers,    \* approvers, each working on one document at a time
    MaxWrites     \* bound on uploads plus what the host does in a behaviour

ASSUME ReviewGateAssumption ==
    /\ Sources = Curated \cup Uploads
    /\ Curated \cap Uploads = {}
    /\ None \notin Sources
    /\ MaxWrites \in Nat

VARIABLES
    store,        \* the tier's collection
    file,         \* document and upload files, None where there is no file
    dirs,         \* which of data/documents/<tier>/ and data/uploads/<tier>/ exist
    quarantine,   \* data/quarantine/: the file under its own name and under suffixed ones
    up, sw, ap,   \* local state of the upload, sweep and review calls
    writes,       \* uploads and host edits so far
    signoffs,     \* history: what each approval named and what was shown for it
    moves,        \* history: what was quarantined under each name, in order
    crossed,      \* history: the uploads that two rejections were moving at once
    overtaken,    \* history: the sweeps about to add a source approved since their delete
    calm          \* history: nothing else ran since this sweep listed its files

vars == <<store, file, dirs, quarantine, up, sw, ap, writes,
          signoffs, moves, crossed, overtaken, calm>>

Directories == {"curated", "upload"}

SourcesOf(origin) == IF origin = "curated" THEN Curated ELSE Uploads

OriginOf(s) == IF s \in Curated THEN "curated" ELSE "upload"

NoUpload == [pc |-> "idle", source |-> None, text |-> None]
NoSweep == [pc |-> "idle", origin |-> "curated", todo |-> {}, seen |-> {},
            source |-> None, text |-> None]
NoReview == [pc |-> "idle", source |-> None, shown |-> {}, rev |-> None, dest |-> None]

TextOrNone == Texts \cup {None}

SourceOrNone == Sources \cup {None}

UploadCalls == [pc : {"idle", "delete", "add"},
                source : SourceOrNone, text : TextOrNone]

SweepCalls == [pc : {"idle", "next", "file", "delete", "add", "retract"},
               origin : Directories,
               todo : SUBSET Sources, seen : SUBSET Sources,
               source : SourceOrNone, text : TextOrNone]

ReviewCalls == [pc : {"idle", "revision", "decide", "quarantine", "place", "move"},
                source : SourceOrNone, shown : SUBSET Texts, rev : TextOrNone,
                dest : TextOrNone]

\* data/quarantine/ under one file name: the file of that name, and those under
\* the name with a suffix made of an mtime.  A version stands for the mtime of
\* its file too.
Shelves == [own : TextOrNone, suffixed : [Texts -> TextOrNone]]

Signoffs == [source : Sources, rev : Texts, shown : SUBSET Texts]

\* A call past its first step knows what it works on.
CallsOK ==
    /\ \A u \in Uploaders :
          up[u].pc # "idle" => up[u].source \in Uploads /\ up[u].text \in Texts
    /\ \A w \in Sweepers :
          sw[w].pc \in {"delete", "add"} => sw[w].source \in Sources /\ sw[w].text \in Texts
    /\ \A a \in Approvers :
          /\ ap[a].pc # "idle" => ap[a].source \in Sources
          /\ ap[a].pc \in {"place", "move"} => ap[a].source \in Uploads

TypeOK ==
    /\ store \subseteq Rows
    /\ file \in [Sources -> TextOrNone]
    /\ dirs \subseteq Directories
    /\ quarantine \in [Uploads -> Shelves]
    /\ up \in [Uploaders -> UploadCalls]
    /\ sw \in [Sweepers -> SweepCalls]
    /\ ap \in [Approvers -> ReviewCalls]
    /\ writes \in Nat
    /\ signoffs \subseteq Signoffs
    /\ moves \in [Uploads -> Seq(Texts)]
    /\ crossed \subseteq Uploads
    /\ overtaken \subseteq Sweepers
    /\ calm \in [Sweepers -> BOOLEAN]
    /\ CallsOK

Init ==
    /\ store = {}
    /\ file \in {f \in [Sources -> TextOrNone] : \A s \in Uploads : f[s] = None}
    /\ dirs \in {d \in SUBSET Directories :
                   "curated" \in d \/ \A s \in Curated : file[s] = None}
    /\ quarantine = [s \in Uploads |-> [own |-> None, suffixed |-> [v \in Texts |-> None]]]
    /\ up = [u \in Uploaders |-> NoUpload]
    /\ sw = [w \in Sweepers |-> NoSweep]
    /\ ap = [a \in Approvers |-> NoReview]
    /\ writes = 0
    /\ signoffs = {}
    /\ moves = [s \in Uploads |-> <<>>]
    /\ crossed = {}
    /\ overtaken = {}
    /\ calm = [w \in Sweepers |-> FALSE]

-----------------------------------------------------------------------------
OthersIdle(w) ==
    /\ \A u \in Uploaders : up[u].pc = "idle"
    /\ \A x \in Sweepers \ {w} : sw[x].pc = "idle"
    /\ \A a \in Approvers : ap[a].pc = "idle"

Listing(w) == sw[w].pc \in {"idle", "next"} /\ sw'[w].pc = "file"

Moving(a, s) == ap[a].pc = "move" /\ ap[a].source = s

\* The history of a step that signs off the sources in signed.  A sweep is calm
\* from its listing as long as no other call is in flight and no file changes; it
\* is overtaken when the source it has deleted and is about to add is approved;
\* an upload is crossed once two rejections have both chosen where to move it.
ObserveSigned(signed) ==
    /\ calm' = [w \in Sweepers |-> /\ calm[w] \/ Listing(w)
                                   /\ OthersIdle(w) /\ OthersIdle(w)'
                                   /\ file' = file]
    /\ overtaken' = {w \in Sweepers : /\ sw'[w].pc = "add"
                                      /\ w \in overtaken \/ sw[w].source \in signed}
    /\ crossed' = crossed \cup {s \in Uploads : \E a, b \in Approvers :
                                    a # b /\ Moving(a, s)' /\ Moving(b, s)'}

Observe == ObserveSigned({})

-----------------------------------------------------------------------------
(* The host edits data/documents/, and may lose a directory with all it holds. *)

HostEdit(s, v) ==
    /\ writes < MaxWrites
    /\ s \in Curated
    /\ file' = [file EXCEPT ![s] = v]
    /\ dirs' = IF v = None THEN dirs ELSE dirs \cup {"curated"}
    /\ writes' = writes + 1
    /\ UNCHANGED <<store, quarantine, up, sw, ap, signoffs, moves>>
    /\ Observe

HostRemove(o) ==
    /\ writes < MaxWrites
    /\ o \in dirs
    /\ dirs' = dirs \ {o}
    /\ file' = [s \in Sources |-> IF s \in SourcesOf(o) THEN None ELSE file[s]]
    /\ writes' = writes + 1
    /\ UNCHANGED <<store, quarantine, up, sw, ap, signoffs, moves>>
    /\ Observe

-----------------------------------------------------------------------------
(* POST /upload: store_upload writes the file, then _index deletes and adds. *)

UploadWrite(u, s, v) ==
    /\ up[u].pc = "idle"
    /\ writes < MaxWrites
    /\ NumChunks[v] > 0        \* store_upload refuses a blank document
    /\ file' = [file EXCEPT ![s] = v]
    /\ dirs' = dirs \cup {"upload"}      \* mkdir(parents=True, exist_ok=True)
    /\ up' = [up EXCEPT ![u] = [pc |-> "delete", source |-> s, text |-> v]]
    /\ writes' = writes + 1
    /\ UNCHANGED <<store, quarantine, sw, ap, signoffs, moves>>
    /\ Observe

UploadDelete(u) ==
    /\ up[u].pc = "delete"
    /\ store' = DeleteSource(store, up[u].source)
    /\ up' = [up EXCEPT ![u].pc = "add"]
    /\ UNCHANGED <<file, dirs, quarantine, sw, ap, writes, signoffs, moves>>
    /\ Observe

\* Mutant: a re-upload of a source that was approved before stays approved.
UploadAddKeepsApproval(u) ==
    /\ up[u].pc = "add"
    /\ store' = AddChunks(store, ChunkRows(up[u].source, up[u].text, "upload",
                    IF \E g \in signoffs : g.source = up[u].source THEN "true" ELSE "false"))
    /\ up' = [up EXCEPT ![u] = NoUpload]
    /\ UNCHANGED <<file, dirs, quarantine, sw, ap, writes, signoffs, moves>>
    /\ Observe

UploadAdd(u) ==
    /\ up[u].pc = "add"
    /\ store' = AddChunks(store, ChunkRows(up[u].source, up[u].text, "upload", "false"))
    /\ up' = [up EXCEPT ![u] = NoUpload]
    /\ UNCHANGED <<file, dirs, quarantine, sw, ap, writes, signoffs, moves>>
    /\ Observe

\* The embedder or the store raises, or the process is stopped: the call ends.
UploadFail(u) ==
    /\ up[u].pc # "idle"
    /\ up' = [up EXCEPT ![u] = NoUpload]
    /\ UNCHANGED <<store, file, dirs, quarantine, sw, ap, writes, signoffs, moves>>
    /\ Observe

-----------------------------------------------------------------------------
(* POST /ingest: ingest_tier over data/documents/, then over data/uploads/. *)

\* The directory a sweep that is about to list one takes next.
NextDirectory(w) == IF sw[w].pc = "idle" THEN "curated" ELSE "upload"

SweepList(w) ==
    /\ sw[w].pc \in {"idle", "next"}
    /\ NextDirectory(w) \in dirs
    /\ LET o == NextDirectory(w)
       IN sw' = [sw EXCEPT ![w] = [NoSweep EXCEPT
                    !.pc = "file", !.origin = o,
                    !.todo = {s \in SourcesOf(o) : file[s] # None}]]
    /\ UNCHANGED <<store, file, dirs, quarantine, up, ap, writes, signoffs, moves>>
    /\ Observe

\* Without the directory ingest_tier returns at once and retracts nothing.
SweepNothing(w) ==
    /\ sw[w].pc \in {"idle", "next"}
    /\ NextDirectory(w) \notin dirs
    /\ sw' = [sw EXCEPT ![w] = [NoSweep EXCEPT
                 !.pc = IF NextDirectory(w) = "curated" THEN "next" ELSE "idle"]]
    /\ UNCHANGED <<store, file, dirs, quarantine, up, ap, writes, signoffs, moves>>
    /\ Observe

SweepRead(w, s) ==
    /\ sw[w].pc = "file"
    /\ s \in sw[w].todo
    /\ file[s] # None
    /\ sw' = [sw EXCEPT ![w].pc = "delete", ![w].todo = @ \ {s},
                        ![w].seen = @ \cup {s}, ![w].source = s, ![w].text = file[s]]
    /\ UNCHANGED <<store, file, dirs, quarantine, up, ap, writes, signoffs, moves>>
    /\ Observe

\* The listed file is gone: is_file() says so and the sweep skips it.
SweepSkip(w, s) ==
    /\ sw[w].pc = "file"
    /\ s \in sw[w].todo
    /\ file[s] = None
    /\ sw' = [sw EXCEPT ![w].todo = @ \ {s}]
    /\ UNCHANGED <<store, file, dirs, quarantine, up, ap, writes, signoffs, moves>>
    /\ Observe

\* Mutant: the sweep overwrites chunks without deleting the old version.
SweepDeleteNothing(w) ==
    /\ sw[w].pc = "delete"
    /\ sw' = [sw EXCEPT ![w].pc = "add"]
    /\ UNCHANGED <<store, file, dirs, quarantine, up, ap, writes, signoffs, moves>>
    /\ Observe

SweepDelete(w) ==
    /\ sw[w].pc = "delete"
    /\ store' = DeleteSource(store, sw[w].source)
    /\ sw' = [sw EXCEPT ![w].pc = "add"]
    /\ UNCHANGED <<file, dirs, quarantine, up, ap, writes, signoffs, moves>>
    /\ Observe

\* Mutant: the sweep carries an earlier approval of the source over to what it
\* finds on disk.
SweepAddKeepsApproval(w) ==
    /\ sw[w].pc = "add"
    /\ store' = AddChunks(store, ChunkRows(sw[w].source, sw[w].text, sw[w].origin,
                    IF \E g \in signoffs : g.source = sw[w].source THEN "true" ELSE "absent"))
    /\ sw' = [sw EXCEPT ![w] = [pc |-> "file", origin |-> sw[w].origin,
                                todo |-> sw[w].todo, seen |-> sw[w].seen,
                                source |-> None, text |-> None]]
    /\ UNCHANGED <<file, dirs, quarantine, up, ap, writes, signoffs, moves>>
    /\ Observe

\* The swept metadata is {"origin": origin}: no reviewed key.
SweepAdd(w) ==
    /\ sw[w].pc = "add"
    /\ store' = AddChunks(store, ChunkRows(sw[w].source, sw[w].text, sw[w].origin, "absent"))
    /\ sw' = [sw EXCEPT ![w] = [pc |-> "file", origin |-> sw[w].origin,
                                todo |-> sw[w].todo, seen |-> sw[w].seen,
                                source |-> None, text |-> None]]
    /\ UNCHANGED <<file, dirs, quarantine, up, ap, writes, signoffs, moves>>
    /\ Observe

Gone(w) == IndexedSources(store, sw[w].origin) \ sw[w].seen

SweepDiff(w) ==
    /\ sw[w].pc = "file"
    /\ sw[w].todo = {}
    /\ sw' = [sw EXCEPT ![w].pc = "retract", ![w].todo = Gone(w)]
    /\ UNCHANGED <<store, file, dirs, quarantine, up, ap, writes, signoffs, moves>>
    /\ Observe

SweepRetract(w, s) ==
    /\ sw[w].pc = "retract"
    /\ s \in sw[w].todo
    /\ store' = DeleteSource(store, s)
    /\ sw' = [sw EXCEPT ![w].todo = @ \ {s}]
    /\ UNCHANGED <<file, dirs, quarantine, up, ap, writes, signoffs, moves>>
    /\ Observe

SweepDone(w) ==
    /\ sw[w].pc = "retract"
    /\ sw[w].todo = {}
    /\ sw' = [sw EXCEPT ![w] = [NoSweep EXCEPT
                 !.pc = IF sw[w].origin = "curated" THEN "next" ELSE "idle"]]
    /\ UNCHANGED <<store, file, dirs, quarantine, up, ap, writes, signoffs, moves>>
    /\ Observe

\* A listed file vanishes between is_file() and stat(), the embedder or the
\* store raises, or the process is stopped: nothing of the sweep is undone.
SweepFail(w) ==
    /\ sw[w].pc # "idle"
    /\ sw' = [sw EXCEPT ![w] = NoSweep]
    /\ UNCHANGED <<store, file, dirs, quarantine, up, ap, writes, signoffs, moves>>
    /\ Observe

-----------------------------------------------------------------------------
(* GET /review/document reads the text and then the revision; POST /review   *)
(* or POST /review/reject later names that revision.                         *)

ReviewText(a, s) ==
    /\ ap[a].pc \in {"idle", "decide"}
    /\ RowsOf(store, s) # {}      \* otherwise 404
    /\ ap' = [ap EXCEPT ![a] = [NoReview EXCEPT
                 !.pc = "revision", !.source = s, !.shown = ShownTexts(RowsOf(store, s))]]
    /\ UNCHANGED <<store, file, dirs, quarantine, up, sw, writes, signoffs, moves>>
    /\ Observe

ReviewRevision(a) ==
    /\ ap[a].pc = "revision"
    /\ ap' = [ap EXCEPT ![a].pc = "decide",
                        ![a].rev = Revision(RowsOf(store, ap[a].source))]
    /\ UNCHANGED <<store, file, dirs, quarantine, up, sw, writes, signoffs, moves>>
    /\ Observe

Approve(a) ==
    /\ ap[a].pc = "decide"
    /\ IsCurrent(store, ap[a].source, ap[a].rev)
    /\ store' = MarkReviewed(store, ap[a].source, ap[a].rev)
    /\ signoffs' = signoffs \cup {[source |-> ap[a].source, rev |-> ap[a].rev,
                                   shown |-> ap[a].shown]}
    /\ ap' = [ap EXCEPT ![a] = NoReview]
    /\ UNCHANGED <<file, dirs, quarantine, up, sw, writes, moves>>
    /\ ObserveSigned({ap[a].source})

Reject(a) ==
    /\ ap[a].pc = "decide"
    /\ IsCurrent(store, ap[a].source, ap[a].rev)
    /\ store' = DeleteSource(store, ap[a].source)
    /\ ap' = [ap EXCEPT ![a] = [NoReview EXCEPT !.pc = "quarantine", !.source = ap[a].source]]
    /\ UNCHANGED <<file, dirs, quarantine, up, sw, writes, signoffs, moves>>
    /\ Observe

\* 404, or 409 because the indexed content moved on.
DecisionRefused(a) ==
    /\ ap[a].pc = "decide"
    /\ ~IsCurrent(store, ap[a].source, ap[a].rev)
    /\ ap' = [ap EXCEPT ![a] = NoReview]
    /\ UNCHANGED <<store, file, dirs, quarantine, up, sw, writes, signoffs, moves>>
    /\ Observe

\* quarantine_upload.  Only an upload has a file to move, and only if it is there.
QuarantineFile(a) ==
    /\ ap[a].pc = "quarantine"
    /\ LET s == ap[a].source
       IN \/ /\ s \in Uploads /\ file[s] # None
             /\ ap' = [ap EXCEPT ![a].pc = "place"]
          \/ /\ s \in Curated \/ file[s] = None
             /\ ap' = [ap EXCEPT ![a] = NoReview]
    /\ UNCHANGED <<store, file, dirs, quarantine, up, sw, writes, signoffs, moves>>
    /\ Observe

\* Mutant: a collision is an overwrite.
OwnName(shelf) == None

\* Where a file goes: under its own name (None) while that is free, else under the
\* name suffixed with the mtime of the file that has it.  A rename keeps that
\* mtime, so as long as this file stays every later collision gets its suffix.
Destination(shelf) == shelf.own

QuarantinePlace(a) ==
    /\ ap[a].pc = "place"
    /\ ap' = [ap EXCEPT ![a].pc = "move", ![a].dest = Destination(quarantine[ap[a].source])]
    /\ UNCHANGED <<store, file, dirs, quarantine, up, sw, writes, signoffs, moves>>
    /\ Observe

Shelved(shelf, dest, v) == IF dest = None THEN [shelf EXCEPT !.own = v]
                                          ELSE [shelf EXCEPT !.suffixed[dest] = v]

\* The file is moved as it is by now, over whatever has the chosen name by now.
QuarantineMove(a) ==
    /\ ap[a].pc = "move"
    /\ LET s == ap[a].source
       IN \/ /\ file[s] # None
             /\ quarantine' = [quarantine EXCEPT ![s] = Shelved(@, ap[a].dest, file[s])]
             /\ file' = [file EXCEPT ![s] = None]
             /\ moves' = [moves EXCEPT ![s] = Append(@, file[s])]
          \/ /\ file[s] = None      \* replace() raises
             /\ UNCHANGED <<quarantine, file, moves>>
    /\ ap' = [ap EXCEPT ![a] = NoReview]
    /\ UNCHANGED <<store, dirs, up, sw, writes, signoffs>>
    /\ Observe

\* The approver walks away, the call raises, or the process is stopped.
ReviewFail(a) ==
    /\ ap[a].pc # "idle"
    /\ ap' = [ap EXCEPT ![a] = NoReview]
    /\ UNCHANGED <<store, file, dirs, quarantine, up, sw, writes, signoffs, moves>>
    /\ Observe

-----------------------------------------------------------------------------
\* The process stops and starts again: the store and the files survive.
Restart ==
    /\ up' = [u \in Uploaders |-> NoUpload]
    /\ sw' = [w \in Sweepers |-> NoSweep]
    /\ ap' = [a \in Approvers |-> NoReview]
    /\ UNCHANGED <<store, file, dirs, quarantine, writes, signoffs, moves>>
    /\ Observe

UploadStep(u) ==
    \/ \E s \in Uploads, v \in Texts : UploadWrite(u, s, v)
    \/ UploadDelete(u) \/ UploadAdd(u) \/ UploadFail(u)

SweepStep(w) ==
    \/ \E s \in Sources : SweepRead(w, s) \/ SweepSkip(w, s) \/ SweepRetract(w, s)
    \/ SweepList(w) \/ SweepNothing(w) \/ SweepDelete(w) \/ SweepAdd(w)
    \/ SweepDiff(w) \/ SweepDone(w) \/ SweepFail(w)

ReviewStep(a) ==
    \/ \E s \in Sources : ReviewText(a, s)
    \/ ReviewRevision(a) \/ Approve(a) \/ Reject(a) \/ DecisionRefused(a)
    \/ QuarantineFile(a) \/ QuarantinePlace(a) \/ QuarantineMove(a) \/ ReviewFail(a)

Next ==
    \/ \E s \in Curated, v \in TextOrNone : HostEdit(s, v)
    \/ \E o \in Directories : HostRemove(o)
    \/ \E u \in Uploaders : UploadStep(u)
    \/ \E w \in Sweepers : SweepStep(w)
    \/ \E a \in Approvers : ReviewStep(a)
    \/ Restart

Spec == Init /\ [][Next]_vars

-----------------------------------------------------------------------------
(* Properties *)

\* Whatever is reviewed rests on a sign-off of that very source, and all its
\* reviewed chunks on the same one: reviewed_hash is a hash POST /review accepted
\* for the source, although a sweep's upsert may change the text of an approved
\* chunk under it (add_chunks; see CarriedOver).
TrustRestsOnOneSignoff ==
    \A r \in store : r.reviewed = "true" =>
        /\ \E g \in signoffs : g.source = r.source /\ g.rev = r.signed
        /\ \A q \in store : q.source = r.source /\ q.reviewed = "true" => q.signed = r.signed

\* When the chunks of a source agree on a hash they are all the chunks of that
\* version: what mark_reviewed takes for "not a partial write" is the whole
\* document, so an approval never covers half of it.
AgreementMeansComplete ==
    \A s \in Sources :
        LET h == Revision(RowsOf(store, s))
        IN h # None => {r.index : r \in RowsOf(store, s)} = 0 .. NumChunks[h] - 1

\* No upload, and no sweep of data/uploads/, changes a curated chunk, and a
\* sweep of data/documents/ changes no uploaded one (the scoping that
\* ingest_tier claims for its retraction).
SweepsKeepToTheirOrigin ==
    [][ \A s \in Sources :
          RowsOf(store', s) # RowsOf(store, s) =>
             \/ \E w \in Sweepers : sw'[w] # sw[w] /\ sw[w].origin = OriginOf(s)
             \/ \E u \in Uploaders : up'[u] # up[u] /\ up[u].source = s
             \/ \E a \in Approvers : ap'[a] # ap[a] /\ ap[a].source = s ]_vars

\* The chunks a finished sweep leaves for source s if nothing disturbed it.
SweptRows(s) == IF file[s] = None THEN {} ELSE ChunkRows(s, file[s], OriginOf(s), "absent")

\* A sweep of a directory that exists, if nothing else ran beside it, leaves the
\* index equal to the directory: every file indexed in full, every vanished file
\* retracted, no tail of an older version left behind.
UndisturbedSweepReconciles ==
    [][ \A w \in Sweepers : calm[w] /\ SweepDone(w) =>
          \A s \in SourcesOf(sw[w].origin) : RowsOf(store, s) = SweptRows(s) ]_vars

\* quarantine_upload: of two rejected uploads sharing a filename "the second must
\* not erase the first".  So it is unless two rejections had both chosen a place
\* before either moved.  (A third rejected file erases the second.)
SecondRejectionKeepsFirst ==
    \A s \in Uploads \ crossed : Len(moves[s]) <= 2 =>
        \A i \in DOMAIN moves[s] :
            \/ moves[s][i] = quarantine[s].own
            \/ \E v \in Texts : moves[s][i] = quarantine[s].suffixed[v]

-----------------------------------------------------------------------------
(* The gate implements the abstract one. *)

Gate == INSTANCE TrustGate WITH
    answerable <- Answerable(store),
    signed <- {<<g.source, g.rev>> : g \in signoffs}

\* What an overtaken sweep may do to the answers: its upsert puts the text it read
\* under an approval that came after its delete.
CarriedOver ==
    \E w \in overtaken :
        /\ sw'[w] # sw[w]
        /\ Answerable(store') \subseteq Answerable(store) \cup {<<sw[w].source, sw[w].text>>}
        /\ UNCHANGED signoffs

\* Refinement: seen from retrieval, every interleaving of uploads, sweeps, reviews
\* and restarts is a sequence of sign-offs and withdrawals, but for the adds of
\* sweeps that an approval overtook between their delete and their add.
GateRefinedUnlessOvertaken ==
    Gate!GateInit /\ [][Gate!GateNext \/ CarriedOver]_(Gate!gateVars)

-----------------------------------------------------------------------------
(* Statements the repository makes that the code does not keep; each has a   *)
(* run of its own that shows a behaviour violating it.                       *)

\* main.py, review_document: content_hash "identifies the bytes rendered
\* above", so an approval names what its approver was shown.
SignedWhatWasShown == \A g \in signoffs : g.shown = {g.rev}

\* ingest.py, store_upload: an upload "is indexed as unreviewed and cannot answer
\* anyone until an `approver` account signs it off"; mark_reviewed binds that to
\* the hash of the text.
TrustedWasApproved ==
    \A r \in store : r.reviewed = "true" =>
        \E g \in signoffs : g.source = r.source /\ g.rev = r.text
=============================================================================
