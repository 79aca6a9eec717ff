---------------------------- MODULE ModelIntegrity ----------------------------
(***************************************************************************)
(* verify_embedding_model (app/vectorstore.py): the extracted files of the *)
(* embedding model are compared with their pinned hashes on every use, and *)
(* the large one is skipped while its stat is the one recorded last.       *)
(*                                                                         *)
(* embed() verifies before it takes _CLIENT_LOCK, so several requests run  *)
(* the check at once and share _seen_metadata without a lock.  One action  *)
(* is one file operation with the read or the write of that cache beside   *)
(* it: no version of a file ever comes back, so a recorded stat that equals *)
(* the one taken next is still the recorded one.                           *)
(***************************************************************************)
EXTENDS Integers, Sequences

CONSTANTS
    FileSeq,      \* the keys of _MODEL_FILE_SHA256, in the order they are checked
    Large,        \* _LARGE_FILES
    Metas,        \* values of <<mtime, size>>, which a copy may share with the original
    Calls,        \* concurrent uses of the model
    None,         \* no file, no recorded stat
    MaxChanges    \* bound on changes of the files

Files == {FileSeq[k] : k \in 1 .. Len(FileSeq)}

\* A file: whether its bytes match the pin, <<mtime, size>>, and a number for
\* its inode and ctime, which no two versions of a file share.
DiskFiles == [good : BOOLEAN, stamp : Nat, meta : Metas]

ASSUME ModelIntegrityAssumption ==
    /\ FileSeq \in Seq(STRING)
    /\ Large \subseteq Files
    /\ None \notin DiskFiles
    /\ MaxChanges \in Nat

VARIABLES
    disk,         \* the model cache directory
    seen,         \* _seen_metadata: the version whose stat was recorded last
    calls,        \* local state of the uses
    changes,      \* changes of the files so far
    refused,      \* history: <<file, stamp>> this process refused
    raced         \* history: <<file, stamp>> that arrived while a call hashed its predecessor

vars == <<disk, seen, calls, changes, refused, raced>>

Call(pc, i, read) == [pc |-> pc, i |-> i, read |-> read]

NoCall == Call("idle", 1, None)

CallStates == [pc : {"idle", "file", "stat", "hash", "record", "compare"},
               i : Nat, read : DiskFiles \cup {None}]

\* The file a call is at.
FileOf(c) == FileSeq[calls[c].i]

CallsOK ==
    \A c \in Calls :
        /\ calls[c].i \in 1 .. Len(FileSeq) + 1
        /\ calls[c].pc \notin {"idle", "file"} => calls[c].i <= Len(FileSeq)
        /\ calls[c].pc \in {"record", "compare"} => calls[c].read # None

TypeOK ==
    /\ disk \in [Files -> DiskFiles \cup {None}]
    /\ seen \in [Files -> DiskFiles \cup {None}]
    /\ calls \in [Calls -> CallStates]
    /\ changes \in Nat
    /\ refused \subseteq Files \X Nat
    /\ raced \subseteq Files \X Nat
    /\ CallsOK

Init ==
    /\ disk \in [Files -> [good : BOOLEAN, stamp : {0}, meta : Metas] \cup {None}]
    /\ seen = [f \in Files |-> None]
    /\ calls = [c \in Calls |-> NoCall]
    /\ changes = 0
    /\ refused = {} /\ raced = {}

-----------------------------------------------------------------------------
(* The environment: the model cache *)

\* A file is replaced, downloaded or removed; its <<mtime, size>> may be those
\* of the file it replaces.
Replace(f, new) ==
    /\ changes < MaxChanges
    /\ new # None => new.stamp = changes + 1
    /\ disk' = [disk EXCEPT ![f] = new]
    /\ changes' = changes + 1
    /\ raced' = IF \E c \in Calls : calls[c].pc = "record" /\ FileOf(c) = f
                THEN raced \cup {<<f, changes + 1>>} ELSE raced
    /\ UNCHANGED <<seen, refused, calls>>

-----------------------------------------------------------------------------
(* verify_embedding_model *)

VerifyStart(c) ==
    /\ calls[c].pc = "idle"
    /\ calls' = [calls EXCEPT ![c] = Call("file", 1, None)]
    /\ UNCHANGED <<disk, seen, changes, refused, raced>>

\* is_file(); only the large file is looked up before it is read.
FileExists(c) ==
    /\ calls[c].pc = "file" /\ calls[c].i <= Len(FileSeq)
    /\ disk[FileOf(c)] # None
    /\ calls' = [calls EXCEPT ![c] = Call(IF FileOf(c) \in Large THEN "stat" ELSE "hash",
                                         calls[c].i, None)]
    /\ UNCHANGED <<disk, seen, changes, refused, raced>>

\* Mutant: the stat leaves out what a copy with timestamps cannot carry over.
FingerprintNoCtime(file) == <<file.meta>>

\* _fingerprint: mtime, ctime, size and inode.
Fingerprint(file) == <<file.meta, file.stamp>>

Known(f) ==
    /\ f \in Large
    /\ disk[f] # None /\ seen[f] # None
    /\ Fingerprint(seen[f]) = Fingerprint(disk[f])

\* Mutant: the skip jumps over the next file as well.
SkipKnownTwice(c) ==
    /\ calls[c].pc = "stat"
    /\ Known(FileOf(c))
    /\ calls' = [calls EXCEPT ![c] = Call("file", calls[c].i + 2, None)]
    /\ UNCHANGED <<disk, seen, changes, refused, raced>>

SkipKnown(c) ==
    /\ calls[c].pc = "stat"
    /\ Known(FileOf(c))
    /\ calls' = [calls EXCEPT ![c] = Call("file", calls[c].i + 1, None)]
    /\ UNCHANGED <<disk, seen, changes, refused, raced>>

HashDue(c) ==
    /\ calls[c].pc = "stat"
    /\ disk[FileOf(c)] # None
    /\ ~Known(FileOf(c))
    /\ calls' = [calls EXCEPT ![c] = Call("hash", calls[c].i, None)]
    /\ UNCHANGED <<disk, seen, changes, refused, raced>>

HashFile(c) ==
    /\ calls[c].pc = "hash"
    /\ disk[FileOf(c)] # None
    /\ calls' = [calls EXCEPT ![c] = Call("record", calls[c].i, disk[FileOf(c)])]
    /\ UNCHANGED <<disk, seen, changes, refused, raced>>

\* The stat is taken after the bytes were read, and written before the compare.
RecordStat(c) ==
    /\ calls[c].pc = "record"
    /\ disk[FileOf(c)] # None
    /\ seen' = [seen EXCEPT ![FileOf(c)] = disk[FileOf(c)]]
    /\ calls' = [calls EXCEPT ![c] = Call("compare", calls[c].i, calls[c].read)]
    /\ UNCHANGED <<disk, changes, refused, raced>>

\* The file vanished since it was found: stat or read_bytes raises.
FileVanishes(c) ==
    /\ calls[c].pc \in {"stat", "hash", "record"}
    /\ disk[FileOf(c)] = None
    /\ calls' = [calls EXCEPT ![c] = NoCall]
    /\ UNCHANGED <<disk, seen, changes, refused, raced>>

FileMatches(c) ==
    /\ calls[c].pc = "compare"
    /\ calls[c].read.good
    /\ calls' = [calls EXCEPT ![c] = Call("file", calls[c].i + 1, None)]
    /\ UNCHANGED <<disk, seen, changes, refused, raced>>

\* ModelIntegrityError
FileRefused(c) ==
    /\ calls[c].pc = "compare"
    /\ ~calls[c].read.good
    /\ refused' = refused \cup {<<FileOf(c), calls[c].read.stamp>>}
    /\ calls' = [calls EXCEPT ![c] = NoCall]
    /\ UNCHANGED <<disk, seen, changes, raced>>

\* Every file passed, or one is missing and chromadb will download its archive.
Verified(c) ==
    /\ calls[c].pc = "file"
    /\ calls[c].i <= Len(FileSeq) => disk[FileOf(c)] = None
    /\ calls' = [calls EXCEPT ![c] = NoCall]
    /\ UNCHANGED <<disk, seen, changes, refused, raced>>

-----------------------------------------------------------------------------
\* The process starts again with an empty cache.
Restart ==
    /\ seen' = [f \in Files |-> None]
    /\ calls' = [c \in Calls |-> NoCall]
    /\ refused' = {} /\ raced' = {}
    /\ UNCHANGED <<disk, changes>>

VerifyStep(c) ==
    \/ VerifyStart(c) \/ FileExists(c) \/ SkipKnown(c) \/ HashDue(c) \/ HashFile(c)
    \/ RecordStat(c) \/ FileVanishes(c) \/ FileMatches(c) \/ FileRefused(c) \/ Verified(c)

Next ==
    \/ \E f \in Files, g \in BOOLEAN, m \in Metas :
          Replace(f, [good |-> g, stamp |-> changes + 1, meta |-> m])
    \/ \E f \in Files : Replace(f, None)
    \/ \E c \in Calls : VerifyStep(c)
    \/ Restart

Spec == Init /\ [][Next]_vars

-----------------------------------------------------------------------------
(* Properties *)

\* Files a call has found not to match and is about to refuse.
Condemned ==
    {<<FileOf(c), calls[c].read.stamp>> : c \in {d \in Calls : calls[d].pc = "compare"
                                                              /\ ~calls[d].read.good}}

\* What the skip of the large file guarantees: verification passes over a file
\* that does not match its pin only if this process has refused that very file
\* before (or is about to), or the file arrived while its predecessor was being
\* hashed.  A file swapped between two uses of the model is always noticed, a copy
\* that carries over mtime and size included, since _fingerprint holds ctime and
\* inode as well: more than the docstring claims, which says that the file is hashed
\* again "only when its size or mtime moves" and that `touch -r` "still gets one
\* round".
SwapIsNoticed ==
    \A f \in Files : Known(f) /\ ~disk[f].good =>
        <<f, disk[f].stamp>> \in refused \cup raced \cup Condemned

-----------------------------------------------------------------------------
(* A statement the code does not keep *)

\* vectorstore.py, verify_embedding_model: it "fails closed", so a file that is
\* passed over unread is one that was found to match its pin.
FailsClosed ==
    [][ \A c \in Calls : SkipKnown(c) => disk[FileOf(c)].good ]_vars
=============================================================================
