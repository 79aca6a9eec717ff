------------------------- MODULE ModelIntegrityProofs -------------------------
(***************************************************************************)
(* Theorems about ModelIntegrity, for any number of files, uses and        *)
(* changes.                                                                *)
(***************************************************************************)
EXTENDS ModelIntegrity, TLAPS

\* What a use is at is one of the files.
LEMMA FileOfType ==
    ASSUME TypeOK, NEW c \in Calls, calls[c].i <= Len(FileSeq)
    PROVE  FileOf(c) \in Files
<1>1. Len(FileSeq) \in Nat
  BY ModelIntegrityAssumption
<1>2. calls[c].i \in 1 .. Len(FileSeq)
  BY <1>1 DEF TypeOK, CallsOK
<1>3. QED
  BY <1>2 DEF FileOf, Files

\* A use moves to a well-formed state.
LEMMA CallsType ==
    ASSUME TypeOK, NEW c \in Calls,
           NEW pc \in {"idle", "file", "stat", "hash", "record", "compare"},
           NEW i \in 1 .. Len(FileSeq) + 1,
           NEW read \in DiskFiles \cup {None},
           pc \notin {"idle", "file"} => i <= Len(FileSeq),
           pc \in {"record", "compare"} => read # None,
           calls' = [calls EXCEPT ![c] = Call(pc, i, read)]
    PROVE  calls' \in [Calls -> CallStates] /\ CallsOK'
<1>1. Len(FileSeq) \in Nat
  BY ModelIntegrityAssumption
<1>2. Call(pc, i, read) \in CallStates
  BY <1>1 DEF Call, CallStates
<1>3. calls' \in [Calls -> CallStates]
  BY <1>2 DEF TypeOK
<1>4. CallsOK'
  BY <1>1 DEF TypeOK, CallsOK, Call
<1>5. QED
  BY <1>3, <1>4

\* A use starts over, or ends.
LEMMA RestartedType ==
    ASSUME TypeOK, NEW c \in Calls, NEW pc \in {"idle", "file"},
           calls' = [calls EXCEPT ![c] = Call(pc, 1, None)]
    PROVE  calls' \in [Calls -> CallStates] /\ CallsOK'
<1>1. 1 \in 1 .. Len(FileSeq) + 1
  BY ModelIntegrityAssumption
<1>2. QED
  BY <1>1, CallsType

LEMMA IntegrityInit == Init => TypeOK
<1>1. Len(FileSeq) \in Nat
  BY ModelIntegrityAssumption
<1>2. QED
  BY <1>1 DEF Init, TypeOK, CallsOK, NoCall, Call, CallStates, DiskFiles

LEMMA VerifyStepType ==
    ASSUME TypeOK, NEW c \in Calls, VerifyStep(c)
    PROVE  TypeOK'
<1>0. Len(FileSeq) \in Nat
  BY ModelIntegrityAssumption
<1>i. /\ calls[c].i \in 1 .. Len(FileSeq) + 1
      /\ calls[c].read \in DiskFiles \cup {None}
      /\ calls[c].pc \notin {"idle", "file"} => calls[c].i <= Len(FileSeq)
      /\ calls[c].pc \in {"record", "compare"} => calls[c].read \in DiskFiles
  BY DEF TypeOK, CallsOK, CallStates
<1>1. CASE VerifyStart(c)
  BY <1>1, RestartedType DEF VerifyStart, TypeOK
<1>2. CASE SkipKnown(c)
  <2>1. calls[c].i + 1 \in 1 .. Len(FileSeq) + 1
    BY <1>2, <1>i, <1>0 DEF SkipKnown
  <2>2. calls' \in [Calls -> CallStates] /\ CallsOK'
    BY <1>2, <2>1, CallsType DEF SkipKnown
  <2>3. QED
    BY <1>2, <2>2 DEF SkipKnown, TypeOK
<1>3. CASE HashFile(c)
  <2>1. disk[FileOf(c)] \in DiskFiles /\ disk[FileOf(c)] # None
    BY <1>3, <1>i, FileOfType DEF HashFile, TypeOK
  <2>2. calls' \in [Calls -> CallStates] /\ CallsOK'
    BY <1>3, <1>i, <2>1, CallsType DEF HashFile
  <2>3. QED
    BY <1>3, <2>2 DEF HashFile, TypeOK
<1>4. CASE RecordStat(c)
  <2>1. calls' \in [Calls -> CallStates] /\ CallsOK'
    BY <1>4, <1>i, CallsType, ModelIntegrityAssumption DEF RecordStat
  <2>2. FileOf(c) \in Files
    BY <1>4, <1>i, FileOfType DEF RecordStat
  <2>3. QED
    BY <1>4, <2>1, <2>2 DEF RecordStat, TypeOK
<1>5. CASE FileVanishes(c)
  BY <1>5, RestartedType DEF FileVanishes, TypeOK, NoCall
<1>6. CASE FileMatches(c)
  <2>1. calls[c].i + 1 \in 1 .. Len(FileSeq) + 1
    BY <1>6, <1>i, <1>0 DEF FileMatches
  <2>2. calls' \in [Calls -> CallStates] /\ CallsOK'
    BY <1>6, <2>1, CallsType DEF FileMatches
  <2>3. QED
    BY <1>6, <2>2 DEF FileMatches, TypeOK
<1>7. CASE FileRefused(c)
  <2>1. calls' \in [Calls -> CallStates] /\ CallsOK'
    BY <1>7, RestartedType DEF FileRefused, NoCall
  <2>2. <<FileOf(c), calls[c].read.stamp>> \in Files \X Nat
    BY <1>7, <1>i, FileOfType DEF FileRefused, DiskFiles
  <2>3. QED
    BY <1>7, <2>1, <2>2 DEF FileRefused, TypeOK
<1>8. CASE Verified(c)
  BY <1>8, RestartedType DEF Verified, TypeOK, NoCall
<1>9. CASE FileExists(c)
  <2>1. calls' \in [Calls -> CallStates] /\ CallsOK'
    BY <1>9, <1>i, CallsType DEF FileExists
  <2>2. QED
    BY <1>9, <2>1 DEF FileExists, TypeOK
<1>10. CASE HashDue(c)
  <2>1. calls' \in [Calls -> CallStates] /\ CallsOK'
    BY <1>10, <1>i, CallsType DEF HashDue
  <2>2. QED
    BY <1>10, <2>1 DEF HashDue, TypeOK
<1>11. QED
  BY <1>1, <1>2, <1>3, <1>4, <1>5, <1>6, <1>7, <1>8, <1>9, <1>10 DEF VerifyStep

\* A step changes the files, is one of a use, or restarts the process.
LEMMA NextCases ==
    ASSUME TypeOK, [Next]_vars
    PROVE  \/ \E f \in Files, new \in DiskFiles \cup {None} : Replace(f, new)
           \/ \E c \in Calls : VerifyStep(c)
           \/ Restart
           \/ UNCHANGED vars
<1>1. ASSUME NEW g \in BOOLEAN, NEW k \in Metas
      PROVE  [good |-> g, stamp |-> changes + 1, meta |-> k] \in DiskFiles
  BY DEF TypeOK, DiskFiles
<1>2. QED
  BY <1>1 DEF Next

\* Every variable keeps its type, and a use that hashes or compares a file has
\* read one of the files of the list.
THEOREM IntegrityTypeOK == Spec => []TypeOK
<1>1. TypeOK /\ [Next]_vars => TypeOK'
  <2> SUFFICES ASSUME TypeOK, [Next]_vars PROVE TypeOK'
    OBVIOUS
  <2>1. ASSUME NEW f \in Files, NEW new \in DiskFiles \cup {None}, Replace(f, new)
        PROVE  TypeOK'
    BY <2>1 DEF Replace, TypeOK, CallsOK
  <2>2. CASE Restart
    <3>1. Len(FileSeq) \in Nat
      BY ModelIntegrityAssumption
    <3>2. QED
      BY <2>2, <3>1 DEF Restart, TypeOK, CallsOK, NoCall, Call, CallStates
  <2>3. CASE UNCHANGED vars
    BY <2>3 DEF vars, TypeOK, CallsOK
  <2>4. QED
    BY <2>1, <2>2, <2>3, NextCases, VerifyStepType
<1>2. QED
  BY <1>1, IntegrityInit, PTL DEF Spec

-----------------------------------------------------------------------------
(* SwapIsNoticed.  It is not inductive by itself: a file of the same stat as *)
(* a recorded one must be the recorded one, and a file that is being hashed  *)
(* is still the one on disk unless it raced.                                 *)

\* Stamps grow: what was recorded or read of a file is older than its next
\* version, and is the version on disk if it has its stamp.
StampsOK ==
    /\ \A f \in Files : disk[f] # None => disk[f].stamp <= changes
    /\ \A f \in Files : seen[f] # None =>
          /\ seen[f].stamp <= changes
          /\ disk[f] # None /\ seen[f].stamp = disk[f].stamp => seen[f] = disk[f]

\* The bytes a use has read are those of the file on disk, or that file raced.
ReadingOK ==
    \A c \in Calls : calls[c].pc = "record" =>
        LET f == FileOf(c)
        IN disk[f] # None => calls[c].read = disk[f] \/ <<f, disk[f].stamp>> \in raced

SwapInv == TypeOK /\ StampsOK /\ ReadingOK /\ SwapIsNoticed

LEMMA SwapInit == Init => StampsOK /\ ReadingOK /\ SwapIsNoticed
  BY DEF Init, StampsOK, ReadingOK, SwapIsNoticed, Known, NoCall, Call

\* Recorded files of the same stat as the file on disk are that file.
LEMMA KnownIsSeen ==
    ASSUME TypeOK, StampsOK, NEW f \in Files, Known(f)
    PROVE  disk[f] # None /\ seen[f] = disk[f]
  BY DEF Known, Fingerprint, StampsOK

\* A change of the files leaves nothing known about the new version.
LEMMA SwapReplace ==
    ASSUME SwapInv, NEW f \in Files, NEW new \in DiskFiles \cup {None}, Replace(f, new)
    PROVE  StampsOK' /\ ReadingOK' /\ SwapIsNoticed'
<1>0. /\ disk' = [disk EXCEPT ![f] = new] /\ changes' = changes + 1
      /\ UNCHANGED <<seen, refused, calls>> /\ raced \subseteq raced'
      /\ new # None => new.stamp = changes + 1
      /\ (\E c \in Calls : calls[c].pc = "record" /\ FileOf(c) = f)
            => <<f, changes + 1>> \in raced'
  BY DEF Replace
<1>1. StampsOK'
  <2>1. ASSUME NEW g \in Files, disk'[g] # None
        PROVE  disk'[g].stamp <= changes'
    <3>1. CASE g = f
      BY <2>1, <3>1, <1>0 DEF SwapInv, TypeOK
    <3>2. CASE g # f
      <4>1. disk[g] \in DiskFiles /\ disk[g].stamp <= changes
        BY <2>1, <3>2, <1>0 DEF SwapInv, TypeOK, StampsOK
      <4>2. QED
        BY <3>2, <4>1, <1>0 DEF SwapInv, TypeOK, DiskFiles
    <3>3. QED
      BY <3>1, <3>2
  <2>2. ASSUME NEW g \in Files, seen[g] # None
        PROVE  /\ seen[g].stamp <= changes'
               /\ disk'[g] # None /\ seen[g].stamp = disk'[g].stamp => seen[g] = disk'[g]
    <3>1. seen[g] \in DiskFiles /\ seen[g].stamp <= changes
      BY <2>2 DEF SwapInv, TypeOK, StampsOK
    <3>2. CASE g = f
      BY <3>1, <3>2, <1>0 DEF SwapInv, TypeOK, DiskFiles
    <3>3. CASE g # f
      BY <2>2, <3>1, <3>3, <1>0 DEF SwapInv, TypeOK, StampsOK, DiskFiles
    <3>4. QED
      BY <3>2, <3>3
  <2>3. QED
    BY <2>1, <2>2, <1>0 DEF StampsOK
<1>2. ReadingOK'
  <2> SUFFICES ASSUME NEW c \in Calls, calls[c].pc = "record", disk'[FileOf(c)] # None
               PROVE  \/ calls[c].read = disk'[FileOf(c)]
                      \/ <<FileOf(c), disk'[FileOf(c)].stamp>> \in raced'
    BY <1>0 DEF ReadingOK, FileOf
  <2>1. FileOf(c) \in Files
    BY FileOfType DEF SwapInv, TypeOK, CallsOK
  <2>2. CASE FileOf(c) = f
    BY <2>1, <2>2, <1>0 DEF SwapInv, TypeOK
  <2>3. CASE FileOf(c) # f
    BY <2>1, <2>3, <1>0 DEF SwapInv, TypeOK, ReadingOK
  <2>4. QED
    BY <2>2, <2>3
<1>3. SwapIsNoticed'
  <2> SUFFICES ASSUME NEW g \in Files, Known(g)', ~disk'[g].good
               PROVE  <<g, disk'[g].stamp>> \in refused' \cup raced' \cup Condemned'
    BY DEF SwapIsNoticed
  <2>1. CASE g = f
    <3>1. seen[f] \in DiskFiles /\ seen[f].stamp <= changes /\ seen[f].stamp = changes + 1
      BY <2>1, <1>0 DEF SwapInv, TypeOK, StampsOK, Known, Fingerprint
    <3>2. QED
      BY <3>1 DEF SwapInv, TypeOK, DiskFiles
  <2>2. CASE g # f
    <3>1. Known(g) /\ disk'[g] = disk[g]
      BY <2>2, <1>0 DEF SwapInv, TypeOK, Known
    <3>2. Condemned' = Condemned
      BY <1>0 DEF Condemned, FileOf
    <3>3. QED
      BY <3>1, <3>2, <1>0 DEF SwapInv, SwapIsNoticed
  <2>3. QED
    BY <2>1, <2>2
<1>4. QED
  BY <1>1, <1>2, <1>3

\* A use that moves on without touching the cache keeps what it condemned.
LEMMA SwapQuiet ==
    ASSUME SwapInv, NEW c \in Calls, NEW x,
           UNCHANGED <<disk, seen, changes, raced>>,
           calls' = [calls EXCEPT ![c] = x],
           refused \subseteq refused',
           x.pc = "record" => calls'[c].read = disk[FileSeq[x.i]],
           calls[c].pc = "compare" /\ ~calls[c].read.good =>
               <<FileOf(c), calls[c].read.stamp>> \in refused'
    PROVE  StampsOK' /\ ReadingOK' /\ SwapIsNoticed'
<1>0. calls'[c] = x /\ \A d \in Calls \ {c} : calls'[d] = calls[d]
  BY DEF SwapInv, TypeOK
<1>1. StampsOK'
  BY DEF SwapInv, StampsOK
<1>2. ReadingOK'
  BY <1>0 DEF SwapInv, ReadingOK, FileOf
<1>3. Condemned \subseteq refused' \cup Condemned'
  BY <1>0 DEF Condemned, FileOf
<1>4. \A f \in Files : Known(f)' => Known(f)
  BY DEF Known
<1>5. SwapIsNoticed'
  BY <1>3, <1>4 DEF SwapInv, SwapIsNoticed
<1>6. QED
  BY <1>1, <1>2, <1>5

\* What a use records is on disk: either it raced, or the use is about to judge it.
LEMMA SwapRecord ==
    ASSUME SwapInv, NEW c \in Calls, RecordStat(c)
    PROVE  StampsOK' /\ ReadingOK' /\ SwapIsNoticed'
<1> DEFINE h == FileOf(c)
<1>0. /\ calls[c].pc = "record" /\ disk[h] # None
      /\ seen' = [seen EXCEPT ![h] = disk[h]]
      /\ calls' = [calls EXCEPT ![c] = Call("compare", calls[c].i, calls[c].read)]
      /\ UNCHANGED <<disk, changes, refused, raced>>
  BY DEF RecordStat
<1>1. h \in Files
  BY <1>0, FileOfType DEF SwapInv, TypeOK, CallsOK
<1>2. /\ calls'[c].pc = "compare" /\ FileOf(c)' = h /\ calls'[c].read = calls[c].read
      /\ \A d \in Calls \ {c} : calls'[d] = calls[d]
  BY <1>0 DEF SwapInv, TypeOK, Call, FileOf
<1>3. calls[c].read = disk[h] \/ <<h, disk[h].stamp>> \in raced
  BY <1>0 DEF SwapInv, ReadingOK
<1> HIDE DEF h
<1>4. StampsOK'
  BY <1>0, <1>1 DEF SwapInv, TypeOK, StampsOK
<1>5. ReadingOK'
  <2> SUFFICES ASSUME NEW d \in Calls, calls'[d].pc = "record", disk'[FileOf(d)'] # None
               PROVE  \/ calls'[d].read = disk'[FileOf(d)']
                      \/ <<FileOf(d)', disk'[FileOf(d)'].stamp>> \in raced'
    BY DEF ReadingOK
  <2>1. calls'[d] = calls[d] /\ FileOf(d)' = FileOf(d)
    BY <1>2 DEF FileOf
  <2>2. disk' = disk /\ raced' = raced
    BY <1>0
  <2>3. QED
    BY <2>1, <2>2 DEF SwapInv, ReadingOK
<1>6. Condemned \subseteq Condemned'
  BY <1>0, <1>2 DEF Condemned, FileOf
<1>7. SwapIsNoticed'
  <2> SUFFICES ASSUME NEW f \in Files, Known(f)', ~disk[f].good
               PROVE  <<f, disk[f].stamp>> \in refused \cup raced \cup Condemned'
    BY <1>0 DEF SwapIsNoticed
  <2>1. CASE f = h
    <3>1. CASE calls[c].read = disk[h]
      BY <2>1, <3>1, <1>2 DEF Condemned
    <3>2. CASE <<h, disk[h].stamp>> \in raced
      BY <2>1, <3>2
    <3>3. QED
      BY <1>3, <3>1, <3>2
  <2>2. CASE f # h
    <3>1. Known(f)
      BY <2>2, <1>0, <1>1 DEF SwapInv, TypeOK, Known
    <3>2. QED
      BY <3>1, <1>6 DEF SwapInv, SwapIsNoticed
  <2>3. QED
    BY <2>1, <2>2
<1>8. QED
  BY <1>4, <1>5, <1>7

LEMMA SwapStep ==
    ASSUME SwapInv, NEW c \in Calls, VerifyStep(c)
    PROVE  StampsOK' /\ ReadingOK' /\ SwapIsNoticed'
<1>1. CASE VerifyStart(c)
  BY <1>1, SwapQuiet DEF VerifyStart, Call
<1>2. CASE SkipKnown(c)
  BY <1>2, SwapQuiet DEF SkipKnown, Call
<1>3. CASE HashFile(c)
  <2>1. calls'[c] = Call("record", calls[c].i, disk[FileOf(c)])
    BY <1>3 DEF HashFile, SwapInv, TypeOK
  <2>2. QED
    BY <1>3, <2>1, SwapQuiet DEF HashFile, Call, FileOf
<1>4. CASE RecordStat(c)
  BY <1>4, SwapRecord
<1>5. CASE FileVanishes(c)
  BY <1>5, SwapQuiet DEF FileVanishes, NoCall, Call
<1>6. CASE FileMatches(c)
  BY <1>6, SwapQuiet DEF FileMatches, Call
<1>7. CASE FileRefused(c)
  BY <1>7, SwapQuiet DEF FileRefused, NoCall, Call
<1>8. CASE Verified(c)
  BY <1>8, SwapQuiet DEF Verified, NoCall, Call
<1>9. CASE FileExists(c)
  BY <1>9, SwapQuiet DEF FileExists, Call
<1>10. CASE HashDue(c)
  BY <1>10, SwapQuiet DEF HashDue, Call
<1>11. QED
  BY <1>1, <1>2, <1>3, <1>4, <1>5, <1>6, <1>7, <1>8, <1>9, <1>10 DEF VerifyStep

\* A file that does not match its pin is passed over only after this process has
\* refused it, or if it arrived while its predecessor was being hashed.
THEOREM IntegritySwapIsNoticed == Spec => []SwapIsNoticed
<1>1. TypeOK /\ TypeOK' /\ StampsOK /\ ReadingOK /\ SwapIsNoticed /\ [Next]_vars
        => StampsOK' /\ ReadingOK' /\ SwapIsNoticed'
  <2> SUFFICES ASSUME SwapInv, [Next]_vars PROVE StampsOK' /\ ReadingOK' /\ SwapIsNoticed'
    BY DEF SwapInv
  <2>1. TypeOK
    BY DEF SwapInv
  <2>2. CASE Restart
    BY <2>2 DEF Restart, SwapInv, StampsOK, ReadingOK, SwapIsNoticed, Known, NoCall, Call
  <2>3. CASE UNCHANGED vars
    BY <2>3 DEF vars, SwapInv, StampsOK, ReadingOK, SwapIsNoticed, Known, Condemned, FileOf
  <2>4. QED
    BY <2>1, <2>2, <2>3, NextCases, SwapReplace, SwapStep
<1>2. QED
  BY <1>1, IntegrityTypeOK, SwapInit, PTL DEF Spec
=============================================================================
