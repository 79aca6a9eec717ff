----------------------------- MODULE SlotProofs -----------------------------
(***************************************************************************)
(* Theorems about the two components that run inside a generation slot:    *)
(* Generation, for any number of requests and slots and any timeouts, and  *)
(* Egress, for any number of requests, prompts, secrets and answers.       *)
(***************************************************************************)
EXTENDS Generation, Egress, FiniteSetTheorems, TLAPS

-----------------------------------------------------------------------------
(* Generation *)

\* An age starts at zero and grows by one up to its cap.
LEMMA Ages ==
    /\ 0 \in 0 .. PinCap /\ 0 \in 0 .. MoveCap
    /\ \A a \in 0 .. PinCap : Older(a, PinCap) \in 0 .. PinCap
    /\ \A a \in 0 .. MoveCap : Older(a, MoveCap) \in 0 .. MoveCap
<1>1. Recheck \in Nat /\ Timeout \in Nat
  BY GenerationAssumption
<1>2. QED
  BY <1>1 DEF PinCap, MoveCap, Older

LEMMA StepType ==
    ASSUME TypeOK, NEW r \in Requests, Arrive(r) \/ Step(r)
    PROVE  TypeOK'
<1>0. /\ calls[r].age \in Nat /\ calls[r].digest \in {"pinned", "moved", None}
      /\ calls[r].last \in BOOLEAN
  BY DEF TypeOK, CallStates
<1>1. CASE Arrive(r)
  BY <1>1 DEF Arrive, Call, CallStates, TypeOK
<1>2. CASE Acquire(r)
  BY <1>2 DEF Acquire, Call, CallStates, TypeOK
<1>3. CASE Busy(r)
  BY <1>3 DEF Busy, NoCall, Call, CallStates, TypeOK
<1>4. CASE PinFresh(r)
  BY <1>4, <1>0 DEF PinFresh, Call, CallStates, TypeOK
<1>5. CASE PinDue(r)
  BY <1>5, <1>0 DEF PinDue, Call, CallStates, TypeOK
<1>6. CASE FetchDigest(r)
  BY <1>6, <1>0 DEF FetchDigest, Call, CallStates, TypeOK
<1>7. CASE PinMatches(r)
  BY <1>7, <1>0, Ages DEF PinMatches, Call, CallStates, TypeOK
<1>8. CASE PinRefused(r)
  BY <1>8, Ages DEF PinRefused, NoCall, Call, CallStates, TypeOK
<1>9. CASE AskOnceMore(r)
  BY <1>9 DEF AskOnceMore, Call, CallStates, TypeOK
<1>10. CASE Finish(r)
  BY <1>10 DEF Finish, NoCall, Call, CallStates, TypeOK
<1>11. QED
  BY <1>1, <1>2, <1>3, <1>4, <1>5, <1>6, <1>7, <1>8, <1>9, <1>10 DEF Step

\* Every variable keeps its type; no slot is taken when none is free.
THEOREM GenerationTypeOK == Spec => []TypeOK
<1>1. Init => TypeOK
  <2>1. MaxConcurrent \in Nat
    BY SlotsAssumption
  <2>2. NoCall \in CallStates
    BY DEF NoCall, Call, CallStates
  <2>3. QED
    BY <2>1, <2>2, Ages DEF Init, TypeOK
<1>2. TypeOK /\ [Next]_vars => TypeOK'
  <2> SUFFICES ASSUME TypeOK, [Next]_vars PROVE TypeOK'
    OBVIOUS
  <2>1. ASSUME NEW t \in {"pinned", "moved"}, MoveTag(t)
        PROVE  TypeOK'
    BY <2>1, Ages DEF MoveTag, TypeOK
  <2>2. CASE Tick
    <3>1. pinAge' \in 0 .. PinCap /\ movedAge' \in 0 .. MoveCap
      BY <2>2, Ages DEF Tick, TypeOK
    <3>2. ASSUME NEW r \in Requests
          PROVE  calls'[r] \in CallStates
      BY <2>2 DEF Tick, TypeOK, Call, CallStates
    <3>3. calls' \in [Requests -> CallStates]
      BY <2>2, <3>2 DEF Tick
    <3>4. QED
      BY <2>2, <3>1, <3>3 DEF Tick, TypeOK
  <2>3. ASSUME NEW r \in Requests, Arrive(r) \/ Step(r)
        PROVE  TypeOK'
    BY <2>3, StepType
  <2>4. CASE Restart
    BY <2>4, Ages, SlotsAssumption DEF Restart, TypeOK, NoCall, Call, CallStates
  <2>5. CASE UNCHANGED vars
    BY <2>5 DEF vars, TypeOK
  <2>6. QED
    BY <2>1, <2>2, <2>3, <2>4, <2>5 DEF Next
<1>3. QED
  BY <1>1, <1>2, PTL DEF Spec

-----------------------------------------------------------------------------
(* Slots *)

HoldingStates == {"model", "fetch", "pin", "generate"}

\* One request changes state; the others keep their slots.
LEMMA HoldersChange ==
    ASSUME TypeOK, NEW r \in Requests, NEW c,
           calls' = [calls EXCEPT ![r] = c]
    PROVE  /\ IsFiniteSet(Holders)
           /\ Holders' = IF c.pc \in HoldingStates THEN Holders \cup {r} ELSE Holders \ {r}
           /\ r \in Holders <=> calls[r].pc \in HoldingStates
<1>1. IsFiniteSet(Holders)
  BY SlotsAssumption, FS_Subset DEF Holders
<1>2. QED
  BY <1>1 DEF TypeOK, Holders, Holding, HoldingStates

\* Changes that keep a slot, take one, or give it back keep the sum.
LEMMA SlotsChange ==
    ASSUME TypeOK, SlotsAddUp, NEW r \in Requests, NEW c,
           calls' = [calls EXCEPT ![r] = c],
           \/ /\ c.pc \in HoldingStates <=> calls[r].pc \in HoldingStates
              /\ free' = free
           \/ /\ c.pc \in HoldingStates /\ calls[r].pc \notin HoldingStates
              /\ free' = free - 1
           \/ /\ c.pc \notin HoldingStates /\ calls[r].pc \in HoldingStates
              /\ free' = free + 1
    PROVE  SlotsAddUp'
<1>0. Cardinality(Holders) \in Nat /\ free \in Nat /\ MaxConcurrent \in Nat
  BY HoldersChange, FS_CardinalityType, SlotsAssumption DEF TypeOK
<1>1. Cardinality(Holders \cup {r}) =
        IF r \in Holders THEN Cardinality(Holders) ELSE Cardinality(Holders) + 1
  BY HoldersChange, FS_AddElement
<1>2. Cardinality(Holders \ {r}) =
        IF r \in Holders THEN Cardinality(Holders) - 1 ELSE Cardinality(Holders)
  BY HoldersChange, FS_RemoveElement
<1>3. /\ Holders' = IF c.pc \in HoldingStates THEN Holders \cup {r} ELSE Holders \ {r}
      /\ r \in Holders <=> calls[r].pc \in HoldingStates
  BY HoldersChange
<1>4. QED
  BY <1>0, <1>1, <1>2, <1>3 DEF SlotsAddUp

\* However many requests there are and however they end, the free slots and
\* those in use add up to the limit.
THEOREM GenerationSlots == Spec => []SlotsAddUp
<1>0. Init => SlotsAddUp
  <2> SUFFICES ASSUME Init PROVE SlotsAddUp
    OBVIOUS
  <2>1. Holders = {}
    BY DEF Init, Holders, Holding, NoCall, Call
  <2>2. QED
    BY <2>1, FS_EmptySet, SlotsAssumption DEF Init, SlotsAddUp
<1>1. TypeOK /\ SlotsAddUp /\ [Next]_vars => SlotsAddUp'
  <2> SUFFICES ASSUME TypeOK, SlotsAddUp, [Next]_vars PROVE SlotsAddUp'
    OBVIOUS
  <2>1. ASSUME NEW r \in Requests, Arrive(r) \/ Step(r)
        PROVE  SlotsAddUp'
    <3>1. CASE Arrive(r)
      BY <3>1, SlotsChange DEF Arrive, Call, HoldingStates
    <3>2. CASE Acquire(r)
      BY <3>2, SlotsChange DEF Acquire, Call, HoldingStates
    <3>3. CASE Busy(r)
      BY <3>3, SlotsChange DEF Busy, NoCall, Call, HoldingStates
    <3>4. CASE PinFresh(r)
      BY <3>4, SlotsChange DEF PinFresh, Call, HoldingStates
    <3>5. CASE PinDue(r)
      BY <3>5, SlotsChange DEF PinDue, Call, HoldingStates
    <3>6. CASE FetchDigest(r)
      BY <3>6, SlotsChange DEF FetchDigest, Call, HoldingStates
    <3>7. CASE PinMatches(r)
      BY <3>7, SlotsChange DEF PinMatches, Call, HoldingStates
    <3>8. CASE PinRefused(r)
      BY <3>8, SlotsChange DEF PinRefused, NoCall, Call, HoldingStates
    <3>9. CASE AskOnceMore(r)
      BY <3>9, SlotsChange DEF AskOnceMore, Call, HoldingStates
    <3>10. CASE Finish(r)
      BY <3>10, SlotsChange DEF Finish, NoCall, Call, HoldingStates
    <3>11. QED
      BY <2>1, <3>1, <3>2, <3>3, <3>4, <3>5, <3>6, <3>7, <3>8, <3>9, <3>10 DEF Step
  <2>2. CASE Tick
    <3>1. \A r \in Requests : calls'[r].pc = calls[r].pc
      BY <2>2 DEF Tick, Call
    <3>2. Holders' = Holders /\ free' = free
      BY <2>2, <3>1 DEF Tick, Holders, Holding
    <3>3. QED
      BY <3>2 DEF SlotsAddUp
  <2>3. CASE Restart
    <3>1. Holders' = {}
      BY <2>3 DEF Restart, Holders, Holding, NoCall, Call
    <3>2. QED
      BY <2>3, <3>1, FS_EmptySet, SlotsAssumption DEF Restart, SlotsAddUp
  <2>4. CASE UNCHANGED vars \/ \E t \in {"pinned", "moved"} : MoveTag(t)
    BY <2>4 DEF vars, MoveTag, SlotsAddUp, Holders, Holding
  <2>5. QED
    BY <2>1, <2>2, <2>3, <2>4 DEF Next
<1>2. QED
  BY <1>0, <1>1, GenerationTypeOK, PTL DEF Spec

\* At most MAX_CONCURRENT_GENERATIONS requests are inside a slot, the guard under
\* which Egress lets an answer reach its checks.
THEOREM GenerationBound == Spec => [](Cardinality(Holders) <= MaxConcurrent)
<1>1. TypeOK /\ SlotsAddUp => Cardinality(Holders) <= MaxConcurrent
  <2>1. IsFiniteSet(Holders)
    BY SlotsAssumption, FS_Subset DEF Holders
  <2>2. QED
    BY <2>1, FS_CardinalityType, SlotsAssumption DEF TypeOK, SlotsAddUp
<1>2. QED
  BY <1>1, GenerationTypeOK, GenerationSlots, PTL

-----------------------------------------------------------------------------
(* The pin *)

\* What is known of the digests in hand.  A digest is in hand for at most
\* Timeout; one that is still "pinned" was fetched before the tag moved; so a
\* check that did not refuse was made at most Timeout after the move.
DigestsOK ==
    \A r \in Requests :
        /\ calls[r].pc \in {"fetch", "pin"} => calls[r].age <= Timeout
        /\ calls[r].pc = "pin" /\ calls[r].digest = "pinned" /\ tag = "moved"
              => movedAge <= calls[r].age

CheckOK == tag = "moved" /\ ~denied /\ pinAge <= Recheck => movedAge <= pinAge + Timeout

PinInv == DigestsOK /\ CheckOK

LEMMA PinInit == Init => PinInv
  BY DEF Init, PinInv, DigestsOK, CheckOK, NoCall, Call

LEMMA PinStep ==
    ASSUME TypeOK, PinInv, NEW r \in Requests, Arrive(r) \/ Step(r)
    PROVE  PinInv'
<1>0. /\ Recheck \in Nat /\ Timeout \in Nat /\ pinAge \in Nat /\ movedAge \in Nat
      /\ None # "pinned" /\ tag \in {"pinned", "moved"}
      /\ calls[r].age \in Nat
  BY GenerationAssumption DEF TypeOK, CallStates, PinCap, MoveCap
<1>k. ASSUME NEW c, calls' = [calls EXCEPT ![r] = c],
             tag' = tag, movedAge' = movedAge,
             c.pc \in {"fetch", "pin"} => c.age <= Timeout,
             c.pc = "pin" /\ c.digest = "pinned" /\ tag = "moved" => movedAge <= c.age
      PROVE  DigestsOK'
  BY <1>k DEF TypeOK, PinInv, DigestsOK
<1>1. CASE Arrive(r) \/ Acquire(r) \/ Busy(r) \/ PinFresh(r) \/ AskOnceMore(r) \/ Finish(r)
  <2>1. PICK c : calls' = [calls EXCEPT ![r] = c] /\ c.pc \notin {"fetch", "pin"}
    BY <1>1 DEF Arrive, Acquire, Busy, PinFresh, AskOnceMore, Finish, NoCall, Call
  <2>2. UNCHANGED <<tag, movedAge, pinAge, denied>>
    BY <1>1 DEF Arrive, Acquire, Busy, PinFresh, AskOnceMore, Finish
  <2>3. QED
    BY <1>k, <2>1, <2>2 DEF PinInv, CheckOK
<1>2. CASE PinDue(r)
  <2> DEFINE fetching == Call("fetch", 0, None, calls[r].last)
  <2>7. calls' = [calls EXCEPT ![r] = fetching]
    BY <1>2 DEF PinDue
  <2>8. fetching.pc = "fetch" /\ fetching.age = 0
    BY DEF Call
  <2>1. PICK c : calls' = [calls EXCEPT ![r] = c] /\ c.pc = "fetch" /\ c.age = 0
    <3> HIDE DEF fetching
    <3> QED BY <2>7, <2>8
  <2>2. UNCHANGED <<tag, movedAge, pinAge, denied>>
    BY <1>2 DEF PinDue
  <2>3. 0 <= Timeout
    BY <1>0
  <2>4. c.age <= Timeout
    BY <2>1, <2>3
  <2>5. DigestsOK'
    BY <1>k, <2>1, <2>2, <2>4
  <2>6. QED
    BY <2>2, <2>5 DEF PinInv, CheckOK
<1>3. CASE FetchDigest(r)
  <2>1. PICK d \in {tag, None} :
           calls' = [calls EXCEPT ![r] = Call("pin", calls[r].age, d, calls[r].last)]
    BY <1>3 DEF FetchDigest
  <2>2. calls[r].age <= Timeout
    BY <1>3 DEF FetchDigest, PinInv, DigestsOK
  <2>3. DigestsOK'
    BY <1>3, <1>0, <1>k, <2>1, <2>2 DEF FetchDigest, Call
  <2>4. QED
    BY <1>3, <2>3 DEF FetchDigest, PinInv, CheckOK
<1>4. CASE PinMatches(r)
  <2>1. DigestsOK'
    BY <1>4, <1>k DEF PinMatches, Call
  <2>2. tag = "moved" => movedAge <= Timeout
    BY <1>4, <1>0 DEF PinMatches, PinInv, DigestsOK
  <2>3. CheckOK'
    BY <1>4, <1>0, <2>2 DEF PinMatches, CheckOK
  <2>4. QED
    BY <2>1, <2>3 DEF PinInv
<1>5. CASE PinRefused(r)
  <2>1. DigestsOK'
    BY <1>5, <1>k DEF PinRefused, NoCall, Call
  <2>2. QED
    BY <1>5, <2>1 DEF PinRefused, PinInv, CheckOK
<1>6. QED
  BY <1>1, <1>2, <1>3, <1>4, <1>5 DEF Step

LEMMA PinTick ==
    ASSUME TypeOK, PinInv, Tick
    PROVE  PinInv'
<1>0. /\ Recheck \in Nat /\ Timeout \in Nat
      /\ pinAge \in 0 .. PinCap /\ movedAge \in 0 .. MoveCap
  BY GenerationAssumption DEF TypeOK
<1>1. DigestsOK'
  <2> SUFFICES ASSUME NEW r \in Requests, calls[r].pc \in {"fetch", "pin"}
               PROVE  /\ calls'[r].age <= Timeout
                      /\ calls'[r].pc = "pin" /\ calls'[r].digest = "pinned" /\ tag = "moved"
                            => movedAge' <= calls'[r].age
    BY DEF Tick, DigestsOK, Call, Timed
  <2>1. calls'[r] = Call(calls[r].pc, calls[r].age + 1, calls[r].digest, calls[r].last)
    BY DEF Tick, Timed
  <2>2. calls[r].age \in Nat /\ calls[r].age < Timeout
    BY DEF Tick, TypeOK, CallStates, Timed, Limit
  <2>3. movedAge' <= movedAge + 1
    BY <1>0 DEF Tick, Older, MoveCap
  <2>4. calls[r].pc = "pin" /\ calls[r].digest = "pinned" /\ tag = "moved"
           => movedAge <= calls[r].age
    BY DEF PinInv, DigestsOK
  <2>5. movedAge \in Nat /\ movedAge' \in Nat
    BY <1>0, Ages DEF Tick, MoveCap
  <2>6. QED
    BY <1>0, <2>1, <2>2, <2>3, <2>4, <2>5 DEF Call
<1>2. CheckOK'
  BY <1>0 DEF Tick, PinInv, CheckOK, Older, PinCap, MoveCap
<1>3. QED
  BY <1>1, <1>2 DEF PinInv

LEMMA PinInvariant == Spec => []PinInv
<1>1. TypeOK /\ PinInv /\ [Next]_vars => PinInv'
  <2> SUFFICES ASSUME TypeOK, PinInv, [Next]_vars PROVE PinInv'
    OBVIOUS
  <2>1. ASSUME NEW t \in {"pinned", "moved"}, MoveTag(t)
        PROVE  PinInv'
    <3>1. pinAge \in Nat /\ Timeout \in Nat /\ \A r \in Requests : calls[r].age \in Nat
      BY GenerationAssumption DEF TypeOK, CallStates, PinCap
    <3>2. QED
      BY <2>1, <3>1 DEF MoveTag, PinInv, DigestsOK, CheckOK
  <2>2. CASE Restart
    BY <2>2 DEF Restart, PinInv, DigestsOK, CheckOK, NoCall, Call
  <2>3. CASE UNCHANGED vars
    BY <2>3 DEF vars, PinInv, DigestsOK, CheckOK
  <2>4. QED
    BY <2>1, <2>2, <2>3, PinTick, PinStep DEF Next
<1>2. QED
  BY <1>1, PinInit, GenerationTypeOK, PTL DEF Spec

\* A request gets a generator whose tag moved longer ago than one recheck
\* interval and one fetch only after some request was refused since.
THEOREM GenerationMoveIsNoticed == Spec => MoveIsNoticed
<1> DEFINE Noticed ==
      \A r \in Requests :
          /\ calls[r].pc # "generate" /\ calls'[r].pc = "generate"
          /\ tag = "moved" /\ movedAge > Recheck + Timeout
          => denied
<1>1. TypeOK /\ PinInv /\ [Next]_vars => [Noticed]_vars
  <2> SUFFICES ASSUME TypeOK, PinInv, Next,
                      NEW r \in Requests,
                      calls[r].pc # "generate", calls'[r].pc = "generate",
                      tag = "moved", movedAge > Recheck + Timeout
               PROVE  denied
    BY DEF vars
  <2>0. /\ Recheck \in Nat /\ Timeout \in Nat /\ pinAge \in Nat /\ movedAge \in Nat
        /\ calls[r].age \in Nat
    BY GenerationAssumption DEF TypeOK, CallStates, PinCap, MoveCap
  <2>1. PinFresh(r) \/ PinMatches(r)
    <3>1. ASSUME NEW q \in Requests, Arrive(q) \/ Step(q), q # r
          PROVE  calls'[r] = calls[r]
      BY <3>1 DEF Step, Arrive, Acquire, Busy, PinFresh, PinDue, FetchDigest, PinMatches,
                  PinRefused, AskOnceMore, Finish, TypeOK
    <3>2. Arrive(r) \/ Step(r) => PinFresh(r) \/ PinMatches(r)
      BY DEF Step, Arrive, Acquire, Busy, PinDue, FetchDigest,
             PinRefused, AskOnceMore, Finish, TypeOK, NoCall, Call
    <3>3. ~Tick
      BY DEF Tick, Call
    <3>4. ~Restart
      BY DEF Restart, NoCall, Call
    <3>5. ~\E t \in {"pinned", "moved"} : MoveTag(t)
      BY DEF MoveTag
    <3>6. QED
      BY <3>1, <3>2, <3>3, <3>4, <3>5 DEF Next
  <2>2. CASE PinFresh(r)
    BY <2>0, <2>2 DEF PinFresh, PinInv, CheckOK
  <2>3. CASE PinMatches(r)
    BY <2>0, <2>3 DEF PinMatches, PinInv, DigestsOK
  <2>4. QED
    BY <2>1, <2>2, <2>3
<1>2. QED
  BY <1>1, GenerationTypeOK, PinInvariant, PTL DEF Spec, MoveIsNoticed

-----------------------------------------------------------------------------
(* Egress: the threads and what they have of their answers *)

\* While there are no spans nobody adds to them; a thread that stores has read
\* which set the global named; a thread that is about to name its own set is the
\* only one that knows of it.
ThreadsOK ==
    /\ grams = None => \A r \in Requests : request[r].pc \in {"idle", "scan", "assign"}
    /\ \A r \in Requests :
          /\ request[r].pc # "idle" => request[r].text \in Texts
          /\ At(r, "store") <=> request[r].loaded # None
          /\ request[r].pc \in {"load", "store"} => request[r].next <= Len(PromptSeq)
          /\ request[r].pc \in {"idle", "scan", "assign"} => request[r].next = 1
          /\ At(r, "assign") => /\ grams # r
                                /\ \A q \in Requests : request[q].loaded # r

RequestStates == [pc : Steps, text : Texts \cup {None}, hits : BOOLEAN,
                  next : Nat \ {0}, loaded : Requests \cup {None}]

\* One thread moves on, and the others keep their places.
LEMMA RequestChange ==
    ASSUME EgressTypeOK, NEW r \in Requests, NEW c \in RequestStates,
           request' = [request EXCEPT ![r] = c]
    PROVE  /\ request' \in [Requests -> RequestStates]
           /\ request'[r] = c
           /\ \A q \in Requests : q # r => request'[q] = request[q]
  BY DEF EgressTypeOK, RequestStates

LEMMA IdleType == Idle \in RequestStates
  BY DEF Idle, RequestStates, Steps

LEMMA PromptsInOrder ==
    /\ PromptSeq \in Seq(Prompts) /\ Len(PromptSeq) \in Nat
    /\ \A n \in 1 .. Len(PromptSeq) : PromptSeq[n] \in Prompts
    /\ \A p \in Prompts : \E n \in 1 .. Len(PromptSeq) : p = PromptSeq[n]
    /\ PromptSeq # <<>> => 1 <= Len(PromptSeq)
<1>1. PromptSeq \in Seq(Prompts)
  BY EgressAssumption
<1>2. DOMAIN PromptSeq = 1 .. Len(PromptSeq) /\ Len(PromptSeq) \in Nat
  BY <1>1
<1>3. PromptSeq # <<>> => 1 <= Len(PromptSeq)
  BY <1>1, <1>2
<1>4. QED
  BY <1>1, <1>2, <1>3 DEF Prompts, Range

\* What the steps that neither collect spans nor begin to do to the threads.
Quiet(r) == Submit(r) \/ LookAtNothing(r) \/ MatchWritten(r) \/ MatchDecoded(r)
               \/ ResemblesPrompt(r) \/ Apply(r)

LEMMA QuietChange ==
    ASSUME EgressTypeOK, ThreadsOK, NEW r \in Requests, Quiet(r)
    PROVE  /\ request' \in [Requests -> RequestStates]
           /\ \A q \in Requests : q # r => request'[q] = request[q]
           /\ ~Building(r) /\ ~Building(r)' /\ ~At(r, "scan")
           /\ grams = None => request'[r].pc \in {"idle", "scan"}
           /\ request'[r].pc \in {"idle", "scan"} => request'[r].next = 1
           /\ request'[r].pc # "idle" => request'[r].text \in Texts
           /\ request'[r].loaded = None
           /\ UNCHANGED <<registered, grams, content>>
<1>0. request[r] \in RequestStates /\ request \in [Requests -> RequestStates]
  BY DEF EgressTypeOK, RequestStates
<1>1. CASE Submit(r)
  <2>1. PICK a \in Texts :
           request' = [request EXCEPT ![r] = [Idle EXCEPT !.pc = "scan", !.text = a]]
    BY <1>1 DEF Submit
  <2>2. [Idle EXCEPT !.pc = "scan", !.text = a] \in RequestStates
    BY IdleType DEF Idle, RequestStates, Steps
  <2>3. QED
    BY <1>1, <2>1, <2>2, RequestChange DEF Submit, Idle, Building, At
<1>2. CASE LookAtNothing(r)
  <2>1. PICK pc \in {"resembles", "written"} :
           request' = [request EXCEPT ![r] = [request[r] EXCEPT !.pc = pc]]
    BY <1>2 DEF LookAtNothing, Goto
  <2>2. QED
    BY <1>0, <1>2, <2>1 DEF LookAtNothing, RequestStates, Steps, Building, At, ThreadsOK
<1>3. CASE MatchWritten(r) \/ MatchDecoded(r)
  <2>1. CASE request' = [request EXCEPT ![r].hits = TRUE, ![r].pc = "ground"]
    BY <1>0, <1>3, <2>1 DEF MatchWritten, MatchDecoded, Match, RequestStates, Steps, Building,
                            At, ThreadsOK
  <2>2. CASE Goto(r, "decoded") \/ Goto(r, "resembles")
    <3>1. PICK pc \in {"resembles", "decoded"} :
             request' = [request EXCEPT ![r] = [request[r] EXCEPT !.pc = pc]]
      BY <2>2 DEF Goto
    <3>2. QED
      BY <1>0, <1>3, <3>1 DEF MatchWritten, MatchDecoded, Match, RequestStates, Steps,
                              Building, At, ThreadsOK
  <2>3. QED
    BY <1>3, <2>1, <2>2 DEF MatchWritten, MatchDecoded, Match
<1>4. CASE ResemblesPrompt(r)
  <2>1. PICK hits \in BOOLEAN :
           request' = [request EXCEPT ![r] = [request[r] EXCEPT !.pc = "ground", !.hits = hits]]
    BY <1>0, <1>4 DEF ResemblesPrompt, RequestStates, Resembling
  <2>2. QED
    BY <1>0, <1>4, <2>1 DEF ResemblesPrompt, RequestStates, Steps, Building, At, ThreadsOK
<1>5. CASE Apply(r)
  BY <1>0, <1>5, IdleType, RequestChange DEF Apply, Idle, Building, At, ThreadsOK
<1>6. QED
  BY <1>1, <1>2, <1>3, <1>4, <1>5 DEF Quiet

LEMMA ScanChange ==
    ASSUME EgressTypeOK, ThreadsOK, NEW r \in Requests, Scan(r)
    PROVE  /\ request' \in [Requests -> RequestStates]
           /\ \A q \in Requests : q # r => request'[q] = request[q]
           /\ ~Building(r)
           /\ request'[r].pc = IF grams = None THEN "assign" ELSE "empty"
           /\ request'[r].text = request[r].text /\ request'[r].text \in Texts
           /\ request'[r].hits \/ ~(request[r].text.shaped \/ LeaksSecret(request[r].text))
           /\ request'[r].next = 1 /\ request'[r].loaded = None
           /\ UNCHANGED <<registered, grams, content, out>>
<1>0. request[r] \in RequestStates /\ request \in [Requests -> RequestStates]
  BY DEF EgressTypeOK, RequestStates
<1>1. request[r].text.shaped \in BOOLEAN /\ LeaksSecret(request[r].text) \in BOOLEAN
  BY EgressAssumption DEF Scan, At, ThreadsOK, Drafts, LeaksSecret
<1>2. PICK pc \in {"assign", "empty"}, hits \in BOOLEAN :
         /\ request' = [request EXCEPT ![r] = [request[r] EXCEPT !.pc = pc, !.hits = hits]]
         /\ pc = IF grams = None THEN "assign" ELSE "empty"
         /\ hits \/ ~(request[r].text.shaped \/ LeaksSecret(request[r].text))
  BY ZenonT(30), <1>0, <1>1 DEF Scan, RequestStates
<1>3. [request[r] EXCEPT !.pc = pc, !.hits = hits] \in RequestStates
  BY <1>0 DEF RequestStates, Steps
<1>4. QED
  BY <1>0, <1>2, <1>3, RequestChange DEF Scan, RequestStates, Building, At, ThreadsOK

LEMMA AssignChange ==
    ASSUME EgressTypeOK, ThreadsOK, NEW r \in Requests, GramsAssign(r)
    PROVE  /\ request' \in [Requests -> RequestStates]
           /\ \A q \in Requests : q # r => request'[q] = request[q]
           /\ request'[r].pc = IF PromptSeq = <<>> THEN "empty" ELSE "load"
           /\ request'[r].text = request[r].text /\ request'[r].hits = request[r].hits
           /\ request'[r].next = 1 /\ request'[r].loaded = None
<1>0. request[r] \in RequestStates /\ request \in [Requests -> RequestStates]
  BY DEF EgressTypeOK, RequestStates
<1>1. PICK pc \in {"empty", "load"} :
         /\ request' = [request EXCEPT ![r] = [request[r] EXCEPT !.pc = pc]]
         /\ pc = IF PromptSeq = <<>> THEN "empty" ELSE "load"
  BY DEF GramsAssign, Goto
<1>2. QED
  BY <1>0, <1>1 DEF GramsAssign, RequestStates, Steps, At, ThreadsOK

LEMMA LoadChange ==
    ASSUME EgressTypeOK, ThreadsOK, NEW r \in Requests, GramsLoad(r)
    PROVE  /\ request' \in [Requests -> RequestStates]
           /\ \A q \in Requests : q # r => request'[q] = request[q]
           /\ request'[r].pc = "store" /\ request'[r].loaded = grams /\ grams \in Requests
           /\ request'[r].text = request[r].text /\ request'[r].hits = request[r].hits
           /\ request'[r].next = request[r].next
<1>0. request[r] \in RequestStates /\ request \in [Requests -> RequestStates]
  BY DEF EgressTypeOK, RequestStates
<1>1. grams \in Requests
  BY DEF GramsLoad, At, ThreadsOK, EgressTypeOK
<1>2. request' = [request EXCEPT ![r] = [request[r] EXCEPT !.loaded = grams, !.pc = "store"]]
  BY DEF GramsLoad
<1>3. QED
  BY <1>0, <1>1, <1>2 DEF RequestStates, Steps

LEMMA StoreChange ==
    ASSUME EgressTypeOK, ThreadsOK, NEW r \in Requests, GramsStore(r)
    PROVE  /\ request' \in [Requests -> RequestStates]
           /\ \A q \in Requests : q # r => request'[q] = request[q]
           /\ request[r].loaded \in Requests /\ grams' = request[r].loaded
           /\ request[r].next \in 1 .. Len(PromptSeq)
           /\ content' = [content EXCEPT ![request[r].loaded] = @ \cup {PromptSeq[request[r].next]}]
           /\ request'[r].text = request[r].text /\ request'[r].hits = request[r].hits
           /\ request'[r].loaded = None
           /\ \/ /\ request[r].next = Len(PromptSeq)
                 /\ request'[r].pc = "empty" /\ request'[r].next = request[r].next
              \/ /\ request[r].next < Len(PromptSeq)
                 /\ request'[r].pc = "load" /\ request'[r].next = request[r].next + 1
<1>0. request[r] \in RequestStates /\ request \in [Requests -> RequestStates]
  BY DEF EgressTypeOK, RequestStates
<1>1. /\ request[r].loaded \in Requests /\ request[r].next \in 1 .. Len(PromptSeq)
      /\ request[r].next \in Nat /\ Len(PromptSeq) \in Nat
  BY <1>0, PromptsInOrder DEF GramsStore, At, ThreadsOK, RequestStates
<1>2. CASE request[r].next = Len(PromptSeq)
  <2>1. request' = [request EXCEPT ![r] = [request[r] EXCEPT !.loaded = None, !.pc = "empty"]]
    BY <1>0, <1>1, <1>2 DEF GramsStore, RequestStates
  <2>2. [request[r] EXCEPT !.loaded = None, !.pc = "empty"] \in RequestStates
    BY <1>0 DEF RequestStates, Steps
  <2>3. QED
    BY <1>0, <1>1, <1>2, <2>1, <2>2, RequestChange DEF GramsStore, RequestStates
<1>3. CASE request[r].next < Len(PromptSeq)
  <2>1. request' = [request EXCEPT ![r] = [request[r] EXCEPT !.loaded = None, !.pc = "load",
                                               !.next = request[r].next + 1]]
    BY <1>0, <1>1, <1>3 DEF GramsStore, RequestStates
  <2>2. QED
    BY <1>0, <1>1, <1>3, <2>1 DEF GramsStore, RequestStates, Steps
<1>4. QED
  BY <1>1, <1>2, <1>3

LEMMA ThreadsStep ==
    ASSUME EgressTypeOK, ThreadsOK, [EgressNext]_egressVars
    PROVE  ThreadsOK'
<1>0. None \notin Requests /\ grams \in Requests \cup {None}
  BY EgressAssumption DEF EgressTypeOK
<1>1. ASSUME NEW r \in Requests, Quiet(r)
      PROVE  ThreadsOK'
  BY <1>0, <1>1, QuietChange DEF ThreadsOK, At, Building
<1>2. ASSUME NEW r \in Requests, Scan(r)
      PROVE  ThreadsOK'
  <2>1. grams = None => \A q \in Requests : request[q].loaded = None
    BY DEF ThreadsOK, At
  <2>2. QED
    BY <1>0, <1>2, <2>1, ScanChange DEF ThreadsOK, At, Building
<1>3. ASSUME NEW r \in Requests, GramsAssign(r)
      PROVE  ThreadsOK'
  <2>1. /\ At(r, "assign") /\ grams' = r
        /\ request'[r].pc \in {"empty", "load"}
        /\ request'[r].pc = "load" => 1 <= Len(PromptSeq)
    BY <1>3, AssignChange, PromptsInOrder DEF GramsAssign
  <2>2. QED
    BY <1>0, <1>3, <2>1, AssignChange DEF ThreadsOK, At
<1>4. ASSUME NEW r \in Requests, GramsLoad(r)
      PROVE  ThreadsOK'
  <2>1. /\ grams' = grams /\ grams \in Requests /\ At(r, "load")
        /\ request'[r].pc = "store" /\ request'[r].loaded = grams
        /\ request'[r].text = request[r].text /\ request'[r].next = request[r].next
        /\ \A q \in Requests : q # r => request'[q] = request[q]
    BY <1>4, LoadChange DEF GramsLoad
  <2>2. ASSUME NEW q \in Requests, request'[q].pc = "assign"
        PROVE  grams' # q /\ \A p \in Requests : request'[p].loaded # q
    BY <2>1, <2>2 DEF ThreadsOK, At
  <2>3. QED
    BY <1>0, <2>1, <2>2 DEF ThreadsOK, At
<1>5. ASSUME NEW r \in Requests, GramsStore(r)
      PROVE  ThreadsOK'
  <2>1. /\ request'[r].pc \in {"empty", "load"}
        /\ request'[r].pc = "load" => request'[r].next <= Len(PromptSeq)
    BY SMTT(20), <1>5, StoreChange, PromptsInOrder
  <2>2. /\ grams' = request[r].loaded /\ grams' \in Requests /\ At(r, "store")
        /\ request'[r].text = request[r].text /\ request'[r].loaded = None
        /\ \A q \in Requests : q # r => request'[q] = request[q]
    BY <1>5, StoreChange DEF GramsStore
  <2>3. ASSUME NEW q \in Requests, request'[q].pc = "assign"
        PROVE  grams' # q /\ \A p \in Requests : request'[p].loaded # q
    BY <1>0, <2>1, <2>2, <2>3 DEF ThreadsOK, At
  <2>4. QED
    BY <1>0, <2>1, <2>2, <2>3 DEF ThreadsOK, At
<1>6. CASE EgressRestart
  BY <1>6 DEF EgressRestart, ThreadsOK, At, Idle
<1>7. CASE UNCHANGED egressVars
  BY <1>7 DEF egressVars, ThreadsOK, At
<1>8. QED
  BY <1>1, <1>2, <1>3, <1>4, <1>5, <1>6, <1>7 DEF EgressNext, Quiet

LEMMA EgressTypeStep ==
    ASSUME EgressTypeOK, ThreadsOK, [EgressNext]_egressVars
    PROVE  EgressTypeOK'
<1>1. ASSUME NEW r \in Requests, Submit(r) \/ Apply(r)
      PROVE  out' \in [Requests -> {Filtered(a) : a \in Texts} \cup {Refusal, None}]
  <2>1. At(r, "ground") => request[r].text \in Texts
    BY DEF ThreadsOK, At
  <2>2. PICK o \in {Filtered(a) : a \in Texts} \cup {Refusal, None} : out' = [out EXCEPT ![r] = o]
    BY <1>1, <2>1 DEF Submit, Apply
  <2>3. QED
    BY <2>2 DEF EgressTypeOK
<1>2. ASSUME NEW r \in Requests, Quiet(r)
      PROVE  EgressTypeOK'
  <2>1. out' \in [Requests -> {Filtered(a) : a \in Texts} \cup {Refusal, None}]
    BY <1>1, <1>2 DEF Quiet, LookAtNothing, MatchWritten, MatchDecoded, Match, ResemblesPrompt,
                      EgressTypeOK
  <2>2. QED
    BY <1>2, <2>1, QuietChange DEF EgressTypeOK, RequestStates
<1>3. ASSUME NEW r \in Requests, Scan(r)
      PROVE  EgressTypeOK'
  BY <1>3, ScanChange DEF EgressTypeOK, RequestStates
<1>4. ASSUME NEW r \in Requests, GramsAssign(r)
      PROVE  EgressTypeOK'
  BY <1>4, AssignChange DEF GramsAssign, EgressTypeOK, RequestStates
<1>5. ASSUME NEW r \in Requests, GramsLoad(r)
      PROVE  EgressTypeOK'
  BY <1>5, LoadChange DEF GramsLoad, EgressTypeOK, RequestStates
<1>6. ASSUME NEW r \in Requests, GramsStore(r)
      PROVE  EgressTypeOK'
  <2>1. PromptSeq[request[r].next] \in Prompts
    BY <1>6, StoreChange, PromptsInOrder
  <2>2. content' \in [Requests -> SUBSET Prompts]
    BY <1>6, <2>1, StoreChange DEF EgressTypeOK
  <2>3. QED
    BY <1>6, <2>2, StoreChange DEF GramsStore, EgressTypeOK, RequestStates
<1>7. CASE EgressRestart
  BY <1>7, IdleType DEF EgressRestart, EgressTypeOK, RequestStates, SecretsKept
<1>8. CASE UNCHANGED egressVars
  BY <1>8 DEF egressVars, EgressTypeOK
<1>9. QED
  BY <1>2, <1>3, <1>4, <1>5, <1>6, <1>7, <1>8 DEF EgressNext, Quiet

LEMMA ThreadsInvariant == EgressSpec => [](EgressTypeOK /\ ThreadsOK)
<1>1. EgressInit => EgressTypeOK /\ ThreadsOK
  <2>1. EgressInit => EgressTypeOK
    BY IdleType DEF EgressInit, InitialSecrets, SecretsKept, EgressTypeOK, RequestStates
  <2>2. EgressInit => ThreadsOK
    BY DEF EgressInit, ThreadsOK, At, Idle
  <2>3. QED
    BY <2>1, <2>2
<1>2. QED
  BY <1>1, ThreadsStep, EgressTypeStep, PTL DEF EgressSpec

\* Every variable keeps its type: the secrets that are registered are long enough,
\* and no answer is served but a filtered one.
THEOREM EgressTypes == EgressSpec => []EgressTypeOK
  BY ThreadsInvariant, PTL

-----------------------------------------------------------------------------
(* Egress: what is served *)

\* What the thread of an answer that nothing has hit yet has found out about it.
Examined(r) ==
    ~request[r].hits =>
        /\ request[r].pc \notin {"idle", "scan"} =>
              ~request[r].text.shaped /\ ~LeaksSecret(request[r].text)
        /\ At(r, "ground") => ~Resembles(request[r].text)

ServedInv == ServedWasExamined /\ \A r \in Requests : Examined(r)

\* The filter takes away what it says it does, and adds nothing a check looked for.
LEMMA FilteredText ==
    ASSUME NEW a \in Texts
    PROVE  /\ Filtered(a).shaped = a.shaped /\ Filtered(a).secrets = a.secrets
           /\ Filtered(a).windows = a.windows
           /\ ~Woven(Filtered(a)) /\ ~Filtered(a).personal /\ ~Filtered(a).markup
<1>1. a \in Drafts /\ Grounded(a) \in [shaped : BOOLEAN, personal : BOOLEAN, markup : BOOLEAN,
           secrets : {a.secrets}, quotes : {a.quotes}, windows : {a.windows},
           sentences : {Grounded(a).sentences}]
  BY EgressAssumption DEF Drafts, Grounded
<1>2. Grounded(a).shaped = a.shaped
  BY <1>1 DEF Grounded, Drafts
<1>3. ~Woven(Grounded(a))
  <2>1. CASE Woven(a)
    <3>1. \A i \in DOMAIN Grounded(a).sentences : Grounded(a).sentences[i] # "prompt"
      BY <1>1, <2>1 DEF Grounded, Drafts
    <3>2. "prompt" \notin Range(Grounded(a).sentences)
      BY <3>1 DEF Range
    <3>3. QED
      BY <3>2 DEF Woven
  <2>2. CASE ~Woven(a)
    BY <2>2 DEF Grounded
  <2>3. QED
    BY <2>1, <2>2
<1>4. /\ Filtered(a).sentences = Grounded(a).sentences
      /\ Filtered(a).shaped = Grounded(a).shaped /\ Filtered(a).secrets = a.secrets
      /\ Filtered(a).windows = a.windows /\ ~Filtered(a).personal /\ ~Filtered(a).markup
  BY <1>1 DEF Filtered, Neutralised, Redacted
<1>5. QED
  BY <1>2, <1>3, <1>4 DEF Woven

\* What the checks see depends on the answer and the registered secrets alone.
LEMMA ExaminedKept ==
    ASSUME NEW r \in Requests, UNCHANGED registered, request'[r] = request[r], Examined(r)
    PROVE  Examined(r)'
  BY DEF Examined, LeaksSecret, At

LEMMA ServedStep ==
    ASSUME EgressTypeOK, ThreadsOK, ServedInv, [EgressNext]_egressVars
    PROVE  ServedInv'
<1>1. ASSUME NEW r \in Requests, UNCHANGED <<registered, out>>, Examined(r)',
             \A q \in Requests : q # r => request'[q] = request[q]
      PROVE  ServedInv'
  <2>1. \A q \in Requests : Examined(q)'
    BY <1>1, ExaminedKept DEF ServedInv
  <2>2. ServedWasExamined'
    BY <1>1 DEF ServedInv, ServedWasExamined, LeaksSecret
  <2>3. QED
    BY <2>1, <2>2 DEF ServedInv
<1>2. ASSUME NEW r \in Requests, Submit(r)
      PROVE  ServedInv'
  <2>1. request'[r].pc = "scan" /\ \A q \in Requests : q # r => request'[q] = request[q]
    BY <1>2 DEF Submit, EgressTypeOK, Idle
  <2>2. \A q \in Requests : Examined(q)'
    <3>1. Examined(r)'
      BY <2>1 DEF Examined, At
    <3>2. QED
      BY <1>2, <2>1, <3>1, ExaminedKept DEF Submit, ServedInv
  <2>3. ServedWasExamined'
    BY <1>2 DEF Submit, ServedInv, ServedWasExamined, EgressTypeOK, LeaksSecret
  <2>4. QED
    BY <2>2, <2>3 DEF ServedInv
<1>3. ASSUME NEW r \in Requests, Scan(r)
      PROVE  ServedInv'
  <2>1. Examined(r)'
    BY <1>3, ScanChange DEF Examined, LeaksSecret, At
  <2>2. QED
    BY <1>1, <1>3, <2>1, ScanChange
<1>4. ASSUME NEW r \in Requests, GramsAssign(r)
      PROVE  ServedInv'
  <2>1. Examined(r)'
    BY <1>4, AssignChange DEF GramsAssign, ServedInv, Examined, LeaksSecret, At
  <2>2. QED
    BY <1>1, <1>4, <2>1, AssignChange DEF GramsAssign
<1>5. ASSUME NEW r \in Requests, GramsLoad(r)
      PROVE  ServedInv'
  <2>1. Examined(r)'
    BY <1>5, LoadChange DEF GramsLoad, ServedInv, Examined, LeaksSecret, At
  <2>2. QED
    BY <1>1, <1>5, <2>1, LoadChange DEF GramsLoad
<1>6. ASSUME NEW r \in Requests, GramsStore(r)
      PROVE  ServedInv'
  <2>1. Examined(r)'
    BY <1>6, StoreChange DEF GramsStore, ServedInv, Examined, LeaksSecret, At
  <2>2. QED
    BY <1>1, <1>6, <2>1, StoreChange DEF GramsStore
<1>7. ASSUME NEW r \in Requests, LookAtNothing(r)
      PROVE  ServedInv'
  <2>1. PICK pc \in {"resembles", "written"} :
           request' = [request EXCEPT ![r] = [request[r] EXCEPT !.pc = pc]]
    BY <1>7 DEF LookAtNothing, Goto
  <2>2. Examined(r)'
    BY <1>7, <2>1 DEF LookAtNothing, EgressTypeOK, ServedInv, Examined, LeaksSecret, At
  <2>3. QED
    BY <1>1, <1>7, <2>1, <2>2 DEF LookAtNothing, EgressTypeOK
<1>8. ASSUME NEW r \in Requests, MatchWritten(r) \/ MatchDecoded(r)
      PROVE  ServedInv'
  <2>0. UNCHANGED <<registered, out>> /\ request[r].pc \in {"written", "decoded"}
    BY <1>8 DEF MatchWritten, MatchDecoded, Match, At
  <2>1. CASE request' = [request EXCEPT ![r].hits = TRUE, ![r].pc = "ground"]
    <3>1. Examined(r)' /\ \A q \in Requests : q # r => request'[q] = request[q]
      BY <2>1 DEF EgressTypeOK, Examined
    <3>2. QED
      BY <1>1, <2>0, <3>1
  <2>2. ASSUME NEW pc \in {"decoded", "resembles"},
               request' = [request EXCEPT ![r] = [request[r] EXCEPT !.pc = pc]]
        PROVE  ServedInv'
    <3>1. Examined(r)' /\ \A q \in Requests : q # r => request'[q] = request[q]
      BY <2>0, <2>2 DEF EgressTypeOK, ServedInv, Examined, LeaksSecret, At
    <3>2. QED
      BY <1>1, <2>0, <3>1
  <2>3. QED
    BY <1>8, <2>1, <2>2 DEF MatchWritten, MatchDecoded, Match, Goto
<1>9. ASSUME NEW r \in Requests, ResemblesPrompt(r)
      PROVE  ServedInv'
  <2>1. PICK fails \in BOOLEAN :
           request' = [request EXCEPT ![r].pc = "ground",
                          ![r].hits = @ \/ Resembling(request[r].text, fails)]
    BY <1>9 DEF ResemblesPrompt
  <2>2. /\ request'[r].text = request[r].text /\ request'[r].pc = "ground"
        /\ ~request'[r].hits => ~request[r].hits /\ ~Resembles(request[r].text)
        /\ \A q \in Requests : q # r => request'[q] = request[q]
    BY <2>1 DEF EgressTypeOK, Resembling
  <2>3. Examined(r)'
    BY <1>9, <2>2 DEF ResemblesPrompt, ServedInv, Examined, LeaksSecret, Resembles, At
  <2>4. QED
    BY <1>1, <1>9, <2>2, <2>3 DEF ResemblesPrompt
<1>10. ASSUME NEW r \in Requests, Apply(r)
       PROVE  ServedInv'
  <2>1. /\ request'[r] = Idle /\ \A q \in Requests : q # r => request'[q] = request[q]
        /\ UNCHANGED registered
    BY <1>10 DEF Apply, EgressTypeOK
  <2>2. \A q \in Requests : Examined(q)'
    <3>1. Examined(r)'
      BY <2>1 DEF Examined, At, Idle
    <3>2. QED
      BY <2>1, <3>1, ExaminedKept DEF ServedInv
  <2>3. /\ out'[r] = Refusal \/ (~request[r].hits /\ out'[r] = Filtered(request[r].text))
        /\ \A q \in Requests : q # r => out'[q] = out[q]
    BY <1>10 DEF Apply, EgressTypeOK
  <2>4. ASSUME ~request[r].hits
        PROVE  /\ ~Filtered(request[r].text).shaped /\ ~LeaksSecret(Filtered(request[r].text))
               /\ ~Resembles(Filtered(request[r].text)) /\ ~Woven(Filtered(request[r].text))
               /\ ~Filtered(request[r].text).personal /\ ~Filtered(request[r].text).markup
    <3>1. request[r].text \in Texts /\ At(r, "ground")
      BY <1>10 DEF Apply, ThreadsOK, At
    <3>2. /\ ~request[r].text.shaped /\ ~LeaksSecret(request[r].text)
          /\ ~Resembles(request[r].text)
      BY <2>4, <3>1 DEF ServedInv, Examined, At
    <3>3. QED
      BY <3>1, <3>2, FilteredText DEF LeaksSecret, Resembles
  <2>5. ServedWasExamined'
    BY <2>1, <2>3, <2>4 DEF ServedInv, ServedWasExamined, LeaksSecret
  <2>6. QED
    BY <2>2, <2>5 DEF ServedInv
<1>11. CASE EgressRestart
  BY <1>11 DEF EgressRestart, ServedInv, ServedWasExamined, Examined, At, Idle
<1>12. CASE UNCHANGED egressVars
  BY <1>12 DEF egressVars, ServedInv, ServedWasExamined, Examined, LeaksSecret, At
<1>13. QED
  BY <1>2, <1>3, <1>4, <1>5, <1>6, <1>7, <1>8, <1>9, <1>10, <1>11, <1>12 DEF EgressNext

\* However many requests run, in whatever order, and whatever fails: nothing is
\* served that a check has not let through, over restarts with other secrets.
THEOREM EgressServed == EgressSpec => []ServedWasExamined
<1>1. EgressInit => ServedInv
  BY DEF EgressInit, ServedInv, ServedWasExamined, Examined, At, Idle
<1>2. ServedInv => ServedWasExamined
  BY DEF ServedInv
<1>3. QED
  BY <1>1, <1>2, ServedStep, ThreadsInvariant, PTL DEF EgressSpec

-----------------------------------------------------------------------------
(* Egress: the requests inside a slot *)

SlotsKept == Cardinality(Active) <= MaxConcurrent

LEMMA SlotsKeptStep ==
    ASSUME EgressTypeOK, ThreadsOK, SlotsKept, [EgressNext]_egressVars
    PROVE  SlotsKept'
<1>0. /\ IsFiniteSet(Active) /\ Cardinality(Active) \in Nat /\ MaxConcurrent \in Nat
      /\ \A S \in SUBSET Active : IsFiniteSet(S) /\ Cardinality(S) \in Nat
                                    /\ Cardinality(S) <= Cardinality(Active)
  <2>1. IsFiniteSet(Active)
    BY SlotsAssumption, FS_Subset DEF Active
  <2>2. QED
    BY <2>1, SlotsAssumption, FS_CardinalityType, FS_Subset
<1>1. ASSUME Active' \subseteq Active
      PROVE  SlotsKept'
  BY <1>0, <1>1 DEF SlotsKept
<1>2. ASSUME NEW r \in Requests, Submit(r)
      PROVE  SlotsKept'
  <2>1. Active' \subseteq Active \cup {r} /\ r \notin Active
    BY <1>2 DEF Submit, Active, At, EgressTypeOK, Idle
  <2>2. /\ IsFiniteSet(Active \cup {r}) /\ Cardinality(Active \cup {r}) = Cardinality(Active) + 1
    BY <1>0, <2>1, FS_AddElement
  <2>3. Cardinality(Active') <= Cardinality(Active \cup {r}) /\ Cardinality(Active') \in Nat
    BY <2>1, <2>2, FS_Subset, FS_CardinalityType
  <2>4. Cardinality(Active)' = Cardinality(Active')
    OBVIOUS
  <2>5. QED
    BY <1>0, <1>2, <2>2, <2>3, <2>4 DEF Submit, SlotsKept
<1>3. ASSUME NEW r \in Requests, Active \ {r} = Active' \ {r}, ~At(r, "idle")
      PROVE  SlotsKept'
  BY <1>1, <1>3 DEF Active
<1>4. ASSUME NEW r \in Requests, \A q \in Requests : q # r => request'[q] = request[q]
      PROVE  Active \ {r} = Active' \ {r}
  BY <1>4 DEF Active, At
<1>5. ASSUME NEW r \in Requests, Quiet(r), ~Submit(r)
      PROVE  SlotsKept'
  <2>1. ~At(r, "idle")
    BY <1>5 DEF Quiet, LookAtNothing, MatchWritten, MatchDecoded, ResemblesPrompt, Apply, At
  <2>2. QED
    BY <1>3, <1>4, <1>5, <2>1, QuietChange
<1>6. ASSUME NEW r \in Requests,
             Scan(r) \/ GramsAssign(r) \/ GramsLoad(r) \/ GramsStore(r)
      PROVE  SlotsKept'
  <2>1. \A q \in Requests : q # r => request'[q] = request[q]
    BY <1>6, ScanChange, AssignChange, LoadChange, StoreChange
  <2>2. ~At(r, "idle")
    BY <1>6 DEF Scan, GramsAssign, GramsLoad, GramsStore, At
  <2>3. QED
    BY <1>3, <1>4, <2>1, <2>2
<1>7. CASE EgressRestart
  <2>1. Active' = {}
    BY <1>7 DEF EgressRestart, Active, At, Idle
  <2>2. QED
    BY <1>1, <2>1
<1>8. CASE UNCHANGED egressVars
  BY <1>1, <1>8 DEF egressVars, Active, At
<1>9. QED
  BY <1>2, <1>5, <1>6, <1>7, <1>8 DEF EgressNext, Quiet

LEMMA SlotsKeptInvariant == EgressSpec => []SlotsKept
<1>1. EgressInit => SlotsKept
  <2> SUFFICES ASSUME EgressInit PROVE SlotsKept
    OBVIOUS
  <2>1. Active = {}
    BY DEF EgressInit, Active, At, Idle
  <2>2. QED
    BY <2>1, FS_EmptySet, SlotsAssumption DEF SlotsKept
<1>2. QED
  BY <1>1, SlotsKeptStep, ThreadsInvariant, PTL DEF EgressSpec

\* With two slots no three requests are inside one.
LEMMA TwoSlots ==
    ASSUME SlotsKept, MaxConcurrent <= 2,
           NEW a \in Active, NEW b \in Active, NEW c \in Active
    PROVE  a = b \/ b = c \/ a = c
<1> SUFFICES ASSUME a # b, b # c, a # c PROVE FALSE
  OBVIOUS
<1>1. IsFiniteSet(Active)
  BY SlotsAssumption, FS_Subset DEF Active
<1>2. Cardinality({a}) = 1 /\ IsFiniteSet({a})
  BY FS_Singleton
<1>3. Cardinality({a} \cup {b}) = 2 /\ IsFiniteSet({a} \cup {b})
  BY <1>2, FS_AddElement
<1>4. Cardinality(({a} \cup {b}) \cup {c}) = 3
  BY <1>3, FS_AddElement
<1>5. Cardinality(({a} \cup {b}) \cup {c}) <= Cardinality(Active)
  BY <1>1, FS_Subset
<1>6. Cardinality(Active) \in Nat
  BY <1>1, FS_CardinalityType
<1>7. 3 <= Cardinality(Active)
  BY <1>4, <1>5
<1>8. Cardinality(Active) <= MaxConcurrent /\ MaxConcurrent \in Nat
  BY SlotsAssumption DEF SlotsKept
<1>9. QED
  BY <1>6, <1>7, <1>8

-----------------------------------------------------------------------------
(* Egress: two requests collect the spans *)

\* The prompts the thread of r has added so far, to whichever set; the set it
\* adds the next one to.
Passed(r) == {PromptSeq[i] : i \in 1 .. request[r].next - 1}

Target(r) == IF At(r, "store") THEN request[r].loaded ELSE grams

\* Nobody but a brings another set back, or begins a new one.
Agreed(a) ==
    /\ Target(a) = grams
    /\ \A b \in Requests \ {a} : ~At(b, "assign") /\ (At(b, "store") => request[b].loaded = grams)

Shared ==
    \A a \in Requests :
        At(a, "load") \/ At(a, "store") => Passed(a) \subseteq content[Target(a)] \/ Agreed(a)

\* What no thread has left to add is in the set the global names, and in every set
\* it may name after a store.
PassedByAll == {p \in Prompts : \A r \in Requests : Building(r) => p \in Passed(r)}

Whole ==
    grams # None =>
        /\ PassedByAll \subseteq content[grams]
        /\ \A r \in Requests : At(r, "store") => PassedByAll \subseteq content[request[r].loaded]

WholeInv == Shared /\ Whole

\* A thread that is collecting is inside a slot.
LEMMA BuildingActive ==
    \A r \in Requests : Building(r) => r \in Active
  BY DEF Building, Active, At

\* Steps of a thread that collects neither before nor after.
LEMMA WholeAside ==
    ASSUME EgressTypeOK, ThreadsOK, WholeInv, NEW r \in Requests,
           \A q \in Requests : q # r => request'[q] = request[q],
           ~Building(r), ~Building(r)', UNCHANGED <<grams, content>>
    PROVE  WholeInv'
<1>1. \A q \in Requests : Building(q)' => q # r /\ request'[q] = request[q] /\ Building(q)
  BY DEF Building
<1>2. \A q \in Requests : Building(q) => q # r /\ request'[q] = request[q] /\ Building(q)'
  BY DEF Building
<1>3. PassedByAll' = PassedByAll
  BY <1>1, <1>2 DEF PassedByAll, Passed
<1>4. Whole'
  BY <1>1, <1>3 DEF WholeInv, Whole, Building, At
<1>5. ASSUME NEW a \in Requests, At(a, "load")' \/ At(a, "store")'
      PROVE  Passed(a)' \subseteq content'[Target(a)'] \/ Agreed(a)'
  <2>1. request'[a] = request[a] /\ Building(a) /\ (At(a, "load") \/ At(a, "store"))
    BY <1>1, <1>5 DEF Building, At
  <2>2. Passed(a)' = Passed(a) /\ Target(a)' = Target(a)
    BY <2>1 DEF Passed, Target, At
  <2>3. Agreed(a) => Agreed(a)'
    BY <1>1, <2>2 DEF Agreed, Building, At
  <2>4. QED
    BY <2>1, <2>2, <2>3 DEF WholeInv, Shared
<1>6. QED
  BY <1>4, <1>5 DEF WholeInv, Shared

LEMMA WholeAssign ==
    ASSUME EgressTypeOK, ThreadsOK, WholeInv, SlotsKept, MaxConcurrent <= 2,
           NEW r \in Requests, GramsAssign(r)
    PROVE  WholeInv'
<1>0. /\ grams' = r /\ content' = [content EXCEPT ![r] = {}]
      /\ request[r].pc = "assign" /\ r \in Active
      /\ request'[r].pc = IF PromptSeq = <<>> THEN "empty" ELSE "load"
      /\ request'[r].next = 1
      /\ \A q \in Requests : q # r => request'[q] = request[q]
  BY AssignChange DEF GramsAssign, At, Active
<1>1. Passed(r)' = {}
  BY <1>0 DEF Passed
<1>2. PassedByAll' = {}
  <2>1. CASE PromptSeq = <<>>
    BY <2>1 DEF PassedByAll, Prompts, Range
  <2>2. CASE PromptSeq # <<>>
    BY <1>0, <1>1, <2>2 DEF PassedByAll, Building
  <2>3. QED
    BY <2>1, <2>2
<1>3. Whole'
  BY <1>2 DEF Whole
<1>4. ASSUME NEW a \in Requests, a # r, At(a, "load") \/ At(a, "store")
      PROVE  \A b \in Requests \ {a} : b # r => ~At(b, "assign") /\ ~At(b, "store")
  BY <1>0, <1>4, TwoSlots DEF Active, At
<1>5. ASSUME NEW a \in Requests, At(a, "load")' \/ At(a, "store")'
      PROVE  Passed(a)' \subseteq content'[Target(a)'] \/ Agreed(a)'
  <2>1. CASE a = r
    BY <1>1, <2>1
  <2>2. CASE a # r /\ At(a, "load")'
    <3>1. At(a, "load") /\ Target(a)' = grams'
      BY <1>0, <2>2 DEF At, Target
    <3>2. QED
      BY <1>0, <1>4, <2>2, <3>1 DEF Agreed, At
  <2>3. CASE a # r /\ At(a, "store")'
    <3>1. /\ At(a, "store") /\ Target(a)' = Target(a) /\ Passed(a)' = Passed(a)
          /\ Target(a) \in Requests
      BY <1>0, <2>3 DEF At, Target, Passed, ThreadsOK, EgressTypeOK
    <3>2. Target(a) # r
      BY <1>0, <3>1 DEF ThreadsOK, Target, At
    <3>3. Passed(a) \subseteq content[Target(a)]
      BY <1>0, <2>3, <3>1 DEF WholeInv, Shared, Agreed, At
    <3>4. QED
      BY <1>0, <3>1, <3>2, <3>3 DEF EgressTypeOK
  <2>4. QED
    BY <1>5, <2>1, <2>2, <2>3
<1>6. QED
  BY <1>3, <1>5 DEF WholeInv, Shared

LEMMA WholeLoad ==
    ASSUME EgressTypeOK, ThreadsOK, WholeInv, NEW r \in Requests, GramsLoad(r)
    PROVE  WholeInv'
<1>0. /\ UNCHANGED <<grams, content>> /\ request[r].pc = "load"
      /\ request'[r].pc = "store" /\ request'[r].loaded = grams /\ grams # None
      /\ request'[r].next = request[r].next
      /\ \A q \in Requests : q # r => request'[q] = request[q]
  BY LoadChange, EgressAssumption DEF GramsLoad, At
<1>1. \A q \in Requests : /\ Passed(q)' = Passed(q) /\ Building(q)' = Building(q)
  BY <1>0 DEF Passed, Building
<1>2. PassedByAll' = PassedByAll
  BY <1>1 DEF PassedByAll
<1>3. Whole'
  BY <1>0, <1>2 DEF WholeInv, Whole, At
<1>4. ASSUME NEW a \in Requests, At(a, "load")' \/ At(a, "store")'
      PROVE  Passed(a)' \subseteq content'[Target(a)'] \/ Agreed(a)'
  <2>1. (At(a, "load") \/ At(a, "store")) /\ Target(a)' = Target(a)
    BY <1>0, <1>4 DEF At, Target
  <2>2. Agreed(a) => Agreed(a)'
    BY <1>0, <2>1 DEF Agreed, At
  <2>3. QED
    BY <1>0, <1>1, <2>1, <2>2 DEF WholeInv, Shared
<1>5. QED
  BY <1>3, <1>4 DEF WholeInv, Shared

LEMMA WholeStore ==
    ASSUME EgressTypeOK, ThreadsOK, WholeInv, SlotsKept, MaxConcurrent <= 2,
           NEW r \in Requests, GramsStore(r)
    PROVE  WholeInv'
<1> DEFINE s == request[r].loaded
           n == request[r].next
<1>0. /\ request[r].pc = "store" /\ r \in Active /\ Building(r) /\ At(r, "store")
      /\ s \in Requests /\ s # None /\ grams' = s /\ grams # None
      /\ n \in 1 .. Len(PromptSeq) /\ Len(PromptSeq) \in Nat
      /\ content'[s] = content[s] \cup {PromptSeq[n]}
      /\ \A q \in Requests : q # s => content'[q] = content[q]
      /\ \A q \in Requests : q # r => request'[q] = request[q]
      /\ \/ n = Len(PromptSeq) /\ request'[r].pc = "empty"
         \/ n < Len(PromptSeq) /\ request'[r].pc = "load" /\ request'[r].next = n + 1
  <2>1. request[r].pc = "store" /\ r \in Active /\ Building(r) /\ At(r, "store") /\ grams # None
    BY DEF GramsStore, Building, At, Active, ThreadsOK
  <2>2. s \in Requests /\ s # None
    BY StoreChange, EgressAssumption
  <2>3. /\ content'[s] = content[s] \cup {PromptSeq[n]}
        /\ \A q \in Requests : q # s => content'[q] = content[q]
    BY <2>2, StoreChange DEF EgressTypeOK
  <2>4. QED
    BY <2>1, <2>2, <2>3, StoreChange, PromptsInOrder
<1>1. \A q \in Requests : content[q] \subseteq content'[q]
  BY <1>0
<1>2. \A q \in Requests : q # r => /\ Passed(q)' = Passed(q) /\ Building(q)' = Building(q)
                                   /\ At(q, "store")' = At(q, "store")
  BY <1>0 DEF Passed, Building, At
<1>3. Target(r) = s
  BY <1>0 DEF Target
<1>4. request'[r].pc = "load" => Passed(r)' = Passed(r) \cup {PromptSeq[n]}
  BY SMTT(20), <1>0 DEF Passed
<1>5. request'[r].pc = "empty" => Prompts \subseteq Passed(r) \cup {PromptSeq[n]}
  <2>1. ASSUME n = Len(PromptSeq), NEW p \in Prompts
        PROVE  p \in Passed(r) \cup {PromptSeq[n]}
    BY <1>0, <2>1, PromptsInOrder DEF Passed
  <2>2. QED
    BY <1>0, <2>1
\* Two threads at a store add to one set, or each has all of its own in its own.
<1>6. ASSUME NEW a \in Requests, a # r, At(a, "store")
      PROVE  Passed(a) \subseteq content[request[a].loaded] \/ request[a].loaded = s
  BY <1>0, <1>6 DEF WholeInv, Shared, Agreed, Target, At
<1>7. PassedByAll' \subseteq PassedByAll \cup {PromptSeq[n]}
  BY <1>0, <1>2, <1>4, <1>5 DEF PassedByAll, Building
<1>8. Whole'
  <2>1. PassedByAll' \subseteq content'[s]
    BY <1>0, <1>7 DEF WholeInv, Whole
  <2>2. ASSUME NEW a \in Requests, At(a, "store")'
        PROVE  PassedByAll' \subseteq content'[request'[a].loaded]
    <3>1. a # r /\ At(a, "store") /\ request'[a].loaded = request[a].loaded
      BY <1>0, <2>2 DEF At
    <3>2. request[a].loaded \in Requests
      BY <3>1 DEF ThreadsOK, EgressTypeOK
    <3>3. PassedByAll' \subseteq Passed(a)
      BY <1>2, <2>2, <3>1 DEF PassedByAll, Building, At
    <3>4. QED
      BY <1>1, <1>6, <2>1, <3>1, <3>2, <3>3
  <2>3. QED
    BY <1>0, <2>1, <2>2 DEF Whole
<1>9. ASSUME NEW a \in Requests, At(a, "load")' \/ At(a, "store")'
      PROVE  Passed(a)' \subseteq content'[Target(a)'] \/ Agreed(a)'
  <2>1. CASE a = r
    <3>1. At(r, "load")' /\ Target(r)' = s
      BY <1>0, <1>9, <2>1 DEF At, Target
    <3>2. CASE Passed(r) \subseteq content[s]
      BY <1>0, <1>4, <2>1, <3>1, <3>2 DEF At
    <3>3. CASE Agreed(r)
      BY <1>0, <1>3, <2>1, <3>1, <3>3 DEF Agreed, At
    <3>4. QED
      BY <1>0, <1>3, <3>2, <3>3 DEF WholeInv, Shared
  <2>2. CASE a # r /\ At(a, "load")'
    <3>1. At(a, "load") /\ Target(a)' = grams'
      BY <1>0, <2>2 DEF At, Target
    <3>2. \A b \in Requests \ {a} : ~At(b, "assign")' /\ ~At(b, "store")'
      BY <1>0, <2>2, <3>1, TwoSlots DEF At, Active
    <3>3. QED
      BY <3>1, <3>2 DEF Agreed
  <2>3. CASE a # r /\ At(a, "store")'
    <3>1. At(a, "store") /\ Target(a)' = Target(a) /\ Target(a) = request[a].loaded
      BY <1>0, <2>3 DEF At, Target
    <3>2. Target(a) \in Requests
      BY <3>1 DEF ThreadsOK, EgressTypeOK
    <3>3. CASE Passed(a) \subseteq content[Target(a)]
      BY <1>1, <1>2, <2>3, <3>1, <3>2, <3>3
    <3>4. CASE Agreed(a)
      <4>1. Target(a)' = grams' /\ s = grams
        BY <1>0, <2>3, <3>1, <3>4 DEF Agreed, At
      <4>2. \A b \in Requests \ {a} : b # r => ~At(b, "assign") /\ ~At(b, "store")
        BY <1>0, <2>3, <3>1, TwoSlots DEF At, Active
      <4>3. QED
        BY <1>0, <4>1, <4>2 DEF Agreed, At
    <3>5. QED
      BY <3>1, <3>3, <3>4 DEF WholeInv, Shared
  <2>4. QED
    BY <1>9, <2>1, <2>2, <2>3
<1>10. QED
  BY <1>8, <1>9 DEF WholeInv, Shared

LEMMA WholeStep ==
    ASSUME EgressTypeOK, ThreadsOK, WholeInv, SlotsKept, MaxConcurrent <= 2,
           [EgressNext]_egressVars
    PROVE  WholeInv'
<1>1. ASSUME NEW r \in Requests, Quiet(r)
      PROVE  WholeInv'
  BY <1>1, QuietChange, WholeAside
<1>2. ASSUME NEW r \in Requests, Scan(r)
      PROVE  WholeInv'
  <2>1. CASE grams = None
    <3>1. grams' = None /\ \A q \in Requests : ~At(q, "load")' /\ ~At(q, "store")'
      BY <1>2, <2>1, ScanChange DEF ThreadsOK, At
    <3>2. QED
      BY <3>1 DEF WholeInv, Shared, Whole
  <2>2. CASE grams # None
    BY <1>2, <2>2, ScanChange, WholeAside DEF Building
  <2>3. QED
    BY <2>1, <2>2
<1>3. CASE EgressRestart
  BY <1>3 DEF EgressRestart, WholeInv, Shared, Whole, At, Idle
<1>4. CASE UNCHANGED egressVars
  BY <1>4 DEF egressVars, WholeInv, Shared, Whole, PassedByAll, Passed, Target, Agreed, Building, At
<1>5. QED
  BY <1>1, <1>2, <1>3, <1>4, WholeAssign, WholeLoad, WholeStore DEF EgressNext, Quiet

LEMMA WholeInvariant ==
    ASSUME MaxConcurrent <= 2
    PROVE  EgressSpec => []WholeInv
<1>1. EgressInit => WholeInv
  BY DEF EgressInit, WholeInv, Shared, Whole, At, Idle
<1>2. EgressTypeOK /\ ThreadsOK /\ SlotsKept /\ WholeInv /\ [EgressNext]_egressVars => WholeInv'
  BY WholeStep
<1>3. QED
  BY <1>1, <1>2, ThreadsInvariant, SlotsKeptInvariant, PTL DEF EgressSpec

LEMMA WholeCache ==
    ASSUME EgressTypeOK, WholeInv
    PROVE  CacheIsWhole
  BY DEF EgressTypeOK, WholeInv, Whole, PassedByAll, CacheIsWhole

\* However many requests there are and prompts to collect: on two slots, the
\* default of MAX_CONCURRENT_GENERATIONS, the set is whole once nobody collects.
THEOREM EgressCache ==
    ASSUME MaxConcurrent <= 2
    PROVE  EgressSpec => []CacheIsWhole
  BY WholeInvariant, WholeCache, ThreadsInvariant, PTL

\* On two slots, a look at an answer passes a quote only while the other request
\* collects the spans.
THEOREM EgressMisses ==
    ASSUME MaxConcurrent <= 2
    PROVE  EgressSpec => MissesOnlyWhileBuilding
<1> DEFINE Misses ==
      \A r \in Requests :
          /\ Quoted(request[r].text, LookedFor(request[r].pc)) # {}
          /\ request'[r].pc \in {"decoded", "resembles"} \ {request[r].pc}
          => \E q \in Requests \ {r} : Building(q)
<1>1. EgressTypeOK /\ ThreadsOK /\ CacheIsWhole /\ [EgressNext]_egressVars => [Misses]_egressVars
  <2> SUFFICES ASSUME EgressTypeOK, ThreadsOK, CacheIsWhole, EgressNext,
                      NEW r \in Requests,
                      Quoted(request[r].text, LookedFor(request[r].pc)) # {},
                      request'[r].pc \in {"decoded", "resembles"} \ {request[r].pc}
               PROVE  \E q \in Requests \ {r} : Building(q)
    BY DEF egressVars
  <2>1. /\ request[r].pc \in {"empty", "written", "decoded"}
        /\ LookedFor(request[r].pc) \subseteq {"plain", "coded"}
    BY DEF LookedFor, Quoted
  <2>2. LookAtNothing(r) \/ MatchWritten(r) \/ MatchDecoded(r)
    <3>1. ASSUME NEW q \in Requests, q # r,
                 Quiet(q) \/ Scan(q) \/ GramsAssign(q) \/ GramsLoad(q) \/ GramsStore(q)
          PROVE  FALSE
      BY <3>1, QuietChange, ScanChange, AssignChange, LoadChange, StoreChange
    <3>2. ~EgressRestart
      BY DEF EgressRestart, Idle
    <3>3. QED
      BY ZenonT(30), <2>1, <3>1, <3>2 DEF EgressNext, Quiet, Submit, Scan, GramsAssign, GramsLoad, GramsStore,
                              ResemblesPrompt, Apply, At
  <2>3. grams # None /\ ~Building(r)
    BY <2>1 DEF ThreadsOK, Building
  <2>4. ASSUME \A q \in Requests : ~Building(q)
        PROVE  FALSE
    <3>1. content[grams] = Prompts
      BY <2>3, <2>4 DEF CacheIsWhole
    <3>2. content[grams] \cap Quoted(request[r].text, LookedFor(request[r].pc)) # {}
      BY <3>1 DEF Quoted
    <3>3. content[grams] # {}
      BY <3>2
    <3>4. QED
      BY <2>2, <3>2, <3>3 DEF LookAtNothing, MatchWritten, MatchDecoded, Match, Goto, At,
                              LookedFor, EgressTypeOK
  <2>5. QED
    BY <2>3, <2>4
<1>2. QED
  BY <1>1, EgressCache, ThreadsInvariant, PTL DEF EgressSpec, MissesOnlyWhileBuilding
=============================================================================
