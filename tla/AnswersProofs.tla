---------------------------- MODULE AnswersProofs ----------------------------
(***************************************************************************)
(* Theorems about Answers: types, what a served answer rests on, and what  *)
(* a question may cost, for any requests, documents and limits.            *)
(***************************************************************************)
EXTENDS Answers, Spans, TLAPS

(* A request inside a tool call has that call pending. *)
InTool(q) == \/ q.pc = "tool"
             \/ agentic /\ q.pc \in {"search", "uploads", "found"}

LoopOK == \A r \in Requests : InTool(req[r]) => agentic /\ req[r].pending > 0

TypeInv == TypeOK /\ LoopOK

-----------------------------------------------------------------------------
(* A step of one request replaces its record, and perhaps its outcome and    *)
(* its cost. *)

LEMMA RequestIs ==
    ASSUME NEW pc, NEW rounds, NEW pending, NEW budget, NEW hits, NEW kept
    PROVE  LET q == Request(pc, rounds, pending, budget, hits, kept) IN
           /\ q.pc = pc /\ q.rounds = rounds /\ q.pending = pending
           /\ q.budget = budget /\ q.hits = hits /\ q.kept = kept
  BY DEF Request

LEMMA RequestType ==
    ASSUME NEW pc \in {"idle", "search", "uploads", "found", "model", "tool"},
           NEW rounds \in 0 .. MaxIters, NEW pending \in 0 .. RoundCalls,
           NEW budget \in 0 .. MaxCalls, NEW hits \in SUBSET Hits, NEW kept \in SUBSET Docs
    PROVE  Request(pc, rounds, pending, budget, hits, kept) \in RequestStates
  BY DEF Request, RequestStates

LEMMA IdleType == NoRequest \in RequestStates /\ ~InTool(NoRequest) /\ NoRequest.pc = "idle"
<1>1. 0 \in 0 .. MaxIters /\ 0 \in 0 .. RoundCalls /\ 0 \in 0 .. MaxCalls
  BY AnswersAssumption
<1>2. NoRequest \in RequestStates
  BY <1>1, RequestType DEF NoRequest
<1>3. QED
  BY <1>2 DEF NoRequest, InTool, Request

LEMMA RefusalType == Refusal \in Outcomes
  BY DEF Refusal, Outcome, Outcomes, Figures

LEMMA AnsweredType ==
    ASSUME TypeInv, NEW r \in Requests, NEW o \in Outcomes, Answered(r, o)
    PROVE  /\ req' \in [Requests -> RequestStates]
           /\ out' \in [Requests -> Outcomes]
           /\ vouched' \in [Requests -> SUBSET Docs]
           /\ agentic' = agentic => LoopOK'
<1>1. req' \in [Requests -> RequestStates] /\ out' \in [Requests -> Outcomes]
      /\ vouched' \in [Requests -> SUBSET Docs]
  BY IdleType DEF Answered, TypeInv, TypeOK
<1>2. ASSUME agentic' = agentic PROVE LoopOK'
  BY <1>2, IdleType DEF Answered, TypeInv, TypeOK, LoopOK, InTool
<1>3. QED
  BY <1>1, <1>2

LEMMA MovedType ==
    ASSUME TypeInv, NEW r \in Requests, NEW q \in RequestStates,
           req' = [req EXCEPT ![r] = q], agentic' = agentic,
           InTool(q) => agentic /\ q.pending > 0
    PROVE  req' \in [Requests -> RequestStates] /\ LoopOK'
  BY DEF TypeInv, TypeOK, LoopOK, InTool

LEMMA CostMoved ==
    ASSUME TypeInv, NEW r \in Requests,
           \/ cost' = cost
           \/ cost' = [cost EXCEPT ![r] = Cost(0, 0)]
           \/ cost' = [cost EXCEPT ![r] = Cost(cost[r].asks + 1, cost[r].searches)]
           \/ cost' = [cost EXCEPT ![r] = Cost(cost[r].asks, cost[r].searches + 1)]
    PROVE  cost' \in [Requests -> [asks : Nat, searches : Nat]]
<1>1. cost[r].asks \in Nat /\ cost[r].searches \in Nat
  BY DEF TypeInv, TypeOK
<1>2. /\ Cost(0, 0) \in [asks : Nat, searches : Nat]
      /\ Cost(cost[r].asks + 1, cost[r].searches) \in [asks : Nat, searches : Nat]
      /\ Cost(cost[r].asks, cost[r].searches + 1) \in [asks : Nat, searches : Nat]
  BY <1>1 DEF Cost
<1>3. QED
  BY <1>2 DEF TypeInv, TypeOK

LEMMA Fields ==
    ASSUME TypeInv, NEW r \in Requests
    PROVE  /\ req[r].pc \in {"idle", "search", "uploads", "found", "model", "tool"}
           /\ req[r].rounds \in 0 .. MaxIters
           /\ req[r].pending \in 0 .. RoundCalls
           /\ req[r].budget \in 0 .. MaxCalls
           /\ req[r].hits \in SUBSET Hits
           /\ req[r].kept \in SUBSET Docs
           /\ MaxIters \in Nat /\ RoundCalls \in Nat /\ MaxCalls \in Nat
  BY AnswersAssumption DEF TypeInv, TypeOK, RequestStates

\* Whatever the reason, a text that is withheld was drafted and becomes a refusal.
LEMMA WithheldRefuses ==
    ASSUME NEW r \in Requests, Withheld(r)
    PROVE  Drafted(r) /\ Answered(r, Refusal)
  BY DEF Withheld, ModelGone, Ungrounded, Unsupported, Unentailed, Blocked

LEMMA FoundType ==
    ASSUME TypeInv, NEW class, class \subseteq Docs, NEW found \in SearchResults(class)
    PROVE  AsHits(found) \in SUBSET Hits
  BY DEF TypeInv, TypeOK, SearchResults, AsHits, Hits

LEMMA CutType ==
    ASSUME NEW hits \in SUBSET Hits, NEW cut \in Cuts(Passing(hits))
    PROVE  cut \in SUBSET Docs
  BY DEF Cuts, Passing, Hits

LEMMA TypeStep ==
    ASSUME TypeInv, NEW r \in Requests, Step(r)
    PROVE  TypeInv'
<1> USE Fields
<1>a. agentic' = agentic /\ index' = index /\ changes' = changes
  BY WithheldRefuses DEF Step, SearchCurated, SearchUploads, AgentKeeps, PipelineKeeps, NothingKept,
         RequestTools, CallDenied, CallGranted, Fails, PipelineServes,
         AgentServes, Drafted
<1>b. ASSUME req' \in [Requests -> RequestStates] /\ LoopOK',
             out' \in [Requests -> Outcomes], vouched' \in [Requests -> SUBSET Docs],
             \/ cost' = cost
             \/ cost' = [cost EXCEPT ![r] = Cost(cost[r].asks + 1, cost[r].searches)]
             \/ cost' = [cost EXCEPT ![r] = Cost(cost[r].asks, cost[r].searches + 1)]
      PROVE  TypeInv'
  <2>1. cost' \in [Requests -> [asks : Nat, searches : Nat]]
    BY <1>b, CostMoved
  <2>2. QED
    BY <1>a, <1>b, <2>1 DEF TypeInv, TypeOK
<1>c. out \in [Requests -> Outcomes] /\ vouched \in [Requests -> SUBSET Docs]
  BY DEF TypeInv, TypeOK
<1>1. CASE SearchCurated(r)
  <2>1. PICK found \in SearchResults(CuratedDocs) :
           req' = [req EXCEPT ![r] = Request("uploads", req[r].rounds, req[r].pending,
                                             req[r].budget, AsHits(found), req[r].kept)]
    BY <1>1 DEF SearchCurated
  <2> DEFINE q == Request("uploads", req[r].rounds, req[r].pending,
                          req[r].budget, AsHits(found), req[r].kept)
  <2>2. q \in RequestStates
    BY <2>1, FoundType, RequestType, AnswersAssumption
  <2>3. InTool(q) => agentic /\ q.pending > 0
    BY <1>1 DEF SearchCurated, TypeInv, LoopOK, InTool, Request
  <2>4. req' \in [Requests -> RequestStates] /\ LoopOK'
    <3> HIDE DEF q
    <3> QED BY <1>a, <2>1, <2>2, <2>3, MovedType DEF q
  <2>5. QED
    BY <1>1, <1>b, <1>c, <2>4 DEF SearchCurated
<1>2. CASE SearchUploads(r)
  <2>1. PICK found \in SearchResults(Docs \ CuratedDocs) :
           req' = [req EXCEPT ![r] = Request("found", req[r].rounds, req[r].pending,
                                             req[r].budget, req[r].hits \cup AsHits(found),
                                             req[r].kept)]
    BY <1>2 DEF SearchUploads
  <2> DEFINE q == Request("found", req[r].rounds, req[r].pending,
                          req[r].budget, req[r].hits \cup AsHits(found), req[r].kept)
  <2>2. AsHits(found) \in SUBSET Hits
    BY <2>1, FoundType
  <2>3. q \in RequestStates
    BY <2>2, RequestType
  <2>4. InTool(q) => agentic /\ q.pending > 0
    BY <1>2 DEF SearchUploads, TypeInv, LoopOK, InTool, Request
  <2>5. req' \in [Requests -> RequestStates] /\ LoopOK'
    <3> HIDE DEF q
    <3> QED BY <1>a, <2>1, <2>3, <2>4, MovedType DEF q
  <2>6. QED
    BY <1>2, <1>b, <1>c, <2>5 DEF SearchUploads
<1>3. CASE AgentKeeps(r)
  <2>1. PICK cut \in Cuts(Passing(req[r].hits)) :
           req' = [req EXCEPT ![r] = Request(NextCall(req[r].pending), req[r].rounds,
                                             req[r].pending - 1, req[r].budget, {},
                                             req[r].kept \cup cut)]
    BY <1>3 DEF AgentKeeps
  <2> DEFINE q == Request(NextCall(req[r].pending), req[r].rounds,
                          req[r].pending - 1, req[r].budget, {}, req[r].kept \cup cut)
  <2>2. cut \in SUBSET Docs
    BY <2>1, CutType
  <2>3. agentic /\ req[r].pending > 0
    BY <1>3 DEF AgentKeeps, TypeInv, LoopOK, InTool
  <2>4. req[r].pending - 1 \in 0 .. RoundCalls /\ NextCall(req[r].pending) \in {"tool", "model"}
    BY <2>3 DEF NextCall
  <2>5. q \in RequestStates
    BY <2>2, <2>4, RequestType
  <2>6. InTool(q) => agentic /\ q.pending > 0
    BY <2>3, RequestIs DEF InTool, NextCall
  <2>7. req' \in [Requests -> RequestStates] /\ LoopOK'
    <3> HIDE DEF q
    <3> QED BY <1>a, <2>1, <2>5, <2>6, MovedType DEF q
  <2>8. QED
    BY <1>3, <1>b, <1>c, <2>7 DEF AgentKeeps
<1>4. CASE PipelineKeeps(r)
  <2>1. PICK cut \in Cuts(Passing(req[r].hits)) :
           req' = [req EXCEPT ![r] = Request("model", 0, 0, req[r].budget, {}, cut)]
    BY <1>4 DEF PipelineKeeps
  <2> DEFINE q == Request("model", 0, 0, req[r].budget, {}, cut)
  <2>2. cut \in SUBSET Docs
    BY <2>1, CutType
  <2>3. q \in RequestStates
    BY <2>2, RequestType
  <2>4. ~InTool(q)
    BY DEF InTool, Request
  <2>5. req' \in [Requests -> RequestStates] /\ LoopOK'
    <3> HIDE DEF q
    <3> QED BY <1>a, <2>1, <2>3, <2>4, MovedType DEF q
  <2>6. QED
    BY <1>4, <1>b, <1>c, <2>5 DEF PipelineKeeps
<1>5. CASE RequestTools(r)
  <2>1. PICK n \in 1 .. RoundCalls :
           req' = [req EXCEPT ![r] = Request("tool", req[r].rounds + 1, n,
                                             req[r].budget, {}, req[r].kept)]
    BY <1>5 DEF RequestTools
  <2> DEFINE q == Request("tool", req[r].rounds + 1, n, req[r].budget, {}, req[r].kept)
  <2>2. req[r].rounds + 1 \in 0 .. MaxIters /\ n \in 0 .. RoundCalls
    BY <1>5 DEF RequestTools
  <2>3. q \in RequestStates
    BY <2>2, RequestType
  <2>4. InTool(q) => agentic /\ q.pending > 0
    BY <1>5, RequestIs DEF RequestTools
  <2>5. req' \in [Requests -> RequestStates] /\ LoopOK'
    <3> HIDE DEF q
    <3> QED BY <1>a, <2>1, <2>3, <2>4, MovedType DEF q
  <2>6. QED
    BY <1>5, <1>b, <1>c, <2>5 DEF RequestTools
<1>6. CASE CallDenied(r)
  <2> DEFINE q == Request(NextCall(req[r].pending), req[r].rounds,
                          req[r].pending - 1, req[r].budget, {}, req[r].kept)
  <2>1. req' = [req EXCEPT ![r] = q]
    BY <1>6 DEF CallDenied
  <2>2. agentic /\ req[r].pending > 0
    BY <1>6 DEF CallDenied, TypeInv, LoopOK, InTool
  <2>3. req[r].pending - 1 \in 0 .. RoundCalls /\ NextCall(req[r].pending) \in {"tool", "model"}
    BY <2>2 DEF NextCall
  <2>4. q \in RequestStates
    BY <2>3, RequestType
  <2>5. InTool(q) => agentic /\ q.pending > 0
    BY <2>2, RequestIs DEF InTool, NextCall
  <2>6. req' \in [Requests -> RequestStates] /\ LoopOK'
    <3> HIDE DEF q
    <3> QED BY <1>a, <2>1, <2>4, <2>5, MovedType
  <2>7. QED
    BY <1>6, <1>b, <1>c, <2>6 DEF CallDenied
<1>7. CASE CallGranted(r)
  <2> DEFINE q == Request("search", req[r].rounds, req[r].pending,
                          req[r].budget - 1, {}, req[r].kept)
  <2>1. req' = [req EXCEPT ![r] = q]
    BY <1>7 DEF CallGranted
  <2>2. req[r].budget - 1 \in 0 .. MaxCalls /\ agentic /\ req[r].pending > 0
    BY <1>7 DEF CallGranted, TypeInv, LoopOK, InTool
  <2>3. q \in RequestStates
    BY <2>2, RequestType
  <2>4. InTool(q) => agentic /\ q.pending > 0
    BY <2>2, RequestIs DEF InTool
  <2>5. req' \in [Requests -> RequestStates] /\ LoopOK'
    <3> HIDE DEF q
    <3> QED BY <1>a, <2>1, <2>3, <2>4, MovedType
  <2>6. QED
    BY <1>7, <1>b, <1>c, <2>5 DEF CallGranted
<1>8. CASE NothingKept(r) \/ Withheld(r) \/ Fails(r)
  <2>1. Answered(r, Refusal)
    BY <1>8, WithheldRefuses DEF NothingKept, Fails
  <2>2. \/ cost' = cost
        \/ cost' = [cost EXCEPT ![r] = Cost(cost[r].asks + 1, cost[r].searches)]
    BY <1>8, WithheldRefuses DEF NothingKept, Fails, Drafted
  <2>3. QED
    BY <1>a, <1>b, <2>1, <2>2, RefusalType, AnsweredType
<1>9. ASSUME NEW figures \in Figures, PipelineServes(r, figures) \/ AgentServes(r, figures)
      PROVE  TypeInv'
  <2>1. PICK o \in Outcomes : Answered(r, o)
    BY <1>9 DEF PipelineServes, AgentServes, Outcome, Outcomes
  <2>2. cost' = [cost EXCEPT ![r] = Cost(cost[r].asks + 1, cost[r].searches)]
    BY <1>9 DEF PipelineServes, AgentServes, Drafted
  <2>3. QED
    BY <1>a, <1>b, <2>1, <2>2, AnsweredType
<1>10. QED
  BY <1>1, <1>2, <1>3, <1>4, <1>5, <1>6, <1>7, <1>8, <1>9 DEF Step

LEMMA TypeAsk ==
    ASSUME TypeInv, NEW r \in Requests, Ask(r)
    PROVE  TypeInv'
<1> DEFINE q == Request(IF agentic THEN "model" ELSE "search", 0, 0, MaxCalls, {}, {})
<1>1. req' = [req EXCEPT ![r] = q] /\ agentic' = agentic
  BY DEF Ask
<1>2. q \in RequestStates
  <2>1. MaxCalls \in 0 .. MaxCalls
    BY AnswersAssumption
  <2>2. QED
    BY <2>1, RequestType, Fields, AnswersAssumption
<1>3. InTool(q) => agentic /\ q.pending > 0
  BY RequestIs DEF InTool
<1>4. req' \in [Requests -> RequestStates] /\ LoopOK'
  <2> HIDE DEF q
  <2> QED BY <1>1, <1>2, <1>3, MovedType
<1>5. out' \in [Requests -> Outcomes] /\ vouched' \in [Requests -> SUBSET Docs]
  BY RefusalType DEF Ask, TypeInv, TypeOK
<1>6. cost' \in [Requests -> [asks : Nat, searches : Nat]]
  BY CostMoved DEF Ask
<1>7. QED
  BY <1>4, <1>5, <1>6 DEF Ask, TypeInv, TypeOK

LEMMA TypeChange ==
    ASSUME TypeInv, NEW d \in Docs, NEW state \in {"absent", "curated", "pending", "reviewed"},
           ChangeIndex(d, state)
    PROVE  TypeInv'
<1>1. changes' \in 0 .. MaxChanges
  BY AnswersAssumption DEF ChangeIndex, TypeInv, TypeOK
<1>2. index' \in [Docs -> {"absent", "curated", "pending", "reviewed"}]
  BY DEF ChangeIndex, TypeInv, TypeOK
<1>3. vouched' \in [Requests -> SUBSET Docs]
  BY DEF ChangeIndex, TypeInv, TypeOK
<1>4. LoopOK'
  BY DEF ChangeIndex, TypeInv, LoopOK, InTool
<1>5. QED
  BY <1>1, <1>2, <1>3, <1>4 DEF ChangeIndex, TypeInv, TypeOK

LEMMA TypeInvariant == Spec => []TypeInv
<1>1. Init => TypeInv
  <2> SUFFICES ASSUME Init PROVE TypeInv
    OBVIOUS
  <2>1. req \in [Requests -> RequestStates] /\ LoopOK
    BY IdleType DEF Init, LoopOK
  <2>2. out \in [Requests -> Outcomes]
    BY RefusalType DEF Init
  <2>3. changes \in 0 .. MaxChanges /\ cost \in [Requests -> [asks : Nat, searches : Nat]]
    BY AnswersAssumption DEF Init, Cost
  <2>4. QED
    BY <2>1, <2>2, <2>3 DEF Init, TypeInv, TypeOK
<1>2. TypeInv /\ [Next]_vars => TypeInv'
  <2> SUFFICES ASSUME TypeInv, [Next]_vars PROVE TypeInv'
    OBVIOUS
  <2>1. ASSUME NEW r \in Requests, QueryBlocked(r) PROVE TypeInv'
    BY <2>1, RefusalType, AnsweredType DEF QueryBlocked, TypeInv, TypeOK
  <2>2. CASE UNCHANGED vars
    BY <2>2 DEF vars, TypeInv, TypeOK, LoopOK, InTool
  <2>3. QED
    BY <2>1, <2>2, TypeStep, TypeAsk, TypeChange DEF Next
<1>3. QED
  BY <1>1, <1>2, PTL DEF Spec

\* The model's values stay in their types, for any requests, documents and
\* limits: budgets never go below zero, rounds never above MaxIters.
THEOREM AnswersTypeOK == Spec => []TypeOK
  BY TypeInvariant, PTL DEF TypeInv

-----------------------------------------------------------------------------
(* What an answer rests on *)

\* What a request q has in hand, given the documents v that were trusted since
\* it came: everything trusted now counts, every hit that looks trusted was, and
\* what was kept passed the gates.
EvidenceOK(q, v) ==
    q.pc # "idle" =>
        /\ {d \in Docs : index[d] \in Trusted} \subseteq v
        /\ \A h \in q.hits : h.doc \in Readable /\ (h.review \in Trusted => h.doc \in v)
        /\ q.kept \subseteq (v \cap Readable) \ Hostile
        /\ agentic => q.kept \cap OffTopic = {}
        /\ ~agentic /\ q.pc = "model" => q.kept # {}

EvidenceInv == \A r \in Requests : EvidenceOK(req[r], vouched[r])

LEMMA EvidenceMoved ==
    ASSUME TypeInv, EvidenceInv, NEW r \in Requests, NEW q, NEW v,
           req' = [req EXCEPT ![r] = q], vouched' = [vouched EXCEPT ![r] = v],
           agentic' = agentic, index' = index, EvidenceOK(q, v)
    PROVE  EvidenceInv'
<1>1. \A s \in Requests : EvidenceOK(req'[s], vouched'[s])
  BY DEF TypeInv, TypeOK, EvidenceInv
<1>2. QED
  BY <1>1 DEF EvidenceInv, EvidenceOK

LEMMA EvidenceKept ==
    ASSUME TypeInv, EvidenceInv, NEW r \in Requests, NEW q,
           req' = [req EXCEPT ![r] = q], vouched' = vouched,
           agentic' = agentic, index' = index, EvidenceOK(q, vouched[r])
    PROVE  EvidenceInv'
<1>1. \A s \in Requests : EvidenceOK(req'[s], vouched'[s])
  BY DEF TypeInv, TypeOK, EvidenceInv
<1>2. QED
  BY <1>1 DEF EvidenceInv, EvidenceOK

LEMMA EvidenceAnswered ==
    ASSUME TypeInv, EvidenceInv, NEW r \in Requests, NEW o, Answered(r, o),
           agentic' = agentic, index' = index
    PROVE  EvidenceInv'
<1>1. EvidenceOK(NoRequest, {})
  BY DEF EvidenceOK, NoRequest, Request
<1>2. QED
  BY <1>1, EvidenceMoved DEF Answered

\* A hit of a search that looks trusted is trusted now.
LEMMA FoundOK ==
    ASSUME NEW class, class \subseteq Docs, NEW found \in SearchResults(class),
           NEW v, {d \in Docs : index[d] \in Trusted} \subseteq v
    PROVE  \A h \in AsHits(found) :
               h.doc \in Readable /\ (h.review \in Trusted => h.doc \in v)
  BY DEF SearchResults, AsHits

LEMMA CutOK ==
    ASSUME NEW hits \in SUBSET Hits, NEW v, NEW cut \in Cuts(Passing(hits)),
           \A h \in hits : h.doc \in Readable /\ (h.review \in Trusted => h.doc \in v)
    PROVE  /\ cut \subseteq (v \cap Readable) \ Hostile
           /\ agentic => cut \cap OffTopic = {}
<1>1. cut \subseteq Passing(hits)
  BY DEF Cuts
<1>2. QED
  BY <1>1 DEF Passing, IsTrusted

LEMMA EvidenceStep ==
    ASSUME TypeInv, EvidenceInv, NEW r \in Requests, Step(r)
    PROVE  EvidenceInv'
<1> USE Fields
<1>a. agentic' = agentic /\ index' = index
  BY WithheldRefuses DEF Step, SearchCurated, SearchUploads, AgentKeeps, PipelineKeeps, NothingKept,
         RequestTools, CallDenied, CallGranted, Fails, PipelineServes,
         AgentServes, Drafted
<1>b. EvidenceOK(req[r], vouched[r])
  BY DEF EvidenceInv
<1>1. CASE SearchCurated(r)
  <2>1. PICK found \in SearchResults(CuratedDocs) :
           req' = [req EXCEPT ![r] = Request("uploads", req[r].rounds, req[r].pending,
                                             req[r].budget, AsHits(found), req[r].kept)]
    BY <1>1 DEF SearchCurated
  <2> DEFINE q == Request("uploads", req[r].rounds, req[r].pending,
                          req[r].budget, AsHits(found), req[r].kept)
  <2>2. q.pc = "uploads" /\ q.hits = AsHits(found) /\ q.kept = req[r].kept
    BY DEF Request
  <2> HIDE DEF q
  <2>3. req[r].pc # "idle"
    BY <1>1 DEF SearchCurated
  <2>4. {d \in Docs : index[d] \in Trusted} \subseteq vouched[r]
    BY <1>b, <2>3 DEF EvidenceOK
  <2>5. \A h \in AsHits(found) :
           h.doc \in Readable /\ (h.review \in Trusted => h.doc \in vouched[r])
    BY <2>1, <2>4, FoundOK, AnswersAssumption
  <2>6. EvidenceOK(q, vouched[r])
    BY <1>b, <2>2, <2>3, <2>5 DEF EvidenceOK
  <2>7. QED
    BY <1>1, <1>a, <2>1, <2>6, EvidenceKept DEF SearchCurated, q
<1>2. CASE SearchUploads(r)
  <2>1. PICK found \in SearchResults(Docs \ CuratedDocs) :
           req' = [req EXCEPT ![r] = Request("found", req[r].rounds, req[r].pending,
                                             req[r].budget, req[r].hits \cup AsHits(found),
                                             req[r].kept)]
    BY <1>2 DEF SearchUploads
  <2> DEFINE q == Request("found", req[r].rounds, req[r].pending,
                          req[r].budget, req[r].hits \cup AsHits(found), req[r].kept)
  <2>2. q.pc = "found" /\ q.hits = req[r].hits \cup AsHits(found) /\ q.kept = req[r].kept
    BY DEF Request
  <2> HIDE DEF q
  <2>3. req[r].pc # "idle"
    BY <1>2 DEF SearchUploads
  <2>4. {d \in Docs : index[d] \in Trusted} \subseteq vouched[r]
    BY <1>b, <2>3 DEF EvidenceOK
  <2>5. \A h \in AsHits(found) :
           h.doc \in Readable /\ (h.review \in Trusted => h.doc \in vouched[r])
    BY <2>1, <2>4, FoundOK
  <2>6. EvidenceOK(q, vouched[r])
    BY <1>b, <2>2, <2>3, <2>5 DEF EvidenceOK
  <2>7. QED
    BY <1>2, <1>a, <2>1, <2>6, EvidenceKept DEF SearchUploads, q
<1>3. CASE AgentKeeps(r)
  <2>1. PICK cut \in Cuts(Passing(req[r].hits)) :
           req' = [req EXCEPT ![r] = Request(NextCall(req[r].pending), req[r].rounds,
                                             req[r].pending - 1, req[r].budget, {},
                                             req[r].kept \cup cut)]
    BY <1>3 DEF AgentKeeps
  <2> DEFINE q == Request(NextCall(req[r].pending), req[r].rounds,
                          req[r].pending - 1, req[r].budget, {}, req[r].kept \cup cut)
  <2>2. q.hits = {} /\ q.kept = req[r].kept \cup cut
    BY DEF Request
  <2> HIDE DEF q
  <2>3. /\ cut \subseteq (vouched[r] \cap Readable) \ Hostile
        /\ agentic => cut \cap OffTopic = {}
    BY <1>3, <1>b, <2>1, CutOK DEF AgentKeeps, EvidenceOK
  <2>4. EvidenceOK(q, vouched[r])
    BY <1>3, <1>b, <2>2, <2>3 DEF AgentKeeps, EvidenceOK
  <2>5. QED
    BY <1>3, <1>a, <2>1, <2>4, EvidenceKept DEF AgentKeeps, q
<1>4. CASE PipelineKeeps(r)
  <2>1. PICK cut \in Cuts(Passing(req[r].hits)) :
           /\ cut # {}
           /\ req' = [req EXCEPT ![r] = Request("model", 0, 0, req[r].budget, {}, cut)]
    BY <1>4 DEF PipelineKeeps
  <2> DEFINE q == Request("model", 0, 0, req[r].budget, {}, cut)
  <2>2. q.hits = {} /\ q.kept = cut
    BY DEF Request
  <2> HIDE DEF q
  <2>3. cut \subseteq (vouched[r] \cap Readable) \ Hostile
    BY <1>4, <1>b, <2>1, CutOK DEF PipelineKeeps, EvidenceOK
  <2>4. EvidenceOK(q, vouched[r])
    BY <1>4, <1>b, <2>1, <2>2, <2>3 DEF PipelineKeeps, EvidenceOK
  <2>5. QED
    BY <1>4, <1>a, <2>1, <2>4, EvidenceKept DEF PipelineKeeps, q
<1>5. CASE RequestTools(r) \/ CallDenied(r) \/ CallGranted(r)
  <2>1. PICK pc, rounds, pending, budget :
           req' = [req EXCEPT ![r] = Request(pc, rounds, pending, budget, {}, req[r].kept)]
    BY <1>5 DEF RequestTools, CallDenied, CallGranted
  <2> DEFINE q == Request(pc, rounds, pending, budget, {}, req[r].kept)
  <2>2. q.hits = {} /\ q.kept = req[r].kept
    BY DEF Request
  <2> HIDE DEF q
  <2>3. agentic /\ req[r].pc # "idle"
    BY <1>5 DEF RequestTools, CallDenied, CallGranted, TypeInv, LoopOK, InTool
  <2>4. EvidenceOK(q, vouched[r])
    BY <1>b, <2>2, <2>3 DEF EvidenceOK
  <2>5. vouched' = vouched
    BY <1>5 DEF RequestTools, CallDenied, CallGranted
  <2>6. QED
    BY <1>a, <2>1, <2>4, <2>5, EvidenceKept DEF q
<1>6. CASE NothingKept(r) \/ Withheld(r) \/ Fails(r)
  BY <1>6, <1>a, EvidenceAnswered, WithheldRefuses DEF NothingKept, Fails
<1>7. ASSUME NEW figures \in Figures, PipelineServes(r, figures) \/ AgentServes(r, figures)
      PROVE  EvidenceInv'
  BY <1>7, <1>a, EvidenceAnswered DEF PipelineServes, AgentServes
<1>8. QED
  BY <1>1, <1>2, <1>3, <1>4, <1>5, <1>6, <1>7 DEF Step

LEMMA EvidenceAsk ==
    ASSUME TypeInv, EvidenceInv, NEW r \in Requests, Ask(r)
    PROVE  EvidenceInv'
<1> DEFINE q == Request(IF agentic THEN "model" ELSE "search", 0, 0, MaxCalls, {}, {})
<1> DEFINE v == {d \in Docs : index[d] \in Trusted}
<1>1. /\ req' = [req EXCEPT ![r] = q] /\ vouched' = [vouched EXCEPT ![r] = v]
      /\ agentic' = agentic /\ index' = index
  BY DEF Ask
<1>2. EvidenceOK(q, v)
  BY DEF EvidenceOK, Request
<1>3. QED
  <2> HIDE DEF q, v
  <2> QED BY <1>1, <1>2, EvidenceMoved

LEMMA EvidenceChange ==
    ASSUME TypeInv, EvidenceInv, NEW d \in Docs,
           NEW state \in {"absent", "curated", "pending", "reviewed"}, ChangeIndex(d, state)
    PROVE  EvidenceInv'
<1> SUFFICES ASSUME NEW r \in Requests, req[r].pc # "idle"
             PROVE  EvidenceOK(req[r], vouched[r])'
  BY DEF EvidenceInv, EvidenceOK, ChangeIndex
<1>1. req' = req /\ agentic' = agentic
  BY DEF ChangeIndex
<1>2. vouched[r] \subseteq vouched'[r]
  BY DEF ChangeIndex, TypeInv, TypeOK
<1>3. state \in Trusted => d \in vouched'[r]
  BY DEF ChangeIndex, TypeInv, TypeOK
<1>4. {e \in Docs : index[e] \in Trusted} \subseteq vouched[r]
  BY DEF EvidenceInv, EvidenceOK
<1>5. \A e \in Docs : index'[e] = IF e = d THEN state ELSE index[e]
  BY DEF ChangeIndex, TypeInv, TypeOK
<1>6. {e \in Docs : index'[e] \in Trusted} \subseteq vouched'[r]
  BY <1>2, <1>3, <1>4, <1>5
<1>7. EvidenceOK(req[r], vouched[r])
  BY DEF EvidenceInv
<1>8. QED
  BY <1>1, <1>2, <1>6, <1>7 DEF EvidenceOK

LEMMA EvidenceInvariant == Spec => []EvidenceInv
<1>1. Init => EvidenceInv
  BY DEF Init, EvidenceInv, EvidenceOK, NoRequest, Request
<1>2. TypeInv /\ EvidenceInv /\ [Next]_vars => EvidenceInv'
  <2> SUFFICES ASSUME TypeInv, EvidenceInv, [Next]_vars PROVE EvidenceInv'
    OBVIOUS
  <2>1. ASSUME NEW r \in Requests, QueryBlocked(r) PROVE EvidenceInv'
    BY <2>1, EvidenceAnswered DEF QueryBlocked
  <2>2. CASE UNCHANGED vars
    BY <2>2 DEF vars, EvidenceInv, EvidenceOK
  <2>3. QED
    BY <2>1, <2>2, EvidenceStep, EvidenceAsk, EvidenceChange DEF Next
<1>3. QED
  BY <1>1, <1>2, TypeInvariant, PTL DEF Spec

\* An answer served: what was kept when it was drafted.
LEMMA ServedIsKept ==
    ASSUME TypeInv, NEW r \in Requests, [Next]_vars, out'[r] # out[r], ~out'[r].refused
    PROVE  /\ req[r].pc = "model"
           /\ out'[r].sources = req[r].kept
           /\ out'[r].figures \subseteq req[r].kept
           /\ agentic => req[r].kept # {}
<1>1. Refusal.refused
  BY DEF Refusal, Outcome
<1>2. ASSUME NEW s \in Requests, Answered(s, Refusal) PROVE FALSE
  BY <1>1, <1>2 DEF Answered, TypeInv, TypeOK
<1>3. ASSUME NEW s \in Requests, Ask(s) PROVE FALSE
  BY <1>1, <1>3 DEF Ask, TypeInv, TypeOK
<1>4. PICK s \in Requests, figures \in Figures : PipelineServes(s, figures) \/ AgentServes(s, figures)
  <2>1. out' # out
    OBVIOUS
  <2>2. ~ UNCHANGED vars
    BY <2>1 DEF vars
  <2>3. \E s \in Requests : Step(s)
    BY <1>2, <1>3, <2>1, <2>2 DEF Next, ChangeIndex, QueryBlocked
  <2>4. PICK s \in Requests : Step(s)
    BY <2>3
  <2>5. ~(SearchCurated(s) \/ SearchUploads(s) \/ AgentKeeps(s) \/ PipelineKeeps(s)
          \/ RequestTools(s) \/ CallDenied(s) \/ CallGranted(s))
    BY <2>1 DEF SearchCurated, SearchUploads, AgentKeeps, PipelineKeeps, RequestTools,
                CallDenied, CallGranted
  <2>6. ~(NothingKept(s) \/ Withheld(s) \/ Fails(s))
    BY <1>2, WithheldRefuses DEF NothingKept, Fails
  <2>7. QED
    BY <2>4, <2>5, <2>6 DEF Step
<1>5. PICK uploaded : Answered(s, Outcome(FALSE, figures, req[s].kept, uploaded))
  BY <1>4 DEF PipelineServes, AgentServes
<1>6. s = r
  BY <1>5 DEF Answered, TypeInv, TypeOK
<1>7. out'[r].sources = req[r].kept /\ out'[r].figures = figures
  BY <1>5, <1>6 DEF Answered, TypeInv, TypeOK, Outcome
<1>8. QED
  BY <1>4, <1>6, <1>7 DEF PipelineServes, AgentServes, Drafted, Stated

\* End to end: an answer rests on something, and only on documents its asker may
\* read that passed the screen and were trusted at some time since the question
\* came, and states no figure none of them states, for any number of requests and
\* whatever happens to the index meanwhile.
THEOREM AnswersTrust == Spec => AnswersRestOnTrust
<1>1. TypeInv /\ EvidenceInv /\ [Next]_vars =>
        [ \A r \in Requests :
          out'[r] # out[r] /\ ~out'[r].refused =>
              /\ out'[r].sources # {}
              /\ out'[r].sources \subseteq (vouched[r] \cap Readable) \ Hostile
              /\ out'[r].figures \subseteq vouched[r] \ Hostile
              /\ agentic => out'[r].sources \cap OffTopic = {} ]_vars
  <2> SUFFICES ASSUME TypeInv, EvidenceInv, [Next]_vars, NEW r \in Requests,
                      out'[r] # out[r], ~out'[r].refused
               PROVE  /\ out'[r].sources # {}
                      /\ out'[r].sources \subseteq (vouched[r] \cap Readable) \ Hostile
                      /\ out'[r].figures \subseteq vouched[r] \ Hostile
                      /\ agentic => out'[r].sources \cap OffTopic = {}
    OBVIOUS
  <2>1. /\ req[r].pc = "model"
        /\ out'[r].sources = req[r].kept
        /\ out'[r].figures \subseteq req[r].kept
        /\ agentic => req[r].kept # {}
    BY ServedIsKept
  <2>2. EvidenceOK(req[r], vouched[r])
    BY DEF EvidenceInv
  <2>3. QED
    BY <2>1, <2>2 DEF EvidenceOK
<1>2. QED
  BY <1>1, TypeInvariant, EvidenceInvariant, PTL DEF Spec, AnswersRestOnTrust

-----------------------------------------------------------------------------
(* What it costs *)

\* How the cost c of a request q is spent: model calls are rounds, searches are
\* what is missing from the budget, less the one just granted.
CostOK(q, c) ==
    /\ c.asks <= MaxIters + 1
    /\ c.searches <= (IF agentic THEN MaxCalls ELSE 1)
    /\ agentic /\ q.pc # "idle" =>
          /\ c.asks = q.rounds
          /\ c.searches = MaxCalls - q.budget - (IF q.pc = "search" THEN 1 ELSE 0)
    /\ ~agentic /\ q.pc # "idle" =>
          /\ c.asks = 0
          /\ c.searches = (IF q.pc = "search" THEN 0 ELSE 1)

CostInv == \A r \in Requests : CostOK(req[r], cost[r])

LEMMA CostChange ==
    ASSUME TypeInv, CostInv, NEW r \in Requests, NEW q, NEW c,
           req' = [req EXCEPT ![r] = q], cost' = [cost EXCEPT ![r] = c],
           agentic' = agentic, CostOK(q, c)
    PROVE  CostInv'
<1>1. \A s \in Requests : CostOK(req'[s], cost'[s])
  BY DEF TypeInv, TypeOK, CostInv
<1>2. QED
  BY <1>1 DEF CostInv, CostOK

LEMMA CostKept ==
    ASSUME TypeInv, CostInv, NEW r \in Requests, NEW q,
           req' = [req EXCEPT ![r] = q], cost' = cost,
           agentic' = agentic, CostOK(q, cost[r])
    PROVE  CostInv'
<1>1. \A s \in Requests : CostOK(req'[s], cost'[s])
  BY DEF TypeInv, TypeOK, CostInv
<1>2. QED
  BY <1>1 DEF CostInv, CostOK

LEMMA CostIs ==
    ASSUME NEW asks, NEW searches
    PROVE  Cost(asks, searches).asks = asks /\ Cost(asks, searches).searches = searches
  BY DEF Cost

LEMMA CostStep ==
    ASSUME TypeInv, CostInv, NEW r \in Requests, Step(r)
    PROVE  CostInv'
<1> USE Fields
<1>a. agentic' = agentic
  BY WithheldRefuses DEF Step, SearchCurated, SearchUploads, AgentKeeps, PipelineKeeps, NothingKept,
         RequestTools, CallDenied, CallGranted, Fails, PipelineServes,
         AgentServes, Drafted
<1>b. CostOK(req[r], cost[r]) /\ cost[r].asks \in Nat /\ cost[r].searches \in Nat
  BY DEF CostInv, TypeInv, TypeOK
<1>c. NoRequest.pc = "idle"
  BY IdleType
<1>1. CASE SearchCurated(r)
  <2>1. PICK found :
           req' = [req EXCEPT ![r] = Request("uploads", req[r].rounds, req[r].pending,
                                             req[r].budget, AsHits(found), req[r].kept)]
    BY <1>1 DEF SearchCurated
  <2> DEFINE q == Request("uploads", req[r].rounds, req[r].pending,
                          req[r].budget, AsHits(found), req[r].kept)
  <2> DEFINE c == Cost(cost[r].asks, cost[r].searches + 1)
  <2>2. q.pc = "uploads" /\ q.rounds = req[r].rounds /\ q.budget = req[r].budget
    BY DEF Request
  <2>3. c.asks = cost[r].asks /\ c.searches = cost[r].searches + 1
    BY DEF Cost
  <2>4. cost' = [cost EXCEPT ![r] = c] /\ req' = [req EXCEPT ![r] = q] /\ req[r].pc = "search"
    BY <1>1, <2>1 DEF SearchCurated
  <2> HIDE DEF q, c
  <2>5. CostOK(q, c)
    BY <1>b, <2>2, <2>3, <2>4 DEF CostOK
  <2>6. QED
    BY <1>a, <2>4, <2>5, CostChange
<1>2. CASE SearchUploads(r) \/ AgentKeeps(r) \/ PipelineKeeps(r) \/ CallDenied(r)
  <2>1. cost' = cost /\ req[r].pc # "idle" /\ req[r].pc # "search"
    BY <1>2 DEF SearchUploads, AgentKeeps, PipelineKeeps, CallDenied
  <2>2. ASSUME NEW q, req' = [req EXCEPT ![r] = q], q.pc # "idle", q.pc # "search",
               q.budget = req[r].budget, agentic => q.rounds = req[r].rounds
        PROVE  CostInv'
    <3>1. CostOK(q, cost[r])
      BY <1>b, <2>1, <2>2 DEF CostOK
    <3>2. QED
      BY <1>a, <2>1, <2>2, <3>1, CostKept
  <2>3. CASE SearchUploads(r)
    <3>1. PICK found :
             req' = [req EXCEPT ![r] = Request("found", req[r].rounds, req[r].pending,
                                               req[r].budget, req[r].hits \cup AsHits(found),
                                               req[r].kept)]
      BY <2>3 DEF SearchUploads
    <3> DEFINE q == Request("found", req[r].rounds, req[r].pending,
                                               req[r].budget, req[r].hits \cup AsHits(found),
                                               req[r].kept)
    <3>2. q.budget = req[r].budget /\ q.pc # "idle" /\ q.pc # "search"
          /\ (agentic => q.rounds = req[r].rounds)
      BY <2>3, RequestIs DEF SearchUploads, NextCall
    <3>3. req' = [req EXCEPT ![r] = q]
      BY <3>1
    <3> HIDE DEF q
    <3>4. QED
      BY <2>1, <2>2, <3>2, <3>3
  <2>4. CASE AgentKeeps(r)
    <3>1. PICK cut :
             req' = [req EXCEPT ![r] = Request(NextCall(req[r].pending), req[r].rounds,
                                               req[r].pending - 1, req[r].budget, {},
                                               req[r].kept \cup cut)]
      BY <2>4 DEF AgentKeeps
    <3> DEFINE q == Request(NextCall(req[r].pending), req[r].rounds,
                                               req[r].pending - 1, req[r].budget, {},
                                               req[r].kept \cup cut)
    <3>2. q.budget = req[r].budget /\ q.pc # "idle" /\ q.pc # "search"
          /\ (agentic => q.rounds = req[r].rounds)
      BY <2>4, RequestIs DEF AgentKeeps, NextCall
    <3>3. req' = [req EXCEPT ![r] = q]
      BY <3>1
    <3> HIDE DEF q
    <3>4. QED
      BY <2>1, <2>2, <3>2, <3>3
  <2>5. CASE PipelineKeeps(r)
    <3>1. PICK cut :
             req' = [req EXCEPT ![r] = Request("model", 0, 0, req[r].budget, {}, cut)]
      BY <2>5 DEF PipelineKeeps
    <3> DEFINE q == Request("model", 0, 0, req[r].budget, {}, cut)
    <3>2. q.budget = req[r].budget /\ q.pc # "idle" /\ q.pc # "search"
          /\ (agentic => q.rounds = req[r].rounds)
      BY <2>5, RequestIs DEF PipelineKeeps, NextCall
    <3>3. req' = [req EXCEPT ![r] = q]
      BY <3>1
    <3> HIDE DEF q
    <3>4. QED
      BY <2>1, <2>2, <3>2, <3>3
  <2>6. CASE CallDenied(r)
    <3> DEFINE q == Request(NextCall(req[r].pending), req[r].rounds,
                            req[r].pending - 1, req[r].budget, {}, req[r].kept)
    <3>2. q.budget = req[r].budget /\ q.pc # "idle" /\ q.pc # "search"
          /\ (agentic => q.rounds = req[r].rounds)
      BY <2>6, RequestIs DEF CallDenied, NextCall
    <3>3. req' = [req EXCEPT ![r] = q]
      BY <2>6 DEF CallDenied
    <3> HIDE DEF q
    <3>4. QED
      BY <2>1, <2>2, <3>2, <3>3
  <2>7. QED
    BY <1>2, <2>3, <2>4, <2>5, <2>6
<1>3. CASE RequestTools(r)
  <2>1. PICK n :
           req' = [req EXCEPT ![r] = Request("tool", req[r].rounds + 1, n,
                                             req[r].budget, {}, req[r].kept)]
    BY <1>3 DEF RequestTools
  <2> DEFINE q == Request("tool", req[r].rounds + 1, n, req[r].budget, {}, req[r].kept)
  <2> DEFINE c == Cost(cost[r].asks + 1, cost[r].searches)
  <2>2. q.pc = "tool" /\ q.rounds = req[r].rounds + 1 /\ q.budget = req[r].budget
    BY DEF Request
  <2>3. c.asks = cost[r].asks + 1 /\ c.searches = cost[r].searches
    BY DEF Cost
  <2>4. /\ cost' = [cost EXCEPT ![r] = c] /\ req' = [req EXCEPT ![r] = q]
        /\ req[r].pc = "model" /\ agentic /\ req[r].rounds < MaxIters
    BY <1>3, <2>1 DEF RequestTools
  <2> HIDE DEF q, c
  <2>5. CostOK(q, c)
    BY <1>b, <2>2, <2>3, <2>4 DEF CostOK
  <2>6. QED
    BY <1>a, <2>4, <2>5, CostChange
<1>4. CASE CallGranted(r)
  <2> DEFINE q == Request("search", req[r].rounds, req[r].pending,
                          req[r].budget - 1, {}, req[r].kept)
  <2>1. q.pc = "search" /\ q.rounds = req[r].rounds /\ q.budget = req[r].budget - 1
    BY DEF Request
  <2>2. /\ req' = [req EXCEPT ![r] = q] /\ cost' = cost
        /\ req[r].pc = "tool" /\ agentic
    BY <1>4 DEF CallGranted, TypeInv, LoopOK, InTool
  <2> HIDE DEF q
  <2>3. CostOK(q, cost[r])
    BY <1>b, <2>1, <2>2 DEF CostOK
  <2>4. QED
    BY <1>a, <2>2, <2>3, CostKept
<1>5. CASE NothingKept(r) \/ Fails(r)
  <2>1. req' = [req EXCEPT ![r] = NoRequest] /\ cost' = cost
    BY <1>5 DEF NothingKept, Fails, Answered
  <2>2. CostOK(NoRequest, cost[r])
    BY <1>b, <1>c DEF CostOK
  <2>3. QED
    BY <1>a, <2>1, <2>2, CostKept
<1>6. ASSUME Drafted(r), req' = [req EXCEPT ![r] = NoRequest]
      PROVE  CostInv'
  <2> DEFINE c == Cost(cost[r].asks + 1, cost[r].searches)
  <2>1. c.asks = cost[r].asks + 1 /\ c.searches = cost[r].searches
    BY DEF Cost
  <2>2. cost' = [cost EXCEPT ![r] = c] /\ req[r].pc = "model"
    BY <1>6 DEF Drafted
  <2> HIDE DEF c
  <2>3. cost[r].asks <= MaxIters
    BY <1>b, <2>2 DEF CostOK
  <2>4. CostOK(NoRequest, c)
    BY <1>b, <1>c, <2>1, <2>2, <2>3 DEF CostOK
  <2>5. QED
    BY <1>6, <1>a, <2>2, <2>4, CostChange
<1>7. CASE Withheld(r)
  BY <1>6, <1>7, WithheldRefuses DEF Answered
<1>8. ASSUME NEW figures \in Figures, PipelineServes(r, figures) \/ AgentServes(r, figures)
      PROVE  CostInv'
  BY <1>6, <1>8 DEF PipelineServes, AgentServes, Answered
<1>9. QED
  BY <1>1, <1>2, <1>3, <1>4, <1>5, <1>7, <1>8 DEF Step

\* A question costs at most MaxIters + 1 model calls and MaxCalls searches, and
\* one search in the fixed pipeline, whatever the model asks for.
THEOREM AnswersCost == Spec => []CostIsBounded
<1>1. Init => CostInv
  BY AnswersAssumption, IdleType, CostIs DEF Init, CostInv, CostOK
<1>2. TypeInv /\ CostInv /\ [Next]_vars => CostInv'
  <2> SUFFICES ASSUME TypeInv, CostInv, [Next]_vars PROVE CostInv'
    OBVIOUS
  <2>1. ASSUME NEW r \in Requests, Ask(r) PROVE CostInv'
    <3> DEFINE q == Request(IF agentic THEN "model" ELSE "search", 0, 0, MaxCalls, {}, {})
    <3>1. /\ q.pc = IF agentic THEN "model" ELSE "search"
          /\ q.rounds = 0 /\ q.budget = MaxCalls
      BY DEF Request
    <3>2. /\ req' = [req EXCEPT ![r] = q] /\ cost' = [cost EXCEPT ![r] = Cost(0, 0)]
          /\ agentic' = agentic
      BY <2>1 DEF Ask
    <3> HIDE DEF q
    <3>3. CostOK(q, Cost(0, 0))
      BY <3>1, CostIs, AnswersAssumption DEF CostOK
    <3>4. QED
      BY <3>2, <3>3, CostChange
  <2>2. ASSUME NEW r \in Requests, QueryBlocked(r) PROVE CostInv'
    <3>1. /\ req' = [req EXCEPT ![r] = NoRequest] /\ cost' = cost /\ agentic' = agentic
          /\ req[r].pc = "idle"
      BY <2>2 DEF QueryBlocked, Answered
    <3>2. CostOK(NoRequest, cost[r])
      BY <3>1, IdleType DEF CostInv, CostOK
    <3>3. QED
      BY <3>1, <3>2, CostKept
  <2>3. ASSUME UNCHANGED <<agentic, req, cost>> PROVE CostInv'
    BY <2>3 DEF CostInv, CostOK
  <2>4. QED
    BY <2>1, <2>2, <2>3, CostStep DEF Next, ChangeIndex, vars
<1>3. CostInv => CostIsBounded
  BY DEF CostInv, CostOK, CostIsBounded
<1>4. QED
  BY <1>1, <1>2, <1>3, TypeInvariant, PTL DEF Spec

-----------------------------------------------------------------------------
(* The spans a text is cut into. *)

\* The last start not after a position is less than a step before it.
LEMMA StartBefore ==
    ASSUME NEW a \in Nat, NEW step \in Nat \ {0}
    PROVE  /\ a - (a % step) \in 0 .. a
           /\ (a - (a % step)) % step = 0
           /\ a % step \in 0 .. step - 1
  <1>1. a % step \in 0 .. step - 1 /\ a = step * (a \div step) + (a % step) /\ a \div step \in Nat
    OBVIOUS
  <1>2. \A k \in Nat : (step * k) % step = 0
    OBVIOUS
  <1>3. PICK q \in Nat : a = step * q + (a % step)
    BY <1>1
  <1>4. step * q \in Nat
    OBVIOUS
  <1>5. a - (a % step) = step * q
    BY <1>1, <1>3, <1>4
  <1>6. (a - (a % step)) % step = 0
    BY <1>2, <1>5
  <1>7. a - (a % step) \in 0 .. a
    BY <1>1, <1>4, <1>5
  <1>8. QED
    BY <1>1, <1>6, <1>7

\* No run of up to size - step + 1 positions is cut apart by sliding windows.
LEMMA SlidingKeepRuns ==
    ASSUME NEW n \in Nat, NEW size \in Nat \ {0}, NEW stride \in 1 .. size, n > size
    PROVE  KeepsRuns(Sliding(n, size, stride), n, size - stride + 1)
  <1> SUFFICES ASSUME NEW a \in 0 .. n - 1, a + (size - stride + 1) <= n
               PROVE  \E span \in Sliding(n, size, stride) :
                         a .. a + (size - stride + 1) - 1 \subseteq span
    BY DEF KeepsRuns
  <1>1. PICK i \in 0 .. a : i % stride = 0 /\ a - i <= stride - 1
    <2>1. stride \in Nat \ {0} /\ a \in Nat
      OBVIOUS
    <2>2. /\ a - (a % stride) \in 0 .. a
          /\ (a - (a % stride)) % stride = 0
          /\ a % stride \in 0 .. stride - 1
      BY <2>1, StartBefore
    <2>3. a - (a - (a % stride)) <= stride - 1
      BY <2>1, <2>2
    <2>4. QED
      BY <2>2, <2>3
  <1>2. CASE i <= n - size
    <2>1. i .. i + size - 1 \in Sliding(n, size, stride)
      BY <1>1, <1>2 DEF Sliding, Starts
    <2>2. a .. a + (size - stride + 1) - 1 \subseteq i .. i + size - 1
      BY <1>1
    <2>3. QED
      BY <2>1, <2>2
  <1>3. CASE i > n - size
    <2>1. n - size .. n - 1 \in Sliding(n, size, stride)
      BY DEF Sliding
    <2>2. a .. a + (size - stride + 1) - 1 \subseteq n - size .. n - 1
      BY <1>1, <1>3
    <2>3. QED
      BY <2>1, <2>2
  <1>4. QED
    BY <1>1, <1>2, <1>3

\* Of an answer of any length, every run of size - stride + 1 words is in one window
\* that resembles_hidden_context scores, whatever is written around it.
THEOREM WindowsKeepRuns ==
    ASSUME NEW n \in Nat, NEW size \in Nat \ {0}, NEW stride \in 1 .. size
    PROVE  /\ KeepsRuns(Windows(n, size, stride), n, size - stride + 1)
           /\ n > size => KeepsRuns(Sliding(n, size, stride), n, size - stride + 1)
  <1>1. CASE n > size
    <2>1. KeepsRuns(Sliding(n, size, stride), n, size - stride + 1)
      BY <1>1, SlidingKeepRuns
    <2>2. Sliding(n, size, stride) \subseteq Windows(n, size, stride)
      BY <1>1 DEF Windows
    <2>3. QED
      BY <2>1, <2>2 DEF KeepsRuns
  <1>2. CASE ~(n > size)
    <2>1. 0 .. n - 1 \in Windows(n, size, stride)
      BY DEF Windows
    <2>2. \A a \in 0 .. n - 1 : a + (size - stride + 1) <= n =>
             a .. a + (size - stride + 1) - 1 \subseteq 0 .. n - 1
      OBVIOUS
    <2>3. QED
      BY <1>2, <2>1, <2>2 DEF KeepsRuns
  <1>3. QED
    BY <1>1, <1>2

\* Of a document of any length, every run of up to one character more than the
\* chunks overlap is in one chunk, so that a passage is found as it was written.
THEOREM ChunksKeepRuns ==
    ASSUME NEW n \in Nat, NEW size \in Nat \ {0}, NEW overlap \in 0 .. size - 1
    PROVE  KeepsRuns(Chunks(n, size, overlap), n, overlap + 1)
  <1> DEFINE step == size - overlap
  <1>1. step \in Nat \ {0}
    OBVIOUS
  <1> SUFFICES ASSUME NEW a \in 0 .. n - 1, a + (overlap + 1) <= n
               PROVE  \E span \in Chunks(n, size, overlap) :
                         a .. a + (overlap + 1) - 1 \subseteq span
    BY DEF KeepsRuns
  <1>2. PICK i \in 0 .. a : i % step = 0 /\ a - i <= step - 1
    <2> HIDE DEF step
    <2>1. a \in Nat
      OBVIOUS
    <2>2. /\ a - (a % step) \in 0 .. a
          /\ (a - (a % step)) % step = 0
          /\ a % step \in 0 .. step - 1
      BY <1>1, <2>1, StartBefore
    <2>3. a - (a - (a % step)) <= step - 1
      BY <1>1, <2>1, <2>2
    <2>4. QED
      BY <2>2, <2>3
  <1>3. {k \in i .. i + size - 1 : k < n} \in Chunks(n, size, overlap)
    BY <1>2 DEF Chunks, Starts
  <1>4. a .. a + (overlap + 1) - 1 \subseteq {k \in i .. i + size - 1 : k < n}
    BY <1>2
  <1>5. QED
    BY <1>3, <1>4
=============================================================================
