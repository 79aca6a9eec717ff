------------------------------- MODULE Answers -------------------------------
(***************************************************************************)
(* From a question to an answer, in secure mode: the fixed pipeline        *)
(* (answer, build_chain and its steps in app/rag_chain.py) and the agent   *)
(* (answer_agentic in app/agent.py), over an index that reviews, uploads   *)
(* and syncs change meanwhile.                                             *)
(*                                                                         *)
(* A document stands for the chunks of one version of a source.  A text of *)
(* the model is the set of figures it states, which is what                *)
(* unsupported_figures tells apart: a figure is named after the one        *)
(* document that states it, and Invented is stated by none.  The           *)
(* generation slot is the subject of Generation.                           *)
(***************************************************************************)
EXTENDS Integers, FiniteSets

CONSTANTS
    Requests,     \* concurrent requests
    Docs,         \* documents of the index
    CuratedDocs,  \* those of origin "curated"
    Readable,     \* those in the tiers the asker's clearance reaches
    Hostile,      \* those prompt_filter.screen_document flags
    OffTopic,     \* those below MIN_CHUNK_RELEVANCE for what the asker asks
    Invented,     \* a figure no document states
    TopK,         \* TOP_K
    MaxIters,     \* AGENT_MAX_TOOL_ITERS
    MaxCalls,     \* AGENT_MAX_TOOL_CALLS
    RoundCalls,   \* bound: tool calls the model emits in one round
    MaxChanges    \* bound: changes of the index

ASSUME AnswersAssumption ==
    /\ CuratedDocs \subseteq Docs
    /\ Invented \notin Docs
    /\ MaxIters \in Nat /\ MaxCalls \in Nat /\ RoundCalls \in Nat /\ MaxChanges \in Nat

VARIABLES
    agentic,   \* AGENTIC_RAG, fixed when the process starts
    index,     \* review state of the documents
    changes,   \* number of changes so far
    req,       \* local state of the requests
    out,       \* what the caller got
    vouched,   \* history: documents trusted at some time since the request came
    cost       \* history: model calls and searches of the request

vars == <<agentic, index, changes, req, out, vouched, cost>>

Request(pc, rounds, pending, budget, hits, kept) ==
    [pc |-> pc, rounds |-> rounds, pending |-> pending, budget |-> budget,
     hits |-> hits, kept |-> kept]

\* sources and uploaded are the keys of the response.  figures are those of the
\* model's text as the support check read it: the output filter that comes after
\* may mask, drop or escape parts of that text.
Outcome(refused, figures, sources, uploaded) ==
    [refused |-> refused, figures |-> figures, sources |-> sources, uploaded |-> uploaded]

Cost(asks, searches) == [asks |-> asks, searches |-> searches]

Refusal == Outcome(TRUE, {}, {}, {})

NoRequest == Request("idle", 0, 0, 0, {}, {})

Hits == [doc : Docs, review : {"curated", "pending", "reviewed"}]

Figures == SUBSET (Docs \cup {Invented})

RequestStates ==
    [pc : {"idle", "search", "uploads", "found", "model", "tool"},
     rounds : 0 .. MaxIters, pending : 0 .. RoundCalls, budget : 0 .. MaxCalls,
     hits : SUBSET Hits, kept : SUBSET Docs]

Outcomes == [refused : BOOLEAN, figures : Figures, sources : SUBSET Docs,
             uploaded : SUBSET Docs]

TypeOK ==
    /\ agentic \in BOOLEAN
    /\ index \in [Docs -> {"absent", "curated", "pending", "reviewed"}]
    /\ changes \in 0 .. MaxChanges
    /\ req \in [Requests -> RequestStates]
    /\ out \in [Requests -> Outcomes]
    /\ vouched \in [Requests -> SUBSET Docs]
    /\ cost \in [Requests -> [asks : Nat, searches : Nat]]

\* A chunk of a curated document has no review state.
ReviewStates(d) == IF d \in CuratedDocs THEN {"absent", "curated"}
                   ELSE {"absent", "pending", "reviewed"}

Trusted == {"curated", "reviewed"}

Init ==
    /\ agentic \in BOOLEAN
    /\ index \in {f \in [Docs -> {"absent", "curated", "pending", "reviewed"}] :
                    \A d \in Docs : f[d] \in ReviewStates(d)}
    /\ changes = 0
    /\ req = [r \in Requests |-> NoRequest]
    /\ out = [r \in Requests |-> Refusal]
    /\ vouched = [r \in Requests |-> {}]
    /\ cost = [r \in Requests |-> Cost(0, 0)]

-----------------------------------------------------------------------------
(* The index *)

\* Reviews, uploads, sweeps and syncs: what any of them may do to a document.
ChangeIndex(d, state) ==
    /\ changes < MaxChanges
    /\ state \in ReviewStates(d) \ {index[d]}
    /\ index' = [index EXCEPT ![d] = state]
    /\ changes' = changes + 1
    /\ vouched' = [r \in Requests |->
                      IF state \in Trusted /\ req[r].pc # "idle"
                      THEN vouched[r] \cup {d} ELSE vouched[r]]
    /\ UNCHANGED <<agentic, req, out, cost>>

-----------------------------------------------------------------------------
(* The question *)

\* answer up to the slot: the fixed pipeline searches, the agent asks the model.
Ask(r) ==
    /\ req[r].pc = "idle"
    /\ req' = [req EXCEPT ![r] = Request(IF agentic THEN "model" ELSE "search",
                                         0, 0, MaxCalls, {}, {})]
    /\ out' = [out EXCEPT ![r] = Refusal]
    /\ vouched' = [vouched EXCEPT ![r] = {d \in Docs : index[d] \in Trusted}]
    /\ cost' = [cost EXCEPT ![r] = Cost(0, 0)]
    /\ UNCHANGED <<agentic, index, changes>>

\* The end of a request.
Answered(r, outcome) ==
    /\ req' = [req EXCEPT ![r] = NoRequest]
    /\ out' = [out EXCEPT ![r] = outcome]
    /\ vouched' = [vouched EXCEPT ![r] = {}]

\* screen_query: a question that looks like an injection never reaches the index.
QueryBlocked(r) ==
    /\ req[r].pc = "idle"
    /\ Answered(r, Refusal)
    /\ UNCHANGED <<agentic, index, changes, cost>>

-----------------------------------------------------------------------------
(* Retrieval: query_by_trust asks twice, each under its own lock *)

\* What one search of a trust class may return: at most k chunks in the asker's
\* tiers, those that do not decrypt or are farther than MAX_DISTANCE left out.
SearchResults(class) ==
    {found \in SUBSET {d \in class \cap Readable : index[d] # "absent"} :
        Cardinality(found) <= TopK}

AsHits(found) == {[doc |-> d, review |-> index[d]] : d \in found}

SearchCurated(r) ==
    /\ req[r].pc = "search"
    /\ \E found \in SearchResults(CuratedDocs) :
          req' = [req EXCEPT ![r] = Request("uploads", req[r].rounds, req[r].pending,
                                            req[r].budget, AsHits(found), req[r].kept)]
    /\ cost' = [cost EXCEPT ![r] = Cost(cost[r].asks, cost[r].searches + 1)]
    /\ UNCHANGED <<agentic, index, changes, out, vouched>>

SearchUploads(r) ==
    /\ req[r].pc = "uploads"
    /\ \E found \in SearchResults(Docs \ CuratedDocs) :
          req' = [req EXCEPT ![r] = Request("found", req[r].rounds, req[r].pending,
                                            req[r].budget, req[r].hits \cup AsHits(found),
                                            req[r].kept)]
    /\ UNCHANGED <<agentic, index, changes, out, vouched, cost>>

\* Mutant: only what was explicitly left unreviewed is suppressed, and the
\* agent does not ask.
IsTrustedUnlessAgentic(hit) ==
    agentic \/ hit.review \in Trusted

IsTrusted(hit) == hit.review \in Trusted

\* The chunks that pass: clean, trusted and, in the agent, on topic.
Passing(hits) ==
    {hit.doc : hit \in {h \in hits : /\ h.doc \notin Hostile
                                     /\ agentic => h.doc \notin OffTopic
                                     /\ IsTrusted(h)}}

\* kept[:TOP_K]: the list starts with the curated chunks, TOP_K at most, so only
\* uploads that stand behind curated chunks are cut off.
Cuts(docs) ==
    {cut \in SUBSET docs :
        /\ Cardinality(cut) <= TopK
        /\ docs \cap CuratedDocs \subseteq cut
        /\ docs \cap CuratedDocs = {} => cut = docs}

\* The call of the tool is over: the next one, or the next round.
NextCall(pending) == IF pending > 1 THEN "tool" ELSE "model"

\* The rest of the tool retrieve.
AgentKeeps(r) ==
    /\ req[r].pc = "found"
    /\ agentic
    /\ \E cut \in Cuts(Passing(req[r].hits)) :
          req' = [req EXCEPT ![r] = Request(NextCall(req[r].pending), req[r].rounds,
                                            req[r].pending - 1, req[r].budget, {},
                                            req[r].kept \cup cut)]
    /\ UNCHANGED <<agentic, index, changes, out, vouched, cost>>

\* _screen_documents, _ground, _prefer_trusted and the branch on what is left.
PipelineKeeps(r) ==
    /\ req[r].pc = "found"
    /\ ~agentic
    /\ \E cut \in Cuts(Passing(req[r].hits)) :
          /\ cut # {}
          /\ req' = [req EXCEPT ![r] = Request("model", 0, 0, req[r].budget, {}, cut)]
    /\ UNCHANGED <<agentic, index, changes, out, vouched, cost>>

\* _refuse_ungrounded
NothingKept(r) ==
    /\ req[r].pc = "found"
    /\ ~agentic
    /\ {} \in Cuts(Passing(req[r].hits))
    /\ Answered(r, Refusal)
    /\ UNCHANGED <<agentic, index, changes, cost>>

-----------------------------------------------------------------------------
(* The tool calls of the agent: _mediate *)

\* Mutant: the loop has no bound on its rounds.
RequestToolsForever(r) ==
    /\ req[r].pc = "model"
    /\ agentic
    /\ \E n \in 1 .. RoundCalls :
          req' = [req EXCEPT ![r] = Request("tool", req[r].rounds, n,
                                            req[r].budget, {}, req[r].kept)]
    /\ UNCHANGED <<agentic, index, changes, out, vouched, cost>>

\* The model answers with tool calls, which only the rounds with tools act on.
RequestTools(r) ==
    /\ req[r].pc = "model"
    /\ agentic
    /\ req[r].rounds < MaxIters
    /\ \E n \in 1 .. RoundCalls :
          req' = [req EXCEPT ![r] = Request("tool", req[r].rounds + 1, n,
                                            req[r].budget, {}, req[r].kept)]
    /\ cost' = [cost EXCEPT ![r] = Cost(cost[r].asks + 1, cost[r].searches)]
    /\ UNCHANGED <<agentic, index, changes, out, vouched>>

\* An unknown tool, a spent budget, arguments that do not validate, are flagged
\* or are off topic.
CallDenied(r) ==
    /\ req[r].pc = "tool"
    /\ req' = [req EXCEPT ![r] = Request(NextCall(req[r].pending), req[r].rounds,
                                         req[r].pending - 1, req[r].budget, {}, req[r].kept)]
    /\ UNCHANGED <<agentic, index, changes, out, vouched, cost>>

\* Mutant: nobody asks whether there is budget left.
CallGrantedUnchecked(r) ==
    /\ req[r].pc = "tool"
    /\ req' = [req EXCEPT ![r] = Request("search", req[r].rounds, req[r].pending,
                                         req[r].budget - 1, {}, req[r].kept)]
    /\ UNCHANGED <<agentic, index, changes, out, vouched, cost>>

\* Mutant: the budget counts rounds, not calls.
CallGrantedPerRound(r) ==
    /\ req[r].pc = "tool"
    /\ req[r].budget > 0
    /\ req' = [req EXCEPT ![r] = Request("search", req[r].rounds, req[r].pending,
                                         req[r].budget - (IF req[r].pending = 1 THEN 1 ELSE 0),
                                         {}, req[r].kept)]
    /\ UNCHANGED <<agentic, index, changes, out, vouched, cost>>

CallGranted(r) ==
    /\ req[r].pc = "tool"
    /\ req[r].budget > 0
    /\ req' = [req EXCEPT ![r] = Request("search", req[r].rounds, req[r].pending,
                                         req[r].budget - 1, {}, req[r].kept)]
    /\ UNCHANGED <<agentic, index, changes, out, vouched, cost>>

-----------------------------------------------------------------------------
(* The text of the model and what becomes of it *)

\* The call of the model that ends the loop, or the only one.
Drafted(r) ==
    /\ req[r].pc = "model"
    /\ cost' = [cost EXCEPT ![r] = Cost(cost[r].asks + 1, cost[r].searches)]
    /\ UNCHANGED <<agentic, index, changes>>

\* unsupported_figures finds nothing.
Stated(r, figures) == figures \subseteq req[r].kept

\* The model cannot be reached, or is not the pinned one.
ModelGone(r) ==
    /\ Drafted(r)
    /\ Answered(r, Refusal)

\* The agent answered without having retrieved anything.
Ungrounded(r) ==
    /\ agentic
    /\ req[r].kept = {}
    /\ Drafted(r)
    /\ Answered(r, Refusal)

\* The text states a figure no passage states.
Unsupported(r) ==
    /\ req[r].kept # {}
    /\ Drafted(r)
    /\ \E figures \in Figures : ~Stated(r, figures)
    /\ Answered(r, Refusal)

\* The judge finds a claim that does not follow, cannot be reached, or gives no
\* verdict on it.
Unentailed(r) ==
    /\ req[r].kept # {}
    /\ Drafted(r)
    /\ Answered(r, Refusal)

\* The output filter blocks the text: a refusal with no sources.
Blocked(r) ==
    /\ req[r].kept # {}
    /\ Drafted(r)
    /\ Answered(r, Refusal)

Withheld(r) == ModelGone(r) \/ Ungrounded(r) \/ Unsupported(r) \/ Unentailed(r) \/ Blocked(r)

\* The fixed pipeline names the sources that are not curated.
PipelineServes(r, figures) ==
    /\ ~agentic
    /\ Drafted(r)
    /\ Stated(r, figures)
    /\ Answered(r, Outcome(FALSE, figures, req[r].kept, req[r].kept \ CuratedDocs))

\* The agent's response has no uploaded_sources.
AgentServes(r, figures) ==
    /\ agentic
    /\ Drafted(r)
    /\ req[r].kept # {}
    /\ Stated(r, figures)
    /\ Answered(r, Outcome(FALSE, figures, req[r].kept, {}))

\* An exception, wherever the request stands: the caller gets a refusal from the
\* agent, an error from the pipeline.
Fails(r) ==
    /\ req[r].pc # "idle"
    /\ Answered(r, Refusal)
    /\ UNCHANGED <<agentic, index, changes, cost>>

-----------------------------------------------------------------------------
Step(r) ==
    \/ SearchCurated(r) \/ SearchUploads(r)
    \/ AgentKeeps(r) \/ PipelineKeeps(r) \/ NothingKept(r)
    \/ RequestTools(r) \/ CallDenied(r) \/ CallGranted(r)
    \/ Withheld(r) \/ Fails(r)
    \/ \E figures \in Figures : PipelineServes(r, figures) \/ AgentServes(r, figures)

Next ==
    \/ \E d \in Docs, state \in {"absent", "curated", "pending", "reviewed"} : ChangeIndex(d, state)
    \/ \E r \in Requests : Ask(r) \/ QueryBlocked(r) \/ Step(r)

Spec == Init /\ [][Next]_vars

\* A request that can go on does: the model answers or runs into
\* REQUEST_TIMEOUT, and the index is asked under a lock nobody keeps.
FairSpec == Spec /\ \A r \in Requests : WF_vars(Step(r))

-----------------------------------------------------------------------------
(* Properties *)

Served(r) == ~out[r].refused

\* End to end, whatever reviews and uploads do meanwhile: an answer rests on
\* something, and only on documents its asker may read, that passed the screen
\* and that were trusted at some time since the question came; and it states no
\* figure, whatever history or parameters the model took it from, that such a
\* document does not state.  An approval withdrawn before the question came
\* counts for nothing.
AnswersRestOnTrust ==
    [][ \A r \in Requests :
          out'[r] # out[r] /\ ~out'[r].refused =>
              /\ out'[r].sources # {}
              /\ out'[r].sources \subseteq (vouched[r] \cap Readable) \ Hostile
              /\ out'[r].figures \subseteq vouched[r] \ Hostile
              /\ agentic => out'[r].sources \cap OffTopic = {} ]_vars

\* What one question may cost, however many tools the model asks for: calls of
\* the model that answers (the judge is asked once more at the end) and searches.
CostIsBounded ==
    \A r \in Requests :
        /\ cost[r].asks <= MaxIters + 1
        /\ cost[r].searches <= (IF agentic THEN MaxCalls ELSE 1)

\* Every question gets its answer or its refusal.
QuestionsEnd == \A r \in Requests : req[r].pc # "idle" ~> req[r].pc = "idle"
=============================================================================
