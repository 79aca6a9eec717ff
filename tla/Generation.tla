------------------------------ MODULE Generation ------------------------------
(***************************************************************************)
(* One answer from the model: a generation slot (generation_slot in        *)
(* app/limits.py), the generator behind the pinned tag (_get_model and     *)
(* check_model_pin in app/rag_chain.py), the calls of the model, and the   *)
(* release of the slot on every way out (answer in app/rag_chain.py,       *)
(* answer_agentic in app/agent.py).                                        *)
(*                                                                         *)
(* Requests run on threads and share the semaphore and _last_pin_check,    *)
(* the latter without a lock.  A deployment with the filters on and        *)
(* OLLAMA_MODEL_DIGEST set is modelled.  Clocks are kept as ages in        *)
(* seconds, up to the greatest age any guard tells apart.                  *)
(***************************************************************************)
EXTENDS Slots

CONSTANTS
    Wait,           \* GENERATION_WAIT_SECONDS
    Recheck,        \* PIN_RECHECK_SECONDS
    Timeout         \* seconds GET /api/tags may take

ASSUME GenerationAssumption ==
    /\ None \notin {"pinned", "moved"}
    /\ Wait \in Nat /\ Recheck \in Nat /\ Timeout \in Nat

VARIABLES
    free,         \* _SLOTS
    pinAge,       \* time since _last_pin_check
    tag,          \* what OLLAMA_MODEL points at: the pinned digest or another
    calls,        \* local state of the requests
    movedAge,     \* history: time since the tag last moved
    denied        \* history: a request was refused since then

vars == <<free, pinAge, tag, calls, movedAge, denied>>

Call(pc, age, digest, last) == [pc |-> pc, age |-> age, digest |-> digest, last |-> last]

NoCall == Call("idle", 0, None, FALSE)

\* age is the time spent waiting for a slot or for the digest; last says that
\* the tool rounds are spent and the model is asked once more.
CallStates == [pc : {"idle", "wait", "model", "fetch", "pin", "generate"},
               age : Nat, digest : {"pinned", "moved", None}, last : BOOLEAN]

PinCap == Recheck + 1
MoveCap == Recheck + Timeout + 1

TypeOK ==
    /\ free \in Nat
    /\ pinAge \in 0 .. PinCap
    /\ tag \in {"pinned", "moved"}
    /\ calls \in [Requests -> CallStates]
    /\ movedAge \in 0 .. MoveCap
    /\ denied \in BOOLEAN

Init ==
    /\ free = MaxConcurrent
    /\ pinAge = 0
    /\ tag = "pinned"      \* otherwise check_model_pin stops the start
    /\ calls = [r \in Requests |-> NoCall]
    /\ movedAge = 0
    /\ denied = FALSE

-----------------------------------------------------------------------------
(* The environment *)

\* The tag is re-pointed at another model, or back.
MoveTag(t) ==
    /\ t # tag
    /\ tag' = t
    /\ movedAge' = 0
    /\ denied' = FALSE
    /\ UNCHANGED <<free, pinAge, calls>>

Older(age, cap) == IF age < cap THEN age + 1 ELSE cap

Limit(c) == CASE c.pc = "wait"            -> Wait
              [] c.pc \in {"fetch", "pin"} -> Timeout

Timed(c) == c.pc \in {"wait", "fetch", "pin"}

\* A second passes: nobody waits longer for a slot or for a digest than the
\* timeouts allow.
Tick ==
    /\ \A r \in Requests : Timed(calls[r]) => calls[r].age < Limit(calls[r])
    /\ pinAge' = Older(pinAge, PinCap)
    /\ movedAge' = Older(movedAge, MoveCap)
    /\ calls' = [r \in Requests |->
                    IF Timed(calls[r])
                    THEN Call(calls[r].pc, calls[r].age + 1, calls[r].digest, calls[r].last)
                    ELSE calls[r]]
    /\ UNCHANGED <<free, tag, denied>>

-----------------------------------------------------------------------------
(* generation_slot *)

Arrive(r) ==
    /\ calls[r].pc = "idle"
    /\ calls' = [calls EXCEPT ![r] = Call("wait", 0, None, FALSE)]
    /\ UNCHANGED <<free, pinAge, tag, movedAge, denied>>

\* Mutant: the semaphore is not asked whether a slot is free.
AcquireUnchecked(r) ==
    /\ calls[r].pc = "wait"
    /\ free' = free - 1
    /\ calls' = [calls EXCEPT ![r] = Call("model", 0, None, FALSE)]
    /\ UNCHANGED <<pinAge, tag, movedAge, denied>>

Acquire(r) ==
    /\ calls[r].pc = "wait"
    /\ free > 0
    /\ free' = free - 1
    /\ calls' = [calls EXCEPT ![r] = Call("model", 0, None, FALSE)]
    /\ UNCHANGED <<pinAge, tag, movedAge, denied>>

\* Mutant: the semaphore is acquired without a timeout.
BusyNever(r) ==
    /\ FALSE
    /\ UNCHANGED vars

\* 503 after the wait.
Busy(r) ==
    /\ calls[r].pc = "wait"
    /\ calls[r].age = Wait
    /\ calls' = [calls EXCEPT ![r] = NoCall]
    /\ UNCHANGED <<free, pinAge, tag, movedAge, denied>>

-----------------------------------------------------------------------------
(* _get_model, check_model_pin and model_fingerprint *)

\* Mutant: every use of the model pushes the next check back.
PinFreshSliding(r) ==
    /\ calls[r].pc = "model"
    /\ pinAge <= Recheck
    /\ calls' = [calls EXCEPT ![r] = Call("generate", 0, None, calls[r].last)]
    /\ pinAge' = 0
    /\ UNCHANGED <<free, tag, movedAge, denied>>

PinFresh(r) ==
    /\ calls[r].pc = "model"
    /\ pinAge <= Recheck
    /\ calls' = [calls EXCEPT ![r] = Call("generate", 0, None, calls[r].last)]
    /\ UNCHANGED <<free, pinAge, tag, movedAge, denied>>

PinDue(r) ==
    /\ calls[r].pc = "model"
    /\ pinAge > Recheck
    /\ calls' = [calls EXCEPT ![r] = Call("fetch", 0, None, calls[r].last)]
    /\ UNCHANGED <<free, pinAge, tag, movedAge, denied>>

\* GET /api/tags; any failure is an unresolved digest.
FetchDigest(r) ==
    /\ calls[r].pc = "fetch"
    /\ \E d \in {tag, None} :
          calls' = [calls EXCEPT ![r] = Call("pin", calls[r].age, d, calls[r].last)]
    /\ UNCHANGED <<free, pinAge, tag, movedAge, denied>>

\* _last_pin_check is written before the compare.
PinMatches(r) ==
    /\ calls[r].pc = "pin"
    /\ calls[r].digest = "pinned"
    /\ pinAge' = 0
    /\ calls' = [calls EXCEPT ![r] = Call("generate", 0, None, calls[r].last)]
    /\ UNCHANGED <<free, tag, movedAge, denied>>

\* Mutant: the refusal leaves without giving the slot back.
PinRefusedLeaks(r) ==
    /\ calls[r].pc = "pin"
    /\ calls[r].digest # "pinned"
    /\ pinAge' = 0
    /\ denied' = TRUE
    /\ calls' = [calls EXCEPT ![r] = NoCall]
    /\ UNCHANGED <<free, tag, movedAge>>

\* GeneratorPinMismatch, answered as a refusal; the slot is released.
PinRefused(r) ==
    /\ calls[r].pc = "pin"
    /\ calls[r].digest # "pinned"
    /\ pinAge' = 0
    /\ denied' = TRUE
    /\ free' = free + 1
    /\ calls' = [calls EXCEPT ![r] = NoCall]
    /\ UNCHANGED <<tag, movedAge>>

-----------------------------------------------------------------------------
(* The model answers, fails or, in the agent, asks for more tool calls *)

\* The agent's rounds are exhausted: the model is fetched and asked once more.
AskOnceMore(r) ==
    /\ calls[r].pc = "generate"
    /\ ~calls[r].last
    /\ calls' = [calls EXCEPT ![r] = Call("model", 0, None, TRUE)]
    /\ UNCHANGED <<free, pinAge, tag, movedAge, denied>>

\* An answer, a refusal or an exception, before the model is fetched (the fixed
\* pipeline finds nothing to answer from) or after: the slot is released in any case.
Finish(r) ==
    /\ calls[r].pc \in {"model", "generate"}
    /\ free' = free + 1
    /\ calls' = [calls EXCEPT ![r] = NoCall]
    /\ UNCHANGED <<pinAge, tag, movedAge, denied>>

\* The process starts again, which it only does if the tag is the pinned one.
Restart ==
    /\ tag = "pinned"
    /\ free' = MaxConcurrent
    /\ pinAge' = 0
    /\ calls' = [r \in Requests |-> NoCall]
    /\ UNCHANGED <<tag, movedAge, denied>>

-----------------------------------------------------------------------------
Step(r) ==
    \/ Acquire(r) \/ Busy(r)
    \/ PinFresh(r) \/ PinDue(r) \/ FetchDigest(r) \/ PinMatches(r) \/ PinRefused(r)
    \/ AskOnceMore(r) \/ Finish(r)

Next ==
    \/ \E t \in {"pinned", "moved"} : MoveTag(t)
    \/ Tick
    \/ \E r \in Requests : Arrive(r) \/ Step(r)
    \/ Restart

Spec == Init /\ [][Next]_vars

\* Time passes, and a request that can go on does: the model server answers or
\* runs into REQUEST_TIMEOUT.
FairSpec == Spec /\ WF_vars(Tick) /\ \A r \in Requests : WF_vars(Step(r))

-----------------------------------------------------------------------------
(* Properties *)

Holding(r) == calls[r].pc \in {"model", "fetch", "pin", "generate"}

Holders == {r \in Requests : Holding(r)}

\* A slot is released exactly once on every way out, the refusal of a moved tag
\* included: at no time is one lost, or one more in use than the limit.
SlotsAddUp == free + Cardinality(Holders) = MaxConcurrent

\* What the timed recheck guarantees: a request gets a generator whose tag moved
\* longer ago than one recheck interval and one fetch of the digest only after
\* some request has been refused since.
MoveIsNoticed ==
    [][ \A r \in Requests :
          /\ calls[r].pc # "generate" /\ calls'[r].pc = "generate"
          /\ tag = "moved" /\ movedAge > Recheck + Timeout
          => denied ]_vars

\* Whoever asks is answered, refused or told that the system is busy, however
\* many others keep asking.
RequestsEnd == \A r \in Requests : calls[r].pc # "idle" ~> calls[r].pc = "idle"
=============================================================================
