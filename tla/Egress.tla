------------------------------- MODULE Egress -------------------------------
(***************************************************************************)
(* The last check of an answer: app/filters/output_filter.py, as the two   *)
(* answer paths call it while they hold a generation slot.                 *)
(*                                                                         *)
(* The word spans of the hidden prompts are collected by the first check   *)
(* of a process, in a global that the threads of the other requests read   *)
(* and fill at the same time.  An answer is what the checks tell apart of  *)
(* it: the shapes, secrets and quotes it holds, how near its windows and   *)
(* its sentences are to the prompts, and whether it carries personal data  *)
(* or markup.  The embedding model may fail at any call.                   *)
(***************************************************************************)
EXTENDS Slots, Sequences, Functions

CONSTANTS
    PromptSeq,    \* _HIDDEN_CONTEXT, in the order the modules are imported
    Secrets,      \* values the environment may hold
    CoreLength,   \* letters and digits of each
    MinCore,      \* the shortest core that is registered: 8
    Texts,        \* what the model may write
    Refusal

Prompts == Range(PromptSeq)

\* How a secret or a quote may be written: as it is, spelled out, in an encoding
\* the filter undoes, or in a cipher agreed on in the question.
Forms == {"plain", "spelled", "coded", "cipher"}

\* What the checks tell apart of an answer.
Drafts == [shaped : BOOLEAN, personal : BOOLEAN, markup : BOOLEAN,
           secrets : SUBSET (Secrets \X Forms), quotes : SUBSET (Prompts \X Forms),
           windows : Seq({"low", "elevated", "high"}),
           sentences : Seq({"documents", "prompt", "neither"})]

ASSUME EgressAssumption ==
    /\ PromptSeq \in Seq(Prompts)
    /\ CoreLength \in [Secrets -> Nat] /\ MinCore \in Nat
    /\ Texts \subseteq Drafts
    /\ None \notin Requests

VARIABLES
    registered,   \* _SECRETS
    grams,        \* _hidden_grams: the set it names, by the request that made it
    content,      \* the prompts whose spans each of these sets holds
    request,      \* the thread of each request
    out           \* what its caller gets

egressVars == <<registered, grams, content, request, out>>

Steps == {"idle", "scan", "assign", "load", "store", "empty", "written", "decoded",
          "resembles", "ground"}

\* A sentence that describes a prompt more than the documents, next to one that does not.
Woven(a) == {"documents", "prompt"} \subseteq Range(a.sentences)

\* _SENTENCE splits and redact_ungrounded joins: flagged sentences are replaced
\* while the answer keeps a grounded one.
Grounded(a) ==
    IF Woven(a)
    THEN [a EXCEPT !.sentences = [i \in DOMAIN @ |->
              IF @[i] = "prompt" THEN "neither" ELSE @[i]]]
    ELSE a

\* redact masks what the _REDACT_RULES match.
Redacted(a) == [a EXCEPT !.personal = FALSE]

\* neutralize_markup escapes an answer with markup as a whole.
Neutralised(a) == [a EXCEPT !.markup = FALSE]

\* What is served of an answer nothing blocks: markup is looked for last.  What the
\* rewriting makes of the rest is not followed: windows, secrets and quotes stay as
\* the checks before it saw them.
Filtered(a) == Neutralised(Redacted(Grounded(a)))

EgressTypeOK ==
    /\ registered \subseteq {s \in Secrets : CoreLength[s] >= MinCore}
    /\ grams \in Requests \cup {None}
    /\ content \in [Requests -> SUBSET Prompts]
    /\ request \in [Requests -> [pc : Steps, text : Texts \cup {None}, hits : BOOLEAN,
                                 next : Nat \ {0}, loaded : Requests \cup {None}]]
    /\ out \in [Requests -> {Filtered(a) : a \in Texts} \cup {Refusal, None}]

-----------------------------------------------------------------------------
(* What the checks look for *)

\* Mutant: every value is registered, the shortest ones too.
AnyValueRegistered(configured) == configured

\* protect_secret keeps a value whose canonical core is long enough.
SecretsKept(configured) == {s \in configured : CoreLength[s] >= MinCore}

\* leaks_secret undoes the spellings and the encodings it knows.
LeaksSecret(a) == \E s \in registered, form \in Forms \ {"cipher"} : <<s, form>> \in a.secrets

\* One window close to a prompt, or two that are elevated.
Resembles(a) ==
    \/ "high" \in Range(a.windows)
    \/ Cardinality({i \in DOMAIN a.windows : a.windows[i] # "low"}) >= 2

\* Mutant: resembles_hidden_context as its docstring has it, FALSE on any failure.
ResemblingFailingOpen(a, fails) == ~fails /\ Resembles(a)

\* Without the embedding model the answer is withheld.
Resembling(a, fails) == fails \/ Resembles(a)

\* The prompts an answer quotes in one of these forms.
Quoted(a, forms) == {p \in Prompts : a # None /\ \E form \in forms : <<p, form>> \in a.quotes}

-----------------------------------------------------------------------------
(* The threads *)

Idle == [pc |-> "idle", text |-> None, hits |-> FALSE, next |-> 1, loaded |-> None]

InitialSecrets == \E configured \in SUBSET Secrets : registered = SecretsKept(configured)

EgressInit ==
    /\ InitialSecrets
    /\ grams = None
    /\ content = [r \in Requests |-> {}]
    /\ request = [r \in Requests |-> Idle]
    /\ out = [r \in Requests |-> None]

\* The thread of r is at step pc.
At(r, pc) == request[r].pc = pc

Building(r) == request[r].pc \in {"assign", "load", "store"}

Goto(r, pc) == request' = [request EXCEPT ![r].pc = pc]

Active == {r \in Requests : ~At(r, "idle")}

\* An answer reaches apply, inside the generation slot of its request.
Submit(r) ==
    /\ At(r, "idle")
    /\ Cardinality(Active) < MaxConcurrent
    /\ \E a \in Texts : request' = [request EXCEPT ![r] = [Idle EXCEPT !.pc = "scan", !.text = a]]
    /\ out' = [out EXCEPT ![r] = None]
    /\ UNCHANGED <<registered, grams, content>>

\* The _BLOCK_RULES and leaks_secret; then whether the spans have been collected.
Scan(r) ==
    /\ At(r, "scan")
    /\ request' = [request EXCEPT
          ![r].hits = request[r].text.shaped \/ LeaksSecret(request[r].text),
          ![r].pc = IF grams = None THEN "assign" ELSE "empty"]
    /\ UNCHANGED <<registered, grams, content, out>>

\* The global names a new empty set.
GramsAssign(r) ==
    /\ At(r, "assign")
    /\ grams' = r
    /\ content' = [content EXCEPT ![r] = {}]
    /\ Goto(r, IF PromptSeq = <<>> THEN "empty" ELSE "load")
    /\ UNCHANGED <<registered, out>>

\* `_hidden_grams |= ...` reads the global before it has the spans of the prompt.
GramsLoad(r) ==
    /\ At(r, "load")
    /\ request' = [request EXCEPT ![r].loaded = grams, ![r].pc = "store"]
    /\ UNCHANGED <<registered, grams, content, out>>

\* Mutant: the last prompt is left out.
GramsStoreShort(r) ==
    /\ At(r, "store")
    /\ LET s == request[r].loaded
           n == request[r].next
           last == n >= Len(PromptSeq) - 1
       IN /\ content' = [content EXCEPT ![s] = @ \cup {PromptSeq[n]}]
          /\ grams' = s
          /\ request' = [request EXCEPT ![r].loaded = None, ![r].next = IF last THEN n ELSE n + 1,
                                        ![r].pc = IF last THEN "empty" ELSE "load"]
    /\ UNCHANGED <<registered, out>>

\* It adds them to the set it read, and makes the global name that set again.
GramsStore(r) ==
    /\ At(r, "store")
    /\ LET s == request[r].loaded
           n == request[r].next
           last == n = Len(PromptSeq)
       IN /\ content' = [content EXCEPT ![s] = @ \cup {PromptSeq[n]}]
          /\ grams' = s
          /\ request' = [request EXCEPT ![r].loaded = None, ![r].next = IF last THEN n ELSE n + 1,
                                        ![r].pc = IF last THEN "empty" ELSE "load"]
    /\ UNCHANGED <<registered, out>>

\* Without spans there is no leak.
LookAtNothing(r) ==
    /\ At(r, "empty")
    /\ Goto(r, IF content[grams] = {} THEN "resembles" ELSE "written")
    /\ UNCHANGED <<registered, grams, content, out>>

\* A quote is matched against the set the global names by now.  A leak is a hit,
\* and its resemblance is not looked at any more.
Match(r, forms, miss) ==
    /\ IF content[grams] \cap Quoted(request[r].text, forms) # {}
       THEN request' = [request EXCEPT ![r].hits = TRUE, ![r].pc = "ground"]
       ELSE Goto(r, miss)
    /\ UNCHANGED <<registered, grams, content, out>>

MatchWritten(r) == At(r, "written") /\ Match(r, {"plain"}, "decoded")

\* Mutant: only what a decoding leaves as it was is matched.
MatchNothingDecoded(r) == At(r, "decoded") /\ Match(r, {}, "resembles")

MatchDecoded(r) == At(r, "decoded") /\ Match(r, {"coded"}, "resembles")

ResemblesPrompt(r) ==
    /\ At(r, "resembles")
    /\ \E fails \in BOOLEAN :
          request' = [request EXCEPT ![r].pc = "ground",
              ![r].hits = @ \/ Resembling(request[r].text, fails)]
    /\ UNCHANGED <<registered, grams, content, out>>

\* redact_ungrounded, if nothing hit and there are sentences to tell apart, and the
\* rest of apply: one refusal for every hit, or the filtered answer.
Apply(r) ==
    /\ At(r, "ground")
    /\ \E fails \in BOOLEAN :
          out' = [out EXCEPT ![r] =
              IF request[r].hits \/ (fails /\ Len(request[r].text.sentences) >= 2)
              THEN Refusal ELSE Filtered(request[r].text)]
    /\ request' = [request EXCEPT ![r] = Idle]
    /\ UNCHANGED <<registered, grams, content>>

\* The process stops, and starts with the values its environment holds by then.
EgressRestart ==
    /\ \E configured \in SUBSET Secrets : registered' = SecretsKept(configured)
    /\ grams' = None
    /\ content' = [r \in Requests |-> {}]
    /\ request' = [r \in Requests |-> Idle]
    /\ out' = [r \in Requests |-> None]

EgressNext ==
    \/ \E r \in Requests :
          \/ Submit(r) \/ Scan(r)
          \/ GramsAssign(r) \/ GramsLoad(r) \/ GramsStore(r)
          \/ LookAtNothing(r) \/ MatchWritten(r) \/ MatchDecoded(r)
          \/ ResemblesPrompt(r) \/ Apply(r)
    \/ EgressRestart

EgressSpec == EgressInit /\ [][EgressNext]_egressVars

-----------------------------------------------------------------------------
(* Properties *)

\* Whatever fails, a served answer holds no registered secret in a form the filter
\* handles, resembles no prompt, and keeps no sentence about a prompt woven
\* between grounded ones, no personal data and no markup.
ServedWasExamined ==
    \A r \in Requests : out[r] \notin {None, Refusal} =>
        /\ ~out[r].shaped /\ ~LeaksSecret(out[r]) /\ ~Resembles(out[r])
        /\ ~Woven(out[r]) /\ ~out[r].personal /\ ~out[r].markup

\* However the threads that found no spans interleave, the set the global names
\* once none of them is collecting holds the spans of every prompt: a store that
\* brings back the set of the other one loses nothing for good.
CacheIsWhole ==
    grams # None /\ (\A r \in Requests : ~Building(r)) => content[grams] = Prompts

\* The forms each look at the text matches.
LookedFor(pc) ==
    CASE pc = "empty" -> {"plain", "coded"}
      [] pc = "written" -> {"plain"}
      [] pc = "decoded" -> {"coded"}
      [] OTHER -> {}

\* A look at an answer that quotes a prompt, as it is or encoded, passes it only
\* while another request collects the spans.
MissesOnlyWhileBuilding ==
    [][\A r \in Requests :
          /\ Quoted(request[r].text, LookedFor(request[r].pc)) # {}
          /\ request'[r].pc \in {"decoded", "resembles"} \ {request[r].pc}
          => \E q \in Requests \ {r} : Building(q)]_egressVars
=============================================================================
