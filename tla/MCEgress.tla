------------------------------ MODULE MCEgress ------------------------------
(***************************************************************************)
(* The instance of Egress for TLC.                                         *)
(***************************************************************************)
EXTENDS Egress, TLC

\* Requests differ in nothing.
Interchangeable == Permutations(Requests)

\* SYSTEM_PROMPT and JUDGE_PROMPT of rag_chain.py, AGENT_SYSTEM_PROMPT of agent.py.
MCPromptSeq == <<"system", "judge", "agent">>

MCCoreLength == [key |-> 8, pin |-> 7]

Honest == [shaped |-> FALSE, secrets |-> {}, quotes |-> {}, windows |-> <<"low", "elevated">>,
           sentences |-> <<"documents", "neither">>, personal |-> TRUE, markup |-> FALSE]

\* An honest answer, one with a credential and a short secret, one that spells a
\* secret, quotes of two prompts, and two retellings of a prompt.
MCTexts ==
    {Honest,
     [Honest EXCEPT !.shaped = TRUE, !.secrets = {<<"pin", "plain">>}],
     [Honest EXCEPT !.secrets = {<<"key", "spelled">>, <<"pin", "coded">>}],
     [Honest EXCEPT !.quotes = {<<"agent", "plain">>}, !.sentences = <<"prompt">>],
     [Honest EXCEPT !.quotes = {<<"system", "coded">>}, !.markup = TRUE],
     [Honest EXCEPT !.windows = <<"elevated", "low", "elevated">>, !.sentences = <<"neither">>],
     [Honest EXCEPT !.sentences = <<"documents", "prompt">>, !.markup = TRUE]}
=============================================================================
