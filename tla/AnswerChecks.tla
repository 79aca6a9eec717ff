---------------------------- MODULE AnswerChecks ----------------------------
(***************************************************************************)
(* The text algorithms the checks of an answer rest on (app/rag_chain.py): *)
(* the figures a text states, its numerals written in digits, and the      *)
(* claims it is cut into.  A text is a sequence of tokens, or of the       *)
(* numbers of words of its sentences; each algorithm is compared with what *)
(* it is for in MCAnswers.                                                 *)
(***************************************************************************)
EXTENDS Spans, Sequences, SequencesExt

\* A number word, one in digits, "and" or "a", any other word, and whatever
\* stands between words that is no blank.
Token == [kind : {"number", "digits", "glue", "word", "mark"}, value : Nat]

Number(v) == [kind |-> "number", value |-> v]
Digits(v) == [kind |-> "digits", value |-> v]
Glue      == [kind |-> "glue", value |-> 0]
Word      == [kind |-> "word", value |-> 0]

OrOne(n) == IF n = 0 THEN 1 ELSE n

\* The quantity a run of number words spells.
Compose(run) ==
    LET Fold(acc, v) ==
          CASE v = 100   -> [acc EXCEPT !.current = OrOne(@) * 100]
            [] v >= 1000 -> [total |-> acc.total + OrOne(acc.current) * v, current |-> 0]
            [] OTHER     -> [acc EXCEPT !.current = @ + v]
        result == FoldLeft(Fold, [total |-> 0, current |-> 0], run)
    IN result.total + result.current

\* A lone "one" is no quantity.
Quantity(run) == IF run \in {<<>>, <<1>>} THEN {} ELSE {Compose(run)}

\* _figures: digits as they are, and number words in runs that only a word ends.
FiguresOf(text) ==
    LET Fold(acc, t) ==
          CASE t.kind = "number" -> [acc EXCEPT !.run = Append(@, t.value)]
            [] t.kind = "word"   -> [found |-> acc.found \cup Quantity(acc.run), run |-> <<>>]
            [] OTHER             -> acc
        result == FoldLeft(Fold, [found |-> {}, run |-> <<>>], text)
    IN {t.value : t \in {u \in ToSet(text) : u.kind = "digits"}}
       \cup result.found \cup Quantity(result.run)

\* One match of _NUMERAL_RUN rewritten: glue at its edges stays.
Rewritten(match) ==
    LET numbers == {i \in DOMAIN match : match[i].kind = "number"}
        values  == [i \in DOMAIN SelectSeq(match, LAMBDA t : t.kind = "number") |->
                      SelectSeq(match, LAMBDA t : t.kind = "number")[i].value]
    IN IF values \in {<<>>, <<1>>} THEN match
       ELSE LET first == CHOOSE i \in numbers : \A j \in numbers : i <= j
                last  == CHOOSE i \in numbers : \A j \in numbers : i >= j
            IN SubSeq(match, 1, first - 1) \o <<Digits(Compose(values))>>
               \o SubSeq(match, last + 1, Len(match))

\* _normalise_numerals: runs of number words and glue, with blanks between them.
NormaliseNumerals(text) ==
    LET Fold(acc, t) ==
          IF t.kind \in {"number", "glue"} THEN [acc EXCEPT !.match = Append(@, t)]
          ELSE [out |-> acc.out \o Rewritten(acc.match) \o <<t>>, match |-> <<>>]
        result == FoldLeft(Fold, [out |-> <<>>, match |-> <<>>], text)
    IN result.out \o Rewritten(result.match)

\* _claims: the sentences of each claim, given how many words each sentence has.
\* A single word joins the claim before it, or waits for the one after it.
Claims(words) ==
    LET Fold(acc, i) ==
          CASE words[i] >= 2 -> [claims |-> Append(acc.claims, Append(acc.pending, i)),
                                 pending |-> <<>>]
            [] words[i] < 2 /\ acc.claims # <<>> ->
                  [acc EXCEPT !.claims[Len(acc.claims)] = Append(@, i)]
            [] OTHER -> [acc EXCEPT !.pending = Append(@, i)]
        result == FoldLeft(Fold, [claims |-> <<>>, pending |-> <<>>], [i \in DOMAIN words |-> i])
    IN IF result.pending = <<>> THEN result.claims ELSE Append(result.claims, result.pending)
=============================================================================
