------------------------------ MODULE MCAnswers ------------------------------
(***************************************************************************)
(* Instances of Answers for TLC: a curated document and a restricted one,  *)
(* an upload, an upload that reads like an injection, and a curated one on *)
(* another subject.  The text algorithms of AnswerChecks are compared with *)
(* what they are for, over bounded texts.                                  *)
(***************************************************************************)
EXTENDS Answers, AnswerChecks

CONSTANTS policy, salaries, note, trap, stray

\* Two chunks share `overlap` characters, so a run of one more is in one of them;
\* two windows share size - stride words.
ASSUME SpansKeepRuns ==
    \A n \in 1 .. 20, size \in 1 .. 6, step \in 1 .. 6 : step <= size =>
        /\ KeepsRuns(Chunks(n, size, size - step), n, size - step + 1)
        /\ KeepsRuns(Windows(n, size, step), n, size - step + 1)
        /\ n > size => KeepsRuns(Sliding(n, size, step), n, size - step + 1)

BelowHundred(n) ==
    IF n < 20 THEN IF n = 0 THEN <<>> ELSE <<n>>
    ELSE <<n - (n % 10)>> \o (IF n % 10 = 0 THEN <<>> ELSE <<n % 10>>)

BelowThousand(n) ==
    (IF n < 100 THEN <<>> ELSE <<n \div 100, 100>>) \o BelowHundred(n % 100)

\* The words of a number.
Spelled(n) ==
    (IF n < 1000 THEN <<>> ELSE BelowThousand(n \div 1000) \o <<1000>>) \o BelowThousand(n % 1000)

\* Composing the words of a number gives the number.
ASSUME ComposeInvertsSpelling ==
    \A n \in (1 .. 2500) \cup {9 * k * k + k : k \in 16 .. 300} : Compose(Spelled(n)) = n

Texts4 == UNION {[1 .. n -> {Number(1), Number(5), Number(20), Number(100), Number(1000),
                             Glue, Word}] : n \in 0 .. 4}

\* Where only blanks stand between the words, the judge is handed the quantities
\* the figure check counts, and nothing that reads as a number word but "one".
ASSUME JudgeReadsTheFigures ==
    \A text \in Texts4 :
        /\ FiguresOf(NormaliseNumerals(text)) = FiguresOf(text)
        /\ \A t \in ToSet(NormaliseNumerals(text)) : t.kind = "number" => t.value = 1

\* Every sentence is judged once, in order, and none with a single word alone
\* while there is another sentence to read it with.
ASSUME ClaimsCoverTheAnswer ==
    \A n \in 0 .. 7 : \A words \in [1 .. n -> 1 .. 2] :
        LET claims == Claims(words)
        IN /\ FlattenSeq(claims) = [i \in 1 .. n |-> i]
           /\ \A c \in DOMAIN claims : Len(claims[c]) = 1 /\ n > 1 => words[claims[c][1]] = 2
=============================================================================
