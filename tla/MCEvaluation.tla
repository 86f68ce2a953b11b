----------------------------- MODULE MCEvaluation -----------------------------
(* Two cases over results of a header and one line; a line may look like a  *)
(* header, and either line may hold the expected substring.                *)
EXTENDS Evaluation, TLC

CONSTANTS e1, e2

Head1(hit) == [score |-> "start", hit |-> hit]
Results == {<<Head1(FALSE), l>> : l \in Line} \cup {<<Head1(TRUE)>>}
Hit == <<Head1(FALSE), [score |-> "none", hit |-> TRUE]>>

\* What an index of the one chunk size finds, and one of the other.
Found(one, two) == [s \in ScaleSets |-> IF s = "one" THEN one ELSE two]

FirstCases == [results : {Found(one, <<Hit>>) :
                             one \in {<<>>} \cup [1..1 -> Results] \cup [1..2 -> Results]},
               answer : {Found(TRUE, FALSE)}, quiet : {TRUE}, no_evidence : {FALSE},
               complete : {TRUE}]
SecondCase == [results |-> Found(<<>>, <<Hit>>), answer |-> Found(FALSE, TRUE),
               quiet |-> TRUE, no_evidence |-> TRUE, complete |-> TRUE]

\* A case that lacks a key, and one whose diagnostics may be anything.
Incomplete == [SecondCase EXCEPT !.complete = FALSE]
Noisy == [SecondCase EXCEPT !.results = Found(<<>>, <<<<Head1(FALSE)>>>>), !.quiet = FALSE]

MCCaseLists == {<<c, SecondCase>> : c \in FirstCases}
                   \cup {<<SecondCase, Incomplete>>, <<SecondCase, Noisy>>}
MCOptions == {[scales |-> "one", limit |-> 0, generate |-> TRUE, keep |-> FALSE],
              [scales |-> "one", limit |-> 1, generate |-> FALSE, keep |-> TRUE],
              [scales |-> "two", limit |-> 0, generate |-> FALSE, keep |-> TRUE]}
Symmetric == Permutations({e1, e2})
=============================================================================
