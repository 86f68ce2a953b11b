---------------------------------- MODULE Sums ----------------------------------
EXTENDS Naturals, Sequences

\* The sum of a list of numbers.
Total(terms) ==
    LET upTo[n \in 0..Len(terms)] == IF n = 0 THEN 0 ELSE upTo[n - 1] + terms[n]
    IN  upTo[Len(terms)]
=============================================================================
