------------------------------ MODULE Evaluation ------------------------------
(***************************************************************************)
(* The retrieval evaluation (src/eval/eval.cpp): processes that build an   *)
(* index in a cache directory, run `query` and `ask` on it for each case,  *)
(* take the printed results apart again and add up what they found.        *)
(* Evaluations of the same documents, perhaps in chunks of other sizes, may *)
(* share the directory.  A command that a signal kills may pass for one    *)
(* that succeeds, with what it had printed until then.                     *)
(*                                                                         *)
(* Output is a sequence of lines.  A line has "score=" at its start, or    *)
(* inside it, or not at all, and the expected substring or not.            *)
(***************************************************************************)
EXTENDS Sums, FiniteSetsExt, SequencesExt

CONSTANTS
    Evaluators, \* the processes
    ScaleSets,  \* what --scales may be
    Options,    \* their --scales, --limit (0: none), --generate and --keep
    CaseLists,  \* the cases that cases.json may hold
    Unit        \* reciprocal ranks are counted in units of 1/Unit

Line == [score : {"start", "inside", "none"}, hit : BOOLEAN]

\* What run_query prints for a result: its header and the lines of its text.
Result == {r \in Seq(Line) : r # <<>> /\ r[1].score = "start"}

\* A case: by the scales of the index, its results and whether the answer has the
\* substring; whether the diagnostics of its commands have neither "score=" nor
\* the substring and land between lines; whether its documents hold no evidence,
\* and whether all its keys are there.
Case == [results : [ScaleSets -> Seq(Result)], answer : [ScaleSets -> BOOLEAN],
         quiet : BOOLEAN, no_evidence : BOOLEAN, complete : BOOLEAN]

ASSUME EvaluationAssumption ==
    /\ Options \subseteq [scales : ScaleSets, limit : Nat, generate : BOOLEAN, keep : BOOLEAN]
    /\ CaseLists \subseteq Seq(Case)
    /\ Unit \in Nat

VARIABLES
    cases,  \* the cases of cases.json
    cache,  \* whether the directory exists (dir), and the scales of the index in it,
            \* if there is one (index: at most one element)
    eval    \* per process: options, stage (pc), counters and exit status, and whether
            \* it took a query or an ask that was killed for a success (cut)

evalVars == <<cases, cache, eval>>

Counters == [count |-> 0, hits |-> 0, mrr |-> 0, answered |-> 0, answer_hits |-> 0,
             abstain_total |-> 0, abstain_ok |-> 0]

EvalInit ==
    /\ cases \in CaseLists
    /\ cache = [dir |-> FALSE, index |-> {}]
    /\ eval \in [Evaluators -> [options : Options, pc : {"start"}, sum : {Counters},
                                exit : {"none"}, cut : {FALSE}]]

------------------------------------------------------------------------------
(* parse_chunks                                                            *)

Bare == [score |-> "none", hit |-> FALSE]

\* What the lines of a diagnostic can be.
Noise(c) == IF c.quiet THEN {Bare} ELSE Line

\* What is printed with a diagnostic between two lines or, if the case is not quiet,
\* inside of one, of which it leaves another line before and one behind it.
Disturbed(c, printed) ==
    {InsertAt(printed, at, n) : at \in 1..(Len(printed) + 1), n \in Noise(c)} \cup
    IF c.quiet THEN {}
    ELSE {InsertAt(ReplaceAt(printed, at, rest), at, n) :
              at \in DOMAIN printed, rest \in Line, n \in Line}

\* What run_command reads of stdout and stderr: what loading a model logs comes
\* first, and what freeing it logs comes before what is still buffered.
Outputs(c, blocks) ==
    {before \o shown : before \in {<<>>} \cup {<<n>> : n \in Noise(c)},
                       shown \in Disturbed(c, FlattenSeq(blocks))}

\* What is left of a line when only its beginning is printed.
Parts(line) == {part \in Line : /\ part.score \in {"none", line.score}
                                /\ part.hit => line.hit}

\* What a command that is killed may have printed of its output.
CutsOf(lines) ==
    {<<>>} \cup UNION {{Append(SubSeq(lines, 1, t - 1), part) : part \in Parts(lines[t])} :
                          t \in DOMAIN lines}

\* The lines that split the output.
HeaderStarts(lines) == {l \in DOMAIN lines : lines[l].score = "start"}

\* Nothing is a result if the first "score=" is not at the start of its line.
FirstIsHeader(lines) ==
    \E l \in DOMAIN lines : /\ lines[l].score = "start"
                            /\ \A m \in 1..(l - 1) : lines[m].score = "none"

\* The pieces, by the lines they begin with.
Pieces(lines) == IF FirstIsHeader(lines) THEN HeaderStarts(lines) ELSE {}

\* The piece that begins with line l ends before the next header.
PieceHits(lines, l) ==
    \E m \in l..Len(lines) :
        /\ lines[m].hit
        /\ \A n \in (l + 1)..m : n \notin Pieces(lines)

\* Mutant of FirstHit: pieces are counted from 0, which is "no hit".
FirstHitFromZero(lines) ==
    LET hit == {l \in Pieces(lines) : PieceHits(lines, l)}
    IN  IF hit = {} THEN 0
        ELSE Cardinality({l \in Pieces(lines) : l < Min(hit)})

\* first_hit: the rank of the first piece with the expected substring, or 0.
FirstHit(lines) ==
    LET hit == {l \in Pieces(lines) : PieceHits(lines, l)}
    IN  IF hit = {} THEN 0
        ELSE Cardinality({l \in Pieces(lines) : l <= Min(hit)})

ReciprocalRank(rank) == IF rank = 0 THEN 0 ELSE Unit \div rank

------------------------------------------------------------------------------
(* main                                                                    *)

At(e, stage) == eval[e].pc = stage
Goto(e, stage) == eval' = [eval EXCEPT ![e].pc = stage]
Leave(e, exit) == eval' = [eval EXCEPT ![e] = [@ EXCEPT !.pc = "left", !.exit = exit]]

\* cases.json is read and the directory created.
Start(e) ==
    /\ At(e, "start")
    /\ cache' = [cache EXCEPT !.dir = TRUE]
    /\ Goto(e, "index")
    /\ UNCHANGED cases

\* The index command, which needs the directory.
BuildIndex(e) ==
    /\ At(e, "index") /\ cache.dir
    /\ cache' = [cache EXCEPT !.index = {eval[e].options.scales}]
    /\ Goto(e, "case")
    /\ UNCHANGED cases

\* The index command is killed, which WEXITSTATUS takes for exit status 0: before or
\* after it replaced the index.
KilledIndex(e) ==
    /\ At(e, "index")
    /\ \/ UNCHANGED cache
       \/ cache.dir /\ cache' = [cache EXCEPT !.index = {eval[e].options.scales}]
    /\ Goto(e, "case")
    /\ UNCHANGED cases

LimitReached(e) == eval[e].options.limit # 0 /\ eval[e].sum.count >= eval[e].options.limit

HasCase(e) == At(e, "case") /\ eval[e].sum.count < Len(cases) /\ ~LimitReached(e)

CaseOf(e) == cases[eval[e].sum.count + 1]

\* What is made of the output of a query.
Queried(e, lines, cut) ==
    LET rank == FirstHit(lines)
        generate == eval[e].options.generate
        sum == [eval[e].sum EXCEPT !.hits = @ + (IF rank # 0 THEN 1 ELSE 0),
                                   !.mrr = @ + ReciprocalRank(rank),
                                   !.count = @ + (IF generate THEN 0 ELSE 1)]
    IN  /\ eval' = [eval EXCEPT ![e] = [@ EXCEPT !.sum = sum, !.cut = cut,
                                                !.pc = IF generate THEN "ask" ELSE "case"]]
        /\ UNCHANGED <<cases, cache>>

\* The query command, which needs the index.
Query(e) ==
    /\ HasCase(e) /\ CaseOf(e).complete
    /\ \E built \in cache.index :
          \E lines \in Outputs(CaseOf(e), CaseOf(e).results[built]) :
              Queried(e, lines, eval[e].cut)

\* The query command is killed: before it has opened the index, or later.
KilledQuery(e) ==
    /\ HasCase(e) /\ CaseOf(e).complete
    /\ \E blocks \in {<<>>} \cup {CaseOf(e).results[built] : built \in cache.index} :
          \E output \in Outputs(CaseOf(e), blocks) :
              \E lines \in CutsOf(output) : Queried(e, lines, TRUE)

\* Whether all that ask prints has the substring, by whether the answer has it.
Matches(c, answer) == IF c.quiet THEN {answer} ELSE BOOLEAN

\* What is made of the output of an ask.
Asked(e, match, cut) ==
    LET ok == IF match THEN 1 ELSE 0
        no == IF CaseOf(e).no_evidence THEN 1 ELSE 0
        sum == [eval[e].sum EXCEPT
                  !.answered = @ + 1, !.answer_hits = @ + ok,
                  !.abstain_total = @ + no, !.abstain_ok = @ + no * ok,
                  !.count = @ + 1]
    IN  /\ eval' = [eval EXCEPT ![e] = [@ EXCEPT !.sum = sum, !.cut = cut, !.pc = "case"]]
        /\ UNCHANGED <<cases, cache>>

\* The ask command, if asked for, which needs the index too.
Ask(e) ==
    /\ At(e, "ask")
    /\ \E built \in cache.index :
          \E match \in Matches(CaseOf(e), CaseOf(e).answer[built]) :
              Asked(e, match, eval[e].cut)

\* The ask command is killed: before its answer is printed, or later.
KilledAsk(e) ==
    /\ At(e, "ask")
    /\ \E answer \in {FALSE} \cup {CaseOf(e).answer[built] : built \in cache.index} :
          \E match \in Matches(CaseOf(e), answer) : Asked(e, match, TRUE)

\* The report is printed, and the cache removed unless it is to be kept: files
\* that another evaluation puts there meanwhile may keep the directory.
Report(e) ==
    /\ At(e, "case") /\ (eval[e].sum.count = Len(cases) \/ LimitReached(e))
    /\ Leave(e, "success")
    /\ IF eval[e].options.keep THEN UNCHANGED cache
       ELSE \E stays \in {FALSE, cache.dir} : cache' = [dir |-> stays, index |-> {}]
    /\ UNCHANGED cases

\* Mutant of Fail: a command that fails is passed over, and its case counts.
PassOver(e) ==
    /\ \/ HasCase(e) /\ eval' = [eval EXCEPT ![e].sum.count = @ + 1]
       \/ At(e, "ask") /\ eval' = [eval EXCEPT ![e].sum.count = @ + 1, ![e].pc = "case"]
    /\ UNCHANGED <<cases, cache>>

\* cases.json cannot be read, a case lacks a key, a command cannot be run or exits
\* with an error: the evaluation stops and leaves the cache.
Fail(e) ==
    /\ At(e, "start") \/ At(e, "index") \/ HasCase(e) \/ At(e, "ask")
    /\ Leave(e, "error")
    /\ UNCHANGED <<cases, cache>>

Killed(e) == KilledIndex(e) \/ KilledQuery(e) \/ KilledAsk(e)

Proceed(e) ==
    Start(e) \/ BuildIndex(e) \/ Query(e) \/ Ask(e) \/ Killed(e) \/ Report(e) \/ Fail(e)

Left == (\A e \in Evaluators : At(e, "left")) /\ UNCHANGED evalVars

EvalNext == (\E e \in Evaluators : Proceed(e)) \/ Left

EvalSpec == EvalInit /\ [][EvalNext]_evalVars

------------------------------------------------------------------------------
(* Properties                                                              *)

\* The rank of the first result whose text has the expected substring, or 0.
Rank(blocks) ==
    LET hit == {i \in DOMAIN blocks : \E l \in DOMAIN blocks[i] : l # 1 /\ blocks[i][l].hit}
    IN  IF hit = {} THEN 0 ELSE Min(hit)

\* The scales of the indexes that may be in the cache, and the best rank that a case
\* has with any of them, or 0.
InUse == {eval[e].options.scales : e \in Evaluators}

RankOf(c) ==
    LET ranks == {Rank(c.results[s]) : s \in InUse} \ {0}
    IN  IF ranks = {} THEN 0 ELSE Min(ranks)

\* Whether an answer has the substring.
IsAnswered(c) == \E s \in InUse : c.answer[s]

\* No header has the expected substring: in its source, say.
IsBare(c) == \A s \in InUse : \A i \in DOMAIN c.results[s] : ~c.results[s][i][1].hit

\* No line but a header has "score=" in it.
IsPlain(c) ==
    \A s \in InUse : \A i \in DOMAIN c.results[s] : \A l \in DOMAIN c.results[s][i] :
        l # 1 => c.results[s][i][l].score = "none"

Considered(e) ==
    IF eval[e].options.limit \in 1..Len(cases) THEN 1..eval[e].options.limit
    ELSE DOMAIN cases

\* The cases whose substring some result has, and the sum of the reciprocal ranks.
CasesFound(e) == {k \in Considered(e) : RankOf(cases[k]) # 0}
RankSum(e) == Total([k \in Considered(e) |-> ReciprocalRank(RankOf(cases[k]))])

\* The cases that are asked about, and those whose answer has the substring.
CasesAsked(e) == IF eval[e].options.generate THEN Considered(e) ELSE {}
CasesAnswered(e) == {k \in CasesAsked(e) : IsAnswered(cases[k])}
NoEvidence(e) == {k \in CasesAsked(e) : cases[k].no_evidence}

\* An evaluation that reports has taken every case up to its limit into account,
\* once, and passed over no command that failed.  Its numbers are those of the
\* results' texts and of the answers if its queries and asks were not killed, if all
\* that share the cache have its scales, and if headers and diagnostics lack the
\* substring and no text or diagnostic looks like a header: although the others
\* replace the index and remove the cache, and index commands are killed.
MetricsAreRight ==
    \A e \in Evaluators : eval[e].exit = "success" =>
        LET sum == eval[e].sum
        IN  /\ sum.count = Cardinality(Considered(e))
            /\ sum.answered = Cardinality(CasesAsked(e))
            /\ sum.abstain_total = Cardinality(NoEvidence(e))
            /\ (/\ InUse = {eval[e].options.scales} /\ ~eval[e].cut
                /\ \A k \in Considered(e) : cases[k].quiet) =>
                  /\ sum.answer_hits = Cardinality(CasesAnswered(e))
                  /\ sum.abstain_ok = Cardinality(NoEvidence(e) \cap CasesAnswered(e))
                  /\ (\A k \in Considered(e) : IsBare(cases[k]) /\ IsPlain(cases[k])) =>
                        sum.hits = Cardinality(CasesFound(e)) /\ sum.mrr = RankSum(e)

\* A text that looks like a header, a command that is killed and an index of other
\* scales never make the numbers better than the best that an index of those in use
\* gives, if headers and diagnostics lack the substring.
NeverFlatters ==
    \A e \in Evaluators :
        eval[e].exit = "success" /\ (\A k \in Considered(e) : cases[k].quiet) =>
            LET sum == eval[e].sum
            IN  /\ sum.answer_hits <= Cardinality(CasesAnswered(e))
                /\ sum.abstain_ok <= Cardinality(NoEvidence(e) \cap CasesAnswered(e))
                /\ (\A k \in Considered(e) : IsBare(cases[k])) =>
                      sum.hits <= Cardinality(CasesFound(e)) /\ sum.mrr <= RankSum(e)
=============================================================================
