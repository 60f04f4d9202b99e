---------------------------- MODULE MCAlgorithms ----------------------------
(***************************************************************************)
(* The computations of the code that keep no state, asked every question   *)
(* within small bounds: one behaviour per question.  The plan of a run     *)
(* (ResumePlan) takes a step to answer; all others are answered where they *)
(* are asked.  Machine integers have four bits in ResumePlan.              *)
(***************************************************************************)
EXTENDS ResumePlan, Algorithms

CONSTANTS MaxLeaves, MaxName

OptionValues == {-1, 0, 1, 2, 3, 6, 7}
TreeSizes == {0, 1, 2, 3}
IndexValues == {-1, 0, 1, 2, 3, 4, 6, 7}

\* Trees of up to MaxLeaves different entries, and one entry that is in none.
LeafValues == 0 .. MaxLeaves
GrowingTrees == {[i \in 1 .. n |-> i - 1] : n \in 1 .. MaxLeaves}

\* Log entries of both types, with contents of one or two cells.
Contents == {<<7>>, <<7, 8>>}
LogEntries == [type : {Codec!X509}, timestamp : {5}, cert : Contents,
               extensions : {<<>>, <<9>>}, chain : {<<>>, <<3>>}]
              \cup
              [type : {Codec!Precert}, timestamp : {6}, hash : {4}, tbs : Contents,
               cert : Contents, extensions : {<<>>}, chain : {<<3>>}]
ShortTiles == UNION {[1 .. k -> LogEntries] : k \in 1 .. 2}

\* Up to MaxName characters as a name or an option, or no option.
Chars == {" ", ".", "*", "a", "b", "B"}
Letters == [c \in {"B"} |-> "b"]
Strings(chars, n) == UNION {[1 .. k -> chars] : k \in 0 .. n}
SingleOptions == {{s} : s \in Strings(Chars \ {"a"}, MaxName)} \cup {{}}
PlainNames == Strings({".", "a", "B"}, 3)
CertNames == PlainNames \cup {Wildcard \o n : n \in PlainNames}
ShortDomains == {d \in PlainNames : d # <<>> /\ d[1] # "." /\ d[Len(d)] # "."}

-----------------------------------------------------------------------------
MCInit ==
    \/ PlanInit /\ question = [kind |-> "plan"]
    \/ /\ question \in TreeQuestions \cup RangeQuestions \cup TileQuestions
                         \cup DomainQuestions \cup SelectQuestions
       /\ opts = [start |-> 0, count |-> 0, fromEnd |-> FALSE]
       /\ size = 0 /\ saved = None
       /\ plan = [at |-> "unasked"]

MCSpec == MCInit /\ [][PlanNext /\ UNCHANGED question]_<<planVars, question>>
=============================================================================
