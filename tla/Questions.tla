----------------------------- MODULE Questions ------------------------------
(***************************************************************************)
(* The frame in which the pure functions of the program are checked.  A    *)
(* module of functions has one action per function that asks a question,   *)
(* the inputs of one call; the properties compare the function's answer    *)
(* with a definition that does not follow the code.  A behaviour asks once.*)
(***************************************************************************)
EXTENDS SequencesExt, Integers
VARIABLE question               \* [of |-> the function, ...its inputs]
CONSTANT MaxLen                 \* bound: elements of the lists of a question, by function

ListQuestions == {"link", "firewall", "bands", "zone", "autolink", "suggest", "history", "sheet",
           "ledger", "detect", "vrf", "log"}
ASSUME QuestionsAssumption == MaxLen \in [ListQuestions -> Nat]

Fresh == question.of = "nothing"
Asked(name) == question.of = name
QuestionInit == question = [of |-> "nothing"]

\* The elements of a list that are in a set, in their order: what SelectSeq
\* gives, in terms that can be reasoned about.
Filtered(list, set) ==
    FoldLeft(LAMBDA kept, x : IF x \in set THEN Append(kept, x) ELSE kept, <<>>, list)
=============================================================================
