------------------------------ MODULE MCPtvRound ------------------------------
(***************************************************************************)
(* Small values for PtvRound: a first round that is green and diagnosed in *)
(* full or in part, and a second that confirms the first or not, evaluates *)
(* its commit again, is fixed afterwards or not, and stays green or        *)
(* regresses.  All predictions are the same and sound.                     *)
(***************************************************************************)
EXTENDS PtvRound

MCRounds == {1, 2}

MCPreparations ==
  LET same  == [eval |-> "a", fix |-> None, post |-> None]
      fixed == [eval |-> "a", fix |-> None, post |-> "b"]
  IN  <<{[confirms |-> 0, lineage |-> same]},
        {[confirms |-> 1, lineage |-> l] : l \in {same, fixed}}>>

MCRows == <<{"p"}, {"p"}>>

MCEvals ==
  LET green == [green |-> TRUE, contract |-> "regression", metrics |-> [top1 |-> 1, top3 |-> 1]]
      red   == [green |-> FALSE, contract |-> "regression", metrics |-> [top1 |-> 0, top3 |-> 0]]
  IN  <<{green}, {green, red}>>

MCDiagnoses ==
  <<{[left |-> {"FIX-A"}, whole |-> TRUE], [left |-> {"FIX-A"}, whole |-> FALSE]},
    {[left |-> {"FIX-A"}, whole |-> TRUE]}>>

MCSelectable == <<{}, {"FIX-M"}>>
===============================================================================
