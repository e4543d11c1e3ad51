---------------------------- MODULE MCSpecRound ----------------------------
(* Instances of SpecRound for TLC. *)
EXTENDS SpecRound, TLC
MCPrompt == [r \in Req |-> 3]
\* One prompt longer than the others: its chunks join before and after them.
MCPrompts == LET long == CHOOSE r \in Req : TRUE IN [r \in Req |-> IF r = long THEN 6 ELSE 2]
MCBoots == {<<"sync", TRUE>>, <<"wait", FALSE>>, <<"async", FALSE>>, <<"async", TRUE>>}
\* The serve script's default: synchronous scheduling, one request.
MCServeBoot == {<<"sync", FALSE>>}
\* Requests are not interchangeable: their prompts differ.
Symmetry == Permutations(Groups)
=============================================================================
