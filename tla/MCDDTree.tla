------------------------------ MODULE MCDDTree ------------------------------
(* Two requests, trees of up to four nodes (a chain, forks at the root and *)
(* below it), and a limit the first request reaches.                       *)
EXTENDS DDTree

MCTrees == {<<0>>, <<0, 1>>, <<0, 0>>, <<0, 0, 2>>, <<0, 1, 0, 3>>, <<0, 1, 1, 3>>}
MCMaxTokens == [r \in Req |-> IF r = "a" THEN 2 ELSE 9]
MCBoots == {[overrides |-> o, compacts |-> c, fast |-> f] : o \in BOOLEAN, c \in BOOLEAN, f \in BOOLEAN}
=============================================================================
