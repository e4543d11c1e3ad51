----------------------------- MODULE MCE5Round -----------------------------
(* Instances of E5Round: a short and a long prompt.                        *)
EXTENDS E5Round

MCPrompt3 == [r \in Req |-> IF r = "c" THEN 8 ELSE IF r = "b" THEN 2 ELSE 1]
MCPrompt2 == [r \in Req |-> IF r = "a" THEN 4 ELSE 9]
=============================================================================
