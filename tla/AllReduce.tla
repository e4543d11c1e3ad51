------------------------------ MODULE AllReduce ------------------------------
(***************************************************************************)
(* What a caller of the two-rank all-reduce is promised, with no slots,    *)
(* flags or blocks in sight.  A rank joins its calls one at a time; a call *)
(* returns only when every rank has joined that same call, and what it     *)
(* returns is made of that call's contributions and no other's.            *)
(*                                                                         *)
(* SkinnyAR implements this specification.                                 *)
(***************************************************************************)
EXTENDS Naturals

CONSTANTS
  Ranks,      \* the ranks of the group
  MaxCalls    \* bound: how many calls each rank makes

VARIABLES
  joined,     \* joined[r]: the number of calls rank r has entered
  returned,   \* returned[r]: the number of calls rank r has come back from
  sum         \* sum[r]: the calls whose data r's last result is made of;
              \* empty while a call is in progress
absVars == <<joined, returned, sum>>

Init ==
  /\ joined = [r \in Ranks |-> 0]
  /\ returned = [r \in Ranks |-> 0]
  /\ sum = [r \in Ranks |-> {}]

(* A rank enters its next call.                                            *)
Join(r) ==
  /\ joined[r] = returned[r]
  /\ joined[r] < MaxCalls
  /\ joined' = [joined EXCEPT ![r] = @ + 1]
  /\ sum' = [sum EXCEPT ![r] = {}]
  /\ UNCHANGED returned

(* A rank returns from its call, which every rank has joined by now, with  *)
(* that call's data; an empty message has none.                            *)
Return(r) ==
  /\ returned[r] < joined[r]
  /\ \A p \in Ranks : joined[p] >= joined[r]
  /\ returned' = [returned EXCEPT ![r] = joined[r]]
  /\ \E s \in SUBSET {joined[r]} : sum' = [sum EXCEPT ![r] = s]
  /\ UNCHANGED joined

Next == \E r \in Ranks : Join(r) \/ Return(r)

Spec == Init /\ [][Next]_absVars
==============================================================================
