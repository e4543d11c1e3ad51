----------------------------- MODULE SkinnyARInv -----------------------------
(***************************************************************************)
(* The inductive invariant behind SkinnyAR's properties, in named parts.   *)
(* It holds as long as the call counter has not wrapped (NoWrap); TLC      *)
(* checks it on the small instance of MCSkinnyAR and SkinnyARProofs proves *)
(* it for every instance.                                                  *)
(***************************************************************************)
EXTENDS SkinnyAR

(* Fewer calls than the counter can number.                                *)
NoWrap == MaxCalls < SeqMod

Exited(r) == {b \in Blocks : pc[r][b] = "exit"}

(* The blocks of the launched grid, and only they, are not idle.           *)
GridInv ==
  \A r \in Ranks, b \in Blocks :
    pc[r][b] = "idle" <=> ~ (cur[r] > 0 /\ b < Shape(r).grid)

(* While a kernel runs the device counters are one call behind and count   *)
(* the blocks that have left; between kernels they are settled.            *)
CounterInv ==
  \A r \in Ranks :
    IF KernelDone(r)
      THEN seqDev[r] = cur[r] /\ doneDev[r] = 0
      ELSE seqDev[r] + 1 = cur[r] /\ doneDev[r] = Cardinality(Exited(r))

(* Every resident block works on the current call, within its own share.   *)
BlockInv ==
  \A r \in Ranks, b \in Blocks :
    pc[r][b] \in {"write", "spin", "read"} =>
      seq[r][b] = cur[r] /\ todo[r][b] \subseteq Own(Shape(r), b)

(* No rank is ever more than one call ahead of the other.                  *)
LockstepInv == \A r \in Ranks : cur[r] <= cur[Peer(r)] + 1

(* A block past its spin has a peer that has launched the same call.       *)
MetInv ==
  \A r \in Ranks, b \in Blocks :
    pc[r][b] \in {"read", "exit"} => cur[r] <= cur[Peer(r)]

(* Flags and slots never run ahead of the call counter, and a slot only    *)
(* holds data of calls of its own parity.                                  *)
PastInv ==
  \A r \in Ranks, p \in Parities :
    /\ \A b \in Blocks : flag[r][p][b] <= cur[r]
    /\ \A i \in Words : /\ slot[r][p][i] <= cur[r]
                        /\ slot[r][p][i] > 0 => slot[r][p][i] % 2 = p

(* What a block has written so far carries the current call's number.      *)
WrittenInv ==
  \A r \in Ranks, b \in Blocks :
    pc[r][b] = "write" =>
      \A i \in Own(Shape(r), b) \ todo[r][b] : slot[r][cur[r] % 2][i] = cur[r]

(* A flag raised for this call or the one before it still vouches for the  *)
(* whole chunk.                                                            *)
FlagInv ==
  \A r \in Ranks, b \in Blocks, n \in Calls :
    /\ n = cur[r] \/ n + 1 = cur[r]
    /\ flag[r][n % 2][b] = n
    => \A i \in Own(call[n], b) : slot[r][n % 2][i] = n

(* While a block reads, the peer's chunk stays that of the current call.   *)
PeerInv ==
  \A r \in Ranks, b \in Blocks :
    pc[r][b] = "read" =>
      \A i \in Own(Shape(r), b) : slot[Peer(r)][cur[r] % 2][i] = cur[r]

(* What a block has summed so far is exact.                                *)
SumInv ==
  \A r \in Ranks, b \in Blocks :
    /\ pc[r][b] = "read" =>
         \A i \in Own(Shape(r), b) \ todo[r][b] : got[r][i] = cur[r]
    /\ pc[r][b] = "exit" => \A i \in Own(Shape(r), b) : got[r][i] = cur[r]

(* The inductive invariant.                                                *)
IInv ==
  /\ TypeOK /\ GridInv /\ CounterInv /\ BlockInv /\ LockstepInv /\ MetInv
  /\ PastInv /\ WrittenInv /\ FlagInv /\ PeerInv /\ SumInv
===============================================================================
