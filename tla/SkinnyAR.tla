------------------------------- MODULE SkinnyAR -------------------------------
(***************************************************************************)
(* kernels/skinny_ar.cu: the two-rank all-reduce through pinned host       *)
(* memory.  Each rank runs its calls one after the other on one stream;    *)
(* a call is one kernel whose blocks each publish a chunk in the rank's    *)
(* host slot, raise a flag, spin on the peer's flag of the same block and  *)
(* add the peer's chunk.  Slots and flags are double-buffered by the       *)
(* parity of a call counter that lives in device memory and that the last  *)
(* block to finish advances.                                               *)
(*                                                                         *)
(* The data is abstracted to what the protocol can confuse: a slot word    *)
(* holds the number of the call whose contribution it carries (0 after the *)
(* zeroing of skinny_ar_init), so "the sum is exact" is "every word read   *)
(* carries the number of the current call".                                *)
(*                                                                         *)
(* Host memory is weakly ordered: a word written by a block becomes        *)
(* visible to the peer at any later time, and __threadfence_system is the  *)
(* only thing that makes the flag wait for all of them.  WriteWord is the  *)
(* moment a posted write lands; the fence is Publish's guard.              *)
(***************************************************************************)
EXTENDS Naturals, FiniteSets

CONSTANTS
  SeqMod,      \* 2^32 in the code: the call counter is an unsigned
  MaxCalls,    \* bound: the number of all-reduce calls each rank makes
  SlotWords,   \* slot size in 16-byte words (max_bytes / 16)
  Threads,     \* kThreads
  MaxBlocks,   \* kMaxBlocks: cap on the grid of the plain kernel
  MaxChunks,   \* kMaxChunks: flags per (parity, rank); cap on norm rows
  RowWords,    \* H / 8: words in one row of the fused kernel
  Messages,    \* sizes in words of the plain messages a rank may send
  NormRows,    \* row counts of the fused calls a rank may make
  Residency    \* how many blocks of a kernel the device runs at once

ASSUME WidthAssumption ==
  SeqMod \in Nat /\ SeqMod >= 4 /\ SeqMod % 2 = 0
ASSUME SizeAssumption ==
  /\ MaxCalls \in Nat
  /\ SlotWords \in Nat /\ SlotWords >= 1
  /\ Threads \in Nat /\ Threads >= 1
  /\ MaxChunks \in Nat /\ MaxChunks >= 1
  /\ MaxBlocks \in 1 .. MaxChunks
  /\ RowWords \in Nat /\ RowWords >= 1
  /\ Residency \in Nat /\ Residency >= 1
\* The TORCH_CHECKs of the two entry points: a message fits in a slot, and
\* 1 <= M <= kMaxChunks.
ASSUME MessageAssumption ==
  /\ Messages \subseteq 0 .. SlotWords
  /\ NormRows \subseteq 1 .. MaxChunks
  /\ \A m \in NormRows : m * RowWords <= SlotWords

Ranks == {0, 1}
Peer(r) == 1 - r
Parities == {0, 1}
Words == 0 .. SlotWords - 1
Blocks == 0 .. MaxChunks - 1
Calls == 1 .. MaxCalls
Seqs == 0 .. SeqMod - 1

CeilDiv(a, b) == (a + b - 1) \div b

(* The launch geometry of skinny_ar_all_reduce and the kernel's chunking;  *)
(* an empty tensor still launches one block.                               *)
PlainShapeFor(n8, cap) ==
  LET want == CeilDiv(n8, Threads)
      grid == IF want > cap THEN cap ELSE IF want < 1 THEN 1 ELSE want
  IN  [words |-> n8, grid |-> grid, per |-> CeilDiv(n8, grid)]

\* A plausible slip: the launch without its kMaxBlocks cap.
UncappedShape(n8) == PlainShapeFor(n8, MaxChunks)

\* A plausible slip: the chunk size rounded down.
FloorShape(n8) ==
  LET s == PlainShapeFor(n8, MaxBlocks)
  IN  [s EXCEPT !.per = n8 \div s.grid]

PlainShape(n8) == PlainShapeFor(n8, MaxBlocks)

(* The launch geometry of skinny_ar_gemma_norm: one block per row.         *)
NormShape(m) == [words |-> m * RowWords, grid |-> m, per |-> RowWords]

Shapes == {PlainShape(n8) : n8 \in Messages} \cup {NormShape(m) : m \in NormRows}

(* The words block b of a call of shape s publishes and reads: [beg, end). *)
Own(s, b) ==
  {i \in 0 .. s.words - 1 : b * s.per <= i /\ i < (b + 1) * s.per}

VARIABLES
  call,      \* call[n]: the shape of the n-th call, the same on both ranks
  cur,       \* cur[r]: the call rank r launched last, 0 before the first
  pc,        \* pc[r][b]: where block b of rank r's kernel is
  seq,       \* seq[r][b]: the block's shared s_seq
  todo,      \* todo[r][b]: words the block has still to write, then to read
  flag,      \* flag[r][p][b]: rank r's flag for parity p and block b
  slot,      \* slot[r][p][i]: the call whose data word i of the slot carries
  got,       \* got[r][i]: the call whose data r added into word i of `out`
  seqDev,    \* *seq_dev: the calls completed, mod SeqMod
  doneDev    \* *done_dev: the blocks of this kernel that have finished
vars == <<call, cur, pc, seq, todo, flag, slot, got, seqDev, doneDev>>

Shape(r) == call[cur[r]]

\* The stream serialises kernels: the next one starts when no block runs.
KernelDone(r) == \A b \in Blocks : pc[r][b] \in {"idle", "exit"}
Running(r) == {b \in Blocks : pc[r][b] \in {"write", "spin", "read"}}

Init ==
  /\ call \in [Calls -> Shapes]
  /\ cur = [r \in Ranks |-> 0]
  /\ pc = [r \in Ranks |-> [b \in Blocks |-> "idle"]]
  /\ seq = [r \in Ranks |-> [b \in Blocks |-> 0]]
  /\ todo = [r \in Ranks |-> [b \in Blocks |-> {}]]
  /\ flag = [r \in Ranks |-> [p \in Parities |-> [b \in Blocks |-> 0]]]
  /\ slot = [r \in Ranks |-> [p \in Parities |-> [i \in Words |-> 0]]]
  /\ got = [r \in Ranks |-> [i \in Words |-> 0]]
  /\ seqDev = [r \in Ranks |-> 0]
  /\ doneDev = [r \in Ranks |-> 0]

-------------------------------------------------------------------------------
(* The host launches the next call on the rank's stream.  `out` is a fresh *)
(* uninitialised tensor.                                                   *)
Launch(r) ==
  /\ cur[r] < MaxCalls
  /\ KernelDone(r)
  /\ cur' = [cur EXCEPT ![r] = @ + 1]
  /\ pc' = [pc EXCEPT ![r] = [b \in Blocks |->
              IF b < call[cur[r] + 1].grid THEN "queued" ELSE "idle"]]
  /\ got' = [got EXCEPT ![r] = [i \in Words |-> 0]]
  /\ UNCHANGED <<call, seq, todo, flag, slot, seqDev, doneDev>>

(* A block becomes resident and thread 0 reads the call counter.           *)
Start(r, b) ==
  /\ pc[r][b] = "queued"
  /\ Cardinality(Running(r)) < Residency
  /\ seq' = [seq EXCEPT ![r][b] = (seqDev[r] + 1) % SeqMod]
  /\ pc' = [pc EXCEPT ![r][b] = "write"]
  /\ todo' = [todo EXCEPT ![r][b] = Own(Shape(r), b)]
  /\ UNCHANGED <<call, cur, flag, slot, got, seqDev, doneDev>>

\* A plausible slip: one slot for every call, no double buffering.
WriteWordOneSlot(r, b, i) ==
  /\ pc[r][b] = "write"
  /\ i \in todo[r][b]
  /\ slot' = [slot EXCEPT ![r][0][i] = cur[r], ![r][1][i] = cur[r]]
  /\ todo' = [todo EXCEPT ![r][b] = @ \ {i}]
  /\ UNCHANGED <<call, cur, pc, seq, flag, got, seqDev, doneDev>>

(* One posted write of the block's chunk lands in host memory.             *)
WriteWord(r, b, i) ==
  /\ pc[r][b] = "write"
  /\ i \in todo[r][b]
  /\ slot' = [slot EXCEPT ![r][seq[r][b] % 2][i] = cur[r]]
  /\ todo' = [todo EXCEPT ![r][b] = @ \ {i}]
  /\ UNCHANGED <<call, cur, pc, seq, flag, got, seqDev, doneDev>>

\* A plausible slip: the flag raised without waiting for the posted writes.
PublishNoFence(r, b) ==
  /\ pc[r][b] = "write"
  /\ flag' = [flag EXCEPT ![r][seq[r][b] % 2][b] = seq[r][b]]
  /\ pc' = [pc EXCEPT ![r][b] = "spin"]
  /\ UNCHANGED <<call, cur, seq, todo, slot, got, seqDev, doneDev>>

(* __threadfence_system, then the flag.                                    *)
Publish(r, b) ==
  /\ pc[r][b] = "write"
  /\ todo[r][b] = {}
  /\ flag' = [flag EXCEPT ![r][seq[r][b] % 2][b] = seq[r][b]]
  /\ pc' = [pc EXCEPT ![r][b] = "spin"]
  /\ UNCHANGED <<call, cur, seq, todo, slot, got, seqDev, doneDev>>

\* A plausible slip: no spin on the peer's flag.
SeePeerUnchecked(r, b) ==
  /\ pc[r][b] = "spin"
  /\ pc' = [pc EXCEPT ![r][b] = "read"]
  /\ todo' = [todo EXCEPT ![r][b] = Own(Shape(r), b)]
  /\ UNCHANGED <<call, cur, seq, flag, slot, got, seqDev, doneDev>>

(* The spin ends: the peer's flag for this block carries this call's       *)
(* number.                                                                 *)
SeePeer(r, b) ==
  /\ pc[r][b] = "spin"
  /\ flag[Peer(r)][seq[r][b] % 2][b] = seq[r][b]
  /\ pc' = [pc EXCEPT ![r][b] = "read"]
  /\ todo' = [todo EXCEPT ![r][b] = Own(Shape(r), b)]
  /\ UNCHANGED <<call, cur, seq, flag, slot, got, seqDev, doneDev>>

(* One word of the peer's chunk is read from host memory and added.        *)
ReadWord(r, b, i) ==
  /\ pc[r][b] = "read"
  /\ i \in todo[r][b]
  /\ got' = [got EXCEPT ![r][i] = slot[Peer(r)][seq[r][b] % 2][i]]
  /\ todo' = [todo EXCEPT ![r][b] = @ \ {i}]
  /\ UNCHANGED <<call, cur, pc, seq, flag, slot, seqDev, doneDev>>

\* A plausible slip: the last block forgets to reset *done_dev.
ExitNoReset(r, b) ==
  /\ pc[r][b] = "read"
  /\ todo[r][b] = {}
  /\ pc' = [pc EXCEPT ![r][b] = "exit"]
  /\ doneDev' = [doneDev EXCEPT ![r] = @ + 1]
  /\ seqDev' = IF doneDev[r] = Shape(r).grid - 1
                 THEN [seqDev EXCEPT ![r] = seq[r][b]] ELSE seqDev
  /\ UNCHANGED <<call, cur, seq, todo, flag, slot, got>>

\* A plausible slip: every block advances the counter as it leaves.
ExitEveryBlock(r, b) ==
  /\ pc[r][b] = "read"
  /\ todo[r][b] = {}
  /\ pc' = [pc EXCEPT ![r][b] = "exit"]
  /\ seqDev' = [seqDev EXCEPT ![r] = seq[r][b]]
  /\ UNCHANGED <<call, cur, seq, todo, flag, slot, got, doneDev>>

(* The block finishes; the last one resets the count and advances the call *)
(* counter.                                                                *)
Exit(r, b) ==
  /\ pc[r][b] = "read"
  /\ todo[r][b] = {}
  /\ pc' = [pc EXCEPT ![r][b] = "exit"]
  /\ IF doneDev[r] = Shape(r).grid - 1
       THEN /\ doneDev' = [doneDev EXCEPT ![r] = 0]
            /\ seqDev' = [seqDev EXCEPT ![r] = seq[r][b]]
       ELSE /\ doneDev' = [doneDev EXCEPT ![r] = @ + 1]
            /\ UNCHANGED seqDev
  /\ UNCHANGED <<call, cur, seq, todo, flag, slot, got>>

BlockStep(r, b) ==
  \/ Start(r, b)
  \/ \E i \in Words : WriteWord(r, b, i) \/ ReadWord(r, b, i)
  \/ Publish(r, b)
  \/ SeePeer(r, b)
  \/ Exit(r, b)

(* Both ranks have made all the calls of the bound and nothing is left.    *)
Finished ==
  /\ \A r \in Ranks : cur[r] = MaxCalls /\ KernelDone(r)
  /\ UNCHANGED vars

Next ==
  \/ \E r \in Ranks : Launch(r)
  \/ \E r \in Ranks, b \in Blocks : BlockStep(r, b)
  \/ Finished

Spec == Init /\ [][Next]_vars

\* A running engine keeps launching, and a resident block keeps executing:
\* the hardware runs every warp of a resident block to completion.
Fairness ==
  /\ \A r \in Ranks : WF_vars(Launch(r))
  /\ \A r \in Ranks, b \in Blocks : WF_vars(BlockStep(r, b))
FairSpec == Spec /\ Fairness

-------------------------------------------------------------------------------
TypeOK ==
  /\ call \in [Calls -> Shapes]
  /\ cur \in [Ranks -> 0 .. MaxCalls]
  /\ pc \in [Ranks -> [Blocks ->
               {"idle", "queued", "write", "spin", "read", "exit"}]]
  /\ seq \in [Ranks -> [Blocks -> Seqs]]
  /\ todo \in [Ranks -> [Blocks -> SUBSET Words]]
  /\ flag \in [Ranks -> [Parities -> [Blocks -> Seqs]]]
  /\ slot \in [Ranks -> [Parities -> [Words -> 0 .. MaxCalls]]]
  /\ got \in [Ranks -> [Words -> 0 .. MaxCalls]]
  /\ seqDev \in [Ranks -> Seqs]
  /\ doneDev \in [Ranks -> 0 .. MaxChunks - 1]

\* The calls a rank has returned from.
Returned(r) == IF KernelDone(r) THEN cur[r] ELSE cur[r] - 1

(* The result of a call is exact: when the kernel is over, every word of   *)
(* the message was summed with the peer's contribution to that very call,  *)
(* never with a stale slot or a half-written chunk.                        *)
Exact ==
  \A r \in Ranks :
    KernelDone(r) /\ cur[r] > 0 =>
      \A i \in 0 .. Shape(r).words - 1 : got[r][i] = cur[r]

(* The header's slot-reuse argument: a slot word is overwritten only after *)
(* the peer has returned from the call whose data it held.                 *)
OverwriteOnlyRead ==
  [][\A r \in Ranks, p \in Parities, i \in Words :
       slot'[r][p][i] # slot[r][p][i] => slot[r][p][i] <= Returned(Peer(r))]_vars

(* Between two calls the device counters are settled: the call counter has *)
(* advanced exactly once per call and the block count is back to zero,     *)
(* whatever the grid and the order in which the blocks finished.           *)
CountersSettled ==
  \A r \in Ranks :
    KernelDone(r) => seqDev[r] = cur[r] % SeqMod /\ doneDev[r] = 0

(* Neither rank is ever left spinning: every call of both ranks returns.   *)
AllCallsReturn ==
  <>(\A r \in Ranks : cur[r] = MaxCalls /\ KernelDone(r))

(* The kernel protocol implements the caller's view of an all-reduce.      *)
Abs == INSTANCE AllReduce WITH
  joined <- cur,
  returned <- [r \in Ranks |-> Returned(r)],
  sum <- [r \in Ranks |->
            IF KernelDone(r) /\ cur[r] > 0
              THEN {got[r][i] : i \in 0 .. Shape(r).words - 1} ELSE {}]

ImplementsAllReduce == Abs!Spec
===============================================================================
