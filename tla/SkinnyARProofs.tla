---------------------------- MODULE SkinnyARProofs ----------------------------
(***************************************************************************)
(* Proofs about SkinnyAR for every instance in which the call counter does *)
(* not wrap: the inductive invariant, and what follows from it.            *)
(***************************************************************************)
EXTENDS SkinnyARInv, FiniteSetTheorems, TLAPS

-------------------------------------------------------------------------------
(* Facts about the data: shapes, shares and parities.                      *)

(* A ceiling division rounds up: q blocks of the returned size suffice.    *)
LEMMA CeilDivFacts ==
  ASSUME NEW a \in Nat, NEW q \in Nat, q >= 1
  PROVE  CeilDiv(a, q) \in Nat /\ q * CeilDiv(a, q) >= a
<1> DEFINE d == (a + q - 1) \div q
<1>1. d \in Nat
  OBVIOUS
<1>2. a + q - 1 = q * d + ((a + q - 1) % q) /\ (a + q - 1) % q < q
  OBVIOUS
<1>3. q * d \in Nat /\ (a + q - 1) % q \in Nat
  BY <1>1
<1> HIDE DEF d
<1>4. q * d >= a
  BY <1>2, <1>3
<1> QED
  BY <1>1, <1>4 DEF CeilDiv, d

(* The share a word of the message falls in exists.                        *)
LEMMA ShareExists ==
  ASSUME NEW i \in Nat, NEW per \in Nat, NEW grid \in Nat, i < grid * per
  PROVE  \E b \in 0 .. grid - 1 : b * per <= i /\ i < (b + 1) * per
<1>1. per >= 1
  OBVIOUS
<1> DEFINE b == i \div per
<1>2. b \in Nat /\ i = per * b + (i % per) /\ i % per < per /\ i % per \in Nat
  BY <1>1
<1> HIDE DEF b
<1>3. b * per <= i /\ i < (b + 1) * per
  BY <1>2
<1>4. b < grid
  BY <1>2, <1>3
<1>5. b \in 0 .. grid - 1
  BY <1>2, <1>4
<1> QED
  BY <1>3, <1>5, Zenon

(* Every launch has at least one block, no more than the flags of a parity *)
(* can serve, and shares that together cover the message, which fits in a  *)
(* slot.                                                                   *)
LEMMA ShapeFacts ==
  ASSUME NEW s \in Shapes
  PROVE  /\ s.words \in Nat /\ s.words <= SlotWords
         /\ s.grid \in 1 .. MaxChunks
         /\ s.per \in Nat
         /\ s.words <= s.grid * s.per
<1>1. CASE \E n8 \in Messages : s = PlainShape(n8)
  <2>1. PICK n8 \in Messages : s = PlainShape(n8)
    BY <1>1
  <2>2. n8 \in Nat /\ n8 <= SlotWords
    BY MessageAssumption, SizeAssumption
  <2> DEFINE want == CeilDiv(n8, Threads)
             grid == IF want > MaxBlocks THEN MaxBlocks
                     ELSE IF want < 1 THEN 1 ELSE want
  <2>3. want \in Nat
    BY <2>2, CeilDivFacts, SizeAssumption
  <2>4. s = [words |-> n8, grid |-> grid, per |-> CeilDiv(n8, grid)]
    BY <2>1 DEF PlainShape, PlainShapeFor
  <2> HIDE DEF want
  <2>5. grid \in 1 .. MaxChunks /\ grid \in Nat /\ grid >= 1
    BY <2>3, SizeAssumption
  <2> HIDE DEF grid
  <2>6. CeilDiv(n8, grid) \in Nat /\ grid * CeilDiv(n8, grid) >= n8
    BY <2>2, <2>5, CeilDivFacts
  <2>7. s.words = n8 /\ s.grid = grid /\ s.per = CeilDiv(n8, grid)
    BY <2>4
  <2> QED
    BY <2>2, <2>5, <2>6, <2>7
<1>2. CASE \E m \in NormRows : s = NormShape(m)
  <2>1. PICK m \in NormRows : s = NormShape(m)
    BY <1>2
  <2>2. m \in 1 .. MaxChunks /\ m * RowWords <= SlotWords /\ m * RowWords \in Nat
    BY MessageAssumption, SizeAssumption
  <2>3. s.words = m * RowWords /\ s.grid = m /\ s.per = RowWords
    BY <2>1 DEF NormShape
  <2> QED
    BY <2>2, <2>3, SizeAssumption
<1> QED
  BY <1>1, <1>2 DEF Shapes

(* No word of a message is left out: some block of the grid owns it.       *)
LEMMA EveryWordOwned ==
  ASSUME NEW s \in Shapes, NEW i \in 0 .. s.words - 1
  PROVE  \E b \in 0 .. s.grid - 1 : i \in Own(s, b)
<1>1. /\ s.words \in Nat /\ s.grid \in Nat /\ s.per \in Nat
      /\ s.words <= s.grid * s.per
  BY ShapeFacts, SizeAssumption
<1>2. i \in Nat /\ i < s.grid * s.per
  BY <1>1
<1>3. PICK b \in 0 .. s.grid - 1 : b * s.per <= i /\ i < (b + 1) * s.per
  BY <1>1, <1>2, ShareExists
<1> QED
  BY <1>3 DEF Own

(* A block's share lies inside the slot.                                   *)
LEMMA OwnInSlot ==
  ASSUME NEW s \in Shapes, NEW b \in Blocks
  PROVE  Own(s, b) \subseteq Words
<1>1. s.words \in Nat /\ s.words <= SlotWords
  BY ShapeFacts
<1> QED
  BY <1>1, SizeAssumption DEF Own, Words

(* Consecutive calls use different buffers.                                *)
LEMMA ParityFacts ==
  ASSUME NEW n \in Nat
  PROVE  n % 2 \in Parities /\ (n + 1) % 2 # n % 2 /\ (n + 2) % 2 = n % 2
BY DEF Parities

(* Below the modulus the counter is the number of the call.                *)
LEMMA NoWrapFacts ==
  ASSUME NoWrap, NEW n \in 0 .. MaxCalls
  PROVE  n \in Seqs /\ n % SeqMod = n
BY WidthAssumption, SizeAssumption DEF NoWrap, Seqs

LEMMA PeerFacts ==
  ASSUME NEW r \in Ranks
  PROVE  Peer(r) \in Ranks /\ Peer(r) # r /\ Peer(Peer(r)) = r
         /\ \A q \in Ranks : q = r \/ q = Peer(r)
BY DEF Ranks, Peer

-------------------------------------------------------------------------------
(* Counting the blocks that have left.                                     *)

LEMMA BlocksFinite ==
  /\ IsFiniteSet(Blocks)
  /\ \A S \in SUBSET Blocks : IsFiniteSet(S) /\ Cardinality(S) \in Nat
<1>1. IsFiniteSet(Blocks)
  BY FS_Interval, SizeAssumption DEF Blocks
<1> QED
  BY <1>1, FS_Subset, FS_CardinalityType

(* Of a launched grid, as many blocks have left as it has exactly when all *)
(* have.                                                                   *)
LEMMA GridCount ==
  ASSUME NEW g \in 1 .. MaxChunks, NEW S \in SUBSET (0 .. g - 1)
  PROVE  /\ Cardinality(S) \in Nat /\ Cardinality(S) <= g
         /\ Cardinality(S) = g <=> S = 0 .. g - 1
<1>1. IsFiniteSet(0 .. g - 1) /\ Cardinality(0 .. g - 1) = g
  BY FS_Interval, SizeAssumption
<1>2. Cardinality(S) \in Nat /\ Cardinality(S) <= g
  BY <1>1, FS_Subset, FS_CardinalityType
<1>3. ASSUME Cardinality(S) = g PROVE S = 0 .. g - 1
  BY <1>1, <1>3, FS_Subset
<1> QED
  BY <1>1, <1>2, <1>3

-------------------------------------------------------------------------------
(* The inductive invariant, one lemma per action.                          *)

(* A launched call has a shape, and the facts every action needs about it. *)
LEMMA LaunchedShape ==
  ASSUME TypeOK, NEW r \in Ranks, cur[r] > 0
  PROVE  /\ cur[r] \in Calls /\ Shape(r) \in Shapes
         /\ Shape(r).grid \in 1 .. MaxChunks
         /\ \A b \in Blocks : Own(Shape(r), b) \subseteq Words
<1>1. cur[r] \in Calls
  BY SizeAssumption DEF TypeOK, Calls
<1>2. Shape(r) \in Shapes
  BY <1>1 DEF TypeOK, Shape
<1> QED
  BY <1>1, <1>2, ShapeFacts, OwnInSlot

LEMMA InitIInv == Init => IInv
<1> SUFFICES ASSUME Init PROVE IInv
  OBVIOUS
<1>1. TypeOK
  BY WidthAssumption, SizeAssumption DEF Init, TypeOK, Seqs
<1>2. KernelDone(0) /\ KernelDone(1)
  BY DEF Init, KernelDone, Ranks
<1>3. GridInv /\ CounterInv
  BY <1>2 DEF Init, GridInv, CounterInv, Ranks
<1>4. BlockInv /\ LockstepInv /\ MetInv
  BY PeerFacts DEF Init, BlockInv, LockstepInv, MetInv
<1>5. PastInv
  BY DEF Init, PastInv
<1>6. WrittenInv /\ PeerInv /\ SumInv
  BY DEF Init, WrittenInv, PeerInv, SumInv
<1>7. FlagInv
  BY SizeAssumption DEF Init, FlagInv, Calls
<1> QED
  BY <1>1, <1>3, <1>4, <1>5, <1>6, <1>7 DEF IInv

LEMMA LaunchIInv ==
  ASSUME NoWrap, IInv, NEW r \in Ranks, Launch(r)
  PROVE  IInv'
<1> USE DEF IInv
<1> DEFINE n == cur[r]
<1>1. n \in Nat /\ n + 1 \in Calls /\ call[n + 1] \in Shapes
      /\ call[n + 1].grid \in 1 .. MaxChunks
  <2>1. n \in Nat /\ n + 1 \in Calls
    BY SizeAssumption DEF Launch, TypeOK, Calls
  <2>2. call[n + 1] \in Shapes
    BY <2>1 DEF TypeOK
  <2> QED
    BY <2>1, <2>2, ShapeFacts
<1>2. /\ cur'[r] = n + 1 /\ cur'[Peer(r)] = cur[Peer(r)]
      /\ \A b \in Blocks :
           /\ pc'[r][b] = IF b < call[n + 1].grid THEN "queued" ELSE "idle"
           /\ pc'[Peer(r)][b] = pc[Peer(r)][b]
      /\ got'[Peer(r)] = got[Peer(r)]
      /\ UNCHANGED <<call, seq, todo, flag, slot, seqDev, doneDev>>
  BY PeerFacts DEF Launch, TypeOK
<1>3. TypeOK'
  <2>1. cur' \in [Ranks -> 0 .. MaxCalls]
    BY SizeAssumption DEF TypeOK, Launch
  <2>2. pc' \in [Ranks -> [Blocks ->
                 {"idle", "queued", "write", "spin", "read", "exit"}]]
    BY DEF TypeOK, Launch
  <2>3. got' \in [Ranks -> [Words -> 0 .. MaxCalls]]
    BY SizeAssumption DEF TypeOK, Launch
  <2> QED
    BY <1>2, <2>1, <2>2, <2>3 DEF TypeOK
<1>4. n <= cur[Peer(r)]
  <2>1. CASE n = 0
    BY <2>1, PeerFacts DEF TypeOK
  <2>2. CASE n > 0
    <3>1. 0 \in Blocks /\ 0 < Shape(r).grid
      BY <2>2, LaunchedShape, SizeAssumption DEF Blocks
    <3>2. pc[r][0] = "exit"
      BY <2>2, <3>1 DEF GridInv, Launch, KernelDone
    <3> QED
      BY <3>1, <3>2 DEF MetInv
  <2> QED
    BY <1>1, <2>1, <2>2
<1>5. GridInv'
  <2> SUFFICES ASSUME NEW q \in Ranks, NEW b \in Blocks
               PROVE  pc'[q][b] = "idle"
                        <=> ~ (cur'[q] > 0 /\ b < call'[cur'[q]].grid)
    BY DEF GridInv, Shape
  <2>1. CASE q = r
    BY <1>1, <1>2, <2>1
  <2>2. CASE q = Peer(r)
    BY <1>2, <2>2 DEF GridInv, Shape
  <2> QED
    BY <2>1, <2>2, PeerFacts
<1>6. CounterInv'
  <2> SUFFICES ASSUME NEW q \in Ranks
               PROVE IF KernelDone(q)'
                       THEN seqDev'[q] = cur'[q] /\ doneDev'[q] = 0
                       ELSE /\ seqDev'[q] + 1 = cur'[q]
                            /\ doneDev'[q] = Cardinality(Exited(q)')
    BY DEF CounterInv
  <2>1. CASE q = r
    <3>1. 0 \in Blocks /\ pc'[r][0] = "queued"
      BY <1>1, <1>2, SizeAssumption DEF Blocks
    <3>2. ~ KernelDone(r)'
      BY <3>1 DEF KernelDone
    <3>3. Exited(r)' = {}
      BY <1>2 DEF Exited
    <3>4. seqDev[r] = n /\ doneDev[r] = 0
      BY DEF CounterInv, Launch
    <3> QED
      BY <1>2, <2>1, <3>2, <3>3, <3>4, FS_EmptySet
  <2>2. CASE q = Peer(r)
    <3>1. (KernelDone(q)' <=> KernelDone(q)) /\ Exited(q)' = Exited(q)
      BY <1>2, <2>2 DEF KernelDone, Exited
    <3> QED
      BY <1>2, <2>2, <3>1 DEF CounterInv
  <2> QED
    BY <2>1, <2>2, PeerFacts
<1>7. BlockInv'
  <2> SUFFICES ASSUME NEW q \in Ranks, NEW b \in Blocks,
                      pc'[q][b] \in {"write", "spin", "read"}
               PROVE  seq[q][b] = cur'[q]
                      /\ todo[q][b] \subseteq Own(call[cur'[q]], b)
    BY <1>2 DEF BlockInv, Shape
  <2>1. q = Peer(r)
    BY <1>2, PeerFacts
  <2> QED
    BY <1>2, <2>1 DEF BlockInv, Shape
<1>8. LockstepInv'
  <2>1. cur[Peer(r)] \in Nat
    BY PeerFacts, SizeAssumption DEF TypeOK
  <2>2. cur'[r] <= cur'[Peer(r)] + 1
    BY <1>1, <1>2, <1>4, <2>1
  <2>3. cur[Peer(r)] <= n + 1
    BY PeerFacts DEF LockstepInv
  <2>4. cur'[Peer(r)] <= cur'[r] + 1
    BY <1>1, <1>2, <2>1, <2>3
  <2> QED
    BY <2>2, <2>4, PeerFacts DEF LockstepInv
<1>9. MetInv'
  <2> SUFFICES ASSUME NEW q \in Ranks, NEW b \in Blocks,
                      pc'[q][b] \in {"read", "exit"}
               PROVE  cur'[q] <= cur'[Peer(q)]
    BY DEF MetInv
  <2>1. q = Peer(r) /\ Peer(q) = r
    BY <1>2, PeerFacts
  <2>2. cur[q] \in Nat /\ cur[q] <= n
    BY <1>2, <2>1, SizeAssumption DEF MetInv, TypeOK
  <2> QED
    BY <1>1, <1>2, <2>1, <2>2
<1>10. PastInv'
  <2> SUFFICES ASSUME NEW q \in Ranks, NEW p \in Parities
               PROVE  /\ \A b \in Blocks : flag[q][p][b] <= cur'[q]
                      /\ \A i \in Words :
                           /\ slot[q][p][i] <= cur'[q]
                           /\ slot[q][p][i] > 0 => slot[q][p][i] % 2 = p
    BY <1>2 DEF PastInv
  <2>1. cur[q] \in Nat /\ cur'[q] \in Nat /\ cur[q] <= cur'[q]
    <3>1. cur[q] \in Nat
      BY SizeAssumption DEF TypeOK
    <3>2. q = r \/ q = Peer(r)
      BY PeerFacts
    <3> QED
      BY <1>1, <1>2, <3>1, <3>2
  <2>2. \A b \in Blocks : flag[q][p][b] \in Nat /\ flag[q][p][b] <= cur[q]
    BY WidthAssumption DEF PastInv, TypeOK, Seqs
  <2>3. \A i \in Words : slot[q][p][i] \in Nat /\ slot[q][p][i] <= cur[q]
    BY SizeAssumption DEF PastInv, TypeOK
  <2> QED
    BY <2>1, <2>2, <2>3 DEF PastInv
<1>11. WrittenInv'
  <2> SUFFICES ASSUME NEW q \in Ranks, NEW b \in Blocks, pc'[q][b] = "write"
               PROVE  \A i \in Own(call[cur'[q]], b) \ todo[q][b] :
                        slot[q][cur'[q] % 2][i] = cur'[q]
    BY <1>2 DEF WrittenInv, Shape
  <2>1. q = Peer(r)
    BY <1>2, PeerFacts
  <2> QED
    BY <1>2, <2>1 DEF WrittenInv, Shape
<1>12. FlagInv'
  <2> SUFFICES ASSUME NEW q \in Ranks, NEW b \in Blocks, NEW m \in Calls,
                      m = cur'[q] \/ m + 1 = cur'[q],
                      flag[q][m % 2][b] = m
               PROVE  \A i \in Own(call[m], b) : slot[q][m % 2][i] = m
    BY <1>2 DEF FlagInv
  <2>1. CASE q = Peer(r)
    BY <1>2, <2>1 DEF FlagInv
  <2>2. CASE q = r
    <3>1. m \in Nat /\ m % 2 \in Parities
      BY ParityFacts, SizeAssumption DEF Calls
    <3>2. flag[r][m % 2][b] <= n
      BY <3>1 DEF PastInv
    <3>3. m = n
      BY <1>1, <1>2, <2>2, <3>1, <3>2
    <3> QED
      BY <2>2, <3>3 DEF FlagInv
  <2> QED
    BY <2>1, <2>2, PeerFacts
<1>13. PeerInv'
  <2> SUFFICES ASSUME NEW q \in Ranks, NEW b \in Blocks, pc'[q][b] = "read"
               PROVE  \A i \in Own(call[cur'[q]], b) :
                        slot[Peer(q)][cur'[q] % 2][i] = cur'[q]
    BY <1>2 DEF PeerInv, Shape
  <2>1. q = Peer(r)
    BY <1>2, PeerFacts
  <2> QED
    BY <1>2, <2>1 DEF PeerInv, Shape
<1>14. SumInv'
  <2> SUFFICES ASSUME NEW q \in Ranks, NEW b \in Blocks
               PROVE  /\ pc'[q][b] = "read" =>
                           \A i \in Own(call[cur'[q]], b) \ todo[q][b] :
                             got'[q][i] = cur'[q]
                      /\ pc'[q][b] = "exit" =>
                           \A i \in Own(call[cur'[q]], b) : got'[q][i] = cur'[q]
    BY <1>2 DEF SumInv, Shape
  <2>1. CASE q = r
    BY <1>2, <2>1
  <2>2. CASE q = Peer(r)
    BY <1>2, <2>2 DEF SumInv, Shape
  <2> QED
    BY <2>1, <2>2, PeerFacts
<1> HIDE DEF IInv
<1> QED
  BY <1>3, <1>5, <1>6, <1>7, <1>8, <1>9, <1>10, <1>11, <1>12, <1>13, <1>14
  DEF IInv

(* A block that is launched and not finished moves on without finishing:   *)
(* the grid, the counters and the calls stand.                             *)
LEMMA RunningStep ==
  ASSUME TypeOK, GridInv, CounterInv, LockstepInv,
         NEW r \in Ranks, NEW b \in Blocks, NEW x,
         pc[r][b] \notin {"idle", "exit"}, x \notin {"idle", "exit"},
         pc' = [pc EXCEPT ![r][b] = x],
         UNCHANGED <<call, cur, seqDev, doneDev>>
  PROVE  GridInv' /\ CounterInv' /\ LockstepInv'
<1>1. \A q \in Ranks, c \in Blocks :
        pc'[q][c] = IF q = r /\ c = b THEN x ELSE pc[q][c]
  BY DEF TypeOK
<1>2. GridInv'
  BY <1>1 DEF GridInv, Shape
<1>3. \A q \in Ranks : Exited(q)' = Exited(q) /\ (KernelDone(q)' <=> KernelDone(q))
  <2> SUFFICES ASSUME NEW q \in Ranks
               PROVE  Exited(q)' = Exited(q) /\ (KernelDone(q)' <=> KernelDone(q))
    OBVIOUS
  <2>1. Exited(q)' = Exited(q)
    BY <1>1 DEF Exited
  <2>2. KernelDone(q)' <=> KernelDone(q)
    BY <1>1 DEF KernelDone
  <2> QED
    BY <2>1, <2>2
<1>4. CounterInv'
  BY <1>3 DEF CounterInv
<1>5. LockstepInv'
  BY DEF LockstepInv
<1> QED
  BY <1>2, <1>4, <1>5

LEMMA StartIInv ==
  ASSUME NoWrap, IInv, NEW r \in Ranks, NEW b \in Blocks, Start(r, b)
  PROVE  IInv'
<1> USE DEF IInv
<1>1. /\ pc[r][b] = "queued"
      /\ cur[r] > 0 /\ Shape(r) \in Shapes
      /\ Own(Shape(r), b) \subseteq Words
      /\ cur[r] \in 0 .. MaxCalls
  <2>1. pc[r][b] = "queued" /\ cur[r] > 0
    BY DEF Start, GridInv
  <2> QED
    BY <2>1, LaunchedShape DEF TypeOK
<1>2. (seqDev[r] + 1) % SeqMod = cur[r] /\ cur[r] \in Seqs
  <2>1. ~ KernelDone(r)
    BY <1>1 DEF KernelDone
  <2> QED
    BY <1>1, <2>1, NoWrapFacts DEF CounterInv
<1>3. /\ pc' = [pc EXCEPT ![r][b] = "write"]
      /\ \A q \in Ranks, c \in Blocks :
           IF q = r /\ c = b
             THEN /\ pc'[q][c] = "write" /\ seq'[q][c] = cur[r]
                  /\ todo'[q][c] = Own(Shape(r), b)
             ELSE /\ pc'[q][c] = pc[q][c] /\ seq'[q][c] = seq[q][c]
                  /\ todo'[q][c] = todo[q][c]
      /\ UNCHANGED <<call, cur, flag, slot, got, seqDev, doneDev>>
  BY <1>2 DEF Start, TypeOK
<1>4. TypeOK'
  <2>1. pc' \in [Ranks -> [Blocks ->
                 {"idle", "queued", "write", "spin", "read", "exit"}]]
    BY DEF TypeOK, Start
  <2>2. seq' \in [Ranks -> [Blocks -> Seqs]]
    BY <1>2 DEF TypeOK, Start
  <2>3. todo' \in [Ranks -> [Blocks -> SUBSET Words]]
    BY <1>1 DEF TypeOK, Start
  <2> QED
    BY <1>3, <2>1, <2>2, <2>3 DEF TypeOK
<1>5. GridInv' /\ CounterInv' /\ LockstepInv'
  BY <1>1, <1>3, RunningStep
<1>6. BlockInv'
  BY <1>3 DEF BlockInv, Shape
<1>7. MetInv'
  BY <1>3 DEF MetInv
<1>8. PastInv' /\ FlagInv'
  BY <1>3 DEF PastInv, FlagInv
<1>9. WrittenInv'
  BY <1>3 DEF WrittenInv, Shape
<1>10. PeerInv'
  <2>0. UNCHANGED <<call, cur, slot>>
    BY <1>3
  <2> SUFFICES ASSUME NEW q \in Ranks, NEW c \in Blocks, pc'[q][c] = "read"
               PROVE  \A j \in Own(Shape(q), c) :
                        slot[Peer(q)][cur[q] % 2][j] = cur[q]
    BY <2>0 DEF PeerInv, Shape
  <2>1. pc[q][c] = "read"
    BY <1>3
  <2> QED
    BY <2>1 DEF PeerInv
<1>11. SumInv'
  <2> SUFFICES ASSUME NEW q \in Ranks, NEW c \in Blocks
               PROVE  /\ pc'[q][c] = "read" =>
                           \A j \in Own(Shape(q), c) \ todo'[q][c] :
                             got[q][j] = cur[q]
                      /\ pc'[q][c] = "exit" =>
                           \A j \in Own(Shape(q), c) : got[q][j] = cur[q]
    BY <1>3 DEF SumInv, Shape
  <2> QED
    BY <1>3 DEF SumInv
<1> HIDE DEF IInv
<1> QED
  BY <1>4, <1>5, <1>6, <1>7, <1>8, <1>9, <1>10, <1>11 DEF IInv

LEMMA WriteWordIInv ==
  ASSUME NoWrap, IInv, NEW r \in Ranks, NEW b \in Blocks, NEW i \in Words,
         WriteWord(r, b, i)
  PROVE  IInv'
<1> USE DEF IInv
<1> DEFINE n == cur[r]
<1>1. /\ pc[r][b] = "write" /\ seq[r][b] = n /\ n \in Nat /\ n > 0
      /\ n % 2 \in Parities /\ n \in 0 .. MaxCalls
  <2>1. pc[r][b] = "write" /\ n > 0
    BY DEF WriteWord, GridInv
  <2>2. n \in Nat /\ n \in 0 .. MaxCalls
    BY SizeAssumption DEF TypeOK
  <2> QED
    BY <2>1, <2>2, ParityFacts DEF BlockInv
<1>2. /\ \A q \in Ranks, p \in Parities, j \in Words :
           slot'[q][p][j] =
             IF q = r /\ p = n % 2 /\ j = i THEN n ELSE slot[q][p][j]
      /\ \A q \in Ranks, c \in Blocks :
           todo'[q][c] = IF q = r /\ c = b THEN todo[r][b] \ {i} ELSE todo[q][c]
      /\ UNCHANGED <<call, cur, pc, seq, flag, got, seqDev, doneDev>>
  BY <1>1 DEF WriteWord, TypeOK
<1>3. TypeOK'
  <2>1. slot' \in [Ranks -> [Parities -> [Words -> 0 .. MaxCalls]]]
    BY <1>1 DEF TypeOK, WriteWord
  <2>2. todo' \in [Ranks -> [Blocks -> SUBSET Words]]
    BY DEF TypeOK, WriteWord
  <2> QED
    BY <1>2, <2>1, <2>2 DEF TypeOK
<1>4. GridInv' /\ CounterInv' /\ LockstepInv' /\ MetInv'
  <2>1. GridInv'
    BY <1>2 DEF GridInv, Shape
  <2>2. CounterInv'
    BY <1>2 DEF CounterInv, KernelDone, Exited, Shape
  <2>3. LockstepInv' /\ MetInv'
    BY <1>2 DEF LockstepInv, MetInv
  <2> QED
    BY <2>1, <2>2, <2>3
<1>5. BlockInv'
  BY <1>2 DEF BlockInv, Shape
<1>6. PastInv'
  <2> SUFFICES ASSUME NEW q \in Ranks, NEW p \in Parities
               PROVE  /\ \A c \in Blocks : flag[q][p][c] <= cur[q]
                      /\ \A j \in Words :
                           /\ slot'[q][p][j] <= cur[q]
                           /\ slot'[q][p][j] > 0 => slot'[q][p][j] % 2 = p
    BY <1>2 DEF PastInv
  <2>1. n <= n
    BY <1>1
  <2> QED
    BY <1>2, <2>1 DEF PastInv
<1>7. WrittenInv'
  <2> SUFFICES ASSUME NEW q \in Ranks, NEW c \in Blocks, pc[q][c] = "write",
                      NEW j \in Own(Shape(q), c) \ todo'[q][c]
               PROVE  slot'[q][cur[q] % 2][j] = cur[q]
    BY <1>2 DEF WrittenInv, Shape
  <2>1. cur[q] > 0 /\ cur[q] \in Nat
    BY SizeAssumption DEF GridInv, TypeOK
  <2>2. j \in Words /\ cur[q] % 2 \in Parities
    BY <2>1, LaunchedShape, ParityFacts
  <2>3. CASE q = r /\ j = i
    BY <1>1, <1>2, <2>2, <2>3
  <2>4. CASE ~ (q = r /\ j = i)
    <3>1. j \notin todo[q][c]
      BY <1>2, <2>4
    <3> QED
      BY <1>2, <2>2, <2>4, <3>1 DEF WrittenInv
  <2> QED
    BY <2>3, <2>4
<1>8. FlagInv'
  <2> SUFFICES ASSUME NEW q \in Ranks, NEW c \in Blocks, NEW m \in Calls,
                      m = cur[q] \/ m + 1 = cur[q],
                      flag[q][m % 2][c] = m,
                      NEW j \in Own(call[m], c)
               PROVE  slot'[q][m % 2][j] = m
    BY <1>2 DEF FlagInv
  <2>1. m \in Nat /\ call[m] \in Shapes
    BY SizeAssumption DEF Calls, TypeOK
  <2>2. j \in Words /\ m % 2 \in Parities /\ (m + 1) % 2 # m % 2
    BY <2>1, OwnInSlot, ParityFacts
  <2>3. slot[q][m % 2][j] = m
    BY DEF FlagInv
  <2> QED
    BY <1>2, <2>2, <2>3
<1>9. PeerInv'
  <2> SUFFICES ASSUME NEW q \in Ranks, NEW c \in Blocks, pc[q][c] = "read",
                      NEW j \in Own(Shape(q), c)
               PROVE  slot'[Peer(q)][cur[q] % 2][j] = cur[q]
    BY <1>2 DEF PeerInv, Shape
  <2>1. cur[q] > 0 /\ cur[q] \in Nat
    BY SizeAssumption DEF GridInv, TypeOK
  <2>2. j \in Words /\ cur[q] % 2 \in Parities /\ (cur[q] + 1) % 2 # cur[q] % 2
    BY <2>1, LaunchedShape, ParityFacts
  <2>3. slot[Peer(q)][cur[q] % 2][j] = cur[q]
    BY DEF PeerInv
  <2>4. Peer(q) = r => n = cur[q] \/ n = cur[q] + 1
    BY <1>1, <2>1, PeerFacts DEF MetInv, LockstepInv
  <2> QED
    BY <1>2, <2>2, <2>3, <2>4, PeerFacts
<1>10. SumInv'
  <2> SUFFICES ASSUME NEW q \in Ranks, NEW c \in Blocks
               PROVE  /\ pc[q][c] = "read" =>
                           \A j \in Own(Shape(q), c) \ todo'[q][c] :
                             got[q][j] = cur[q]
                      /\ pc[q][c] = "exit" =>
                           \A j \in Own(Shape(q), c) : got[q][j] = cur[q]
    BY <1>2 DEF SumInv, Shape
  <2>1. pc[q][c] = "read" => todo'[q][c] = todo[q][c]
    BY <1>1, <1>2
  <2> QED
    BY <2>1 DEF SumInv
<1> HIDE DEF IInv
<1> QED
  BY <1>3, <1>4, <1>5, <1>6, <1>7, <1>8, <1>9, <1>10 DEF IInv

LEMMA PublishIInv ==
  ASSUME NoWrap, IInv, NEW r \in Ranks, NEW b \in Blocks, Publish(r, b)
  PROVE  IInv'
<1> USE DEF IInv
<1> DEFINE n == cur[r]
<1>1. /\ pc[r][b] = "write" /\ todo[r][b] = {} /\ seq[r][b] = n
      /\ n \in Nat /\ n > 0 /\ n \in Seqs
      /\ n % 2 \in Parities /\ n \in Calls
  <2>1. pc[r][b] = "write" /\ todo[r][b] = {} /\ n > 0
    BY DEF Publish, GridInv
  <2>2. n \in Nat /\ n \in 0 .. MaxCalls /\ n \in Calls
    BY <2>1, SizeAssumption DEF TypeOK, Calls
  <2> QED
    BY <2>1, <2>2, ParityFacts, NoWrapFacts DEF BlockInv
<1>2. /\ pc' = [pc EXCEPT ![r][b] = "spin"]
      /\ \A q \in Ranks, c \in Blocks :
           pc'[q][c] = IF q = r /\ c = b THEN "spin" ELSE pc[q][c]
      /\ \A q \in Ranks, p \in Parities, c \in Blocks :
           flag'[q][p][c] =
             IF q = r /\ p = n % 2 /\ c = b THEN n ELSE flag[q][p][c]
      /\ UNCHANGED <<call, cur, seq, todo, slot, got, seqDev, doneDev>>
  BY <1>1 DEF Publish, TypeOK
<1>3. TypeOK'
  <2>1. pc' \in [Ranks -> [Blocks ->
                 {"idle", "queued", "write", "spin", "read", "exit"}]]
    BY DEF TypeOK, Publish
  <2>2. flag' \in [Ranks -> [Parities -> [Blocks -> Seqs]]]
    BY <1>1 DEF TypeOK, Publish
  <2> QED
    BY <1>2, <2>1, <2>2 DEF TypeOK
<1>4. GridInv' /\ CounterInv' /\ LockstepInv'
  <2>1. pc[r][b] \notin {"idle", "exit"} /\ "spin" \notin {"idle", "exit"}
    BY <1>1
  <2> QED
    BY <1>2, <2>1, RunningStep
<1>5. BlockInv'
  BY <1>1, <1>2 DEF BlockInv, Shape
<1>6. MetInv' /\ WrittenInv'
  BY <1>2 DEF MetInv, WrittenInv, Shape
<1>7. PastInv'
  <2> SUFFICES ASSUME NEW q \in Ranks, NEW p \in Parities
               PROVE  /\ \A c \in Blocks : flag'[q][p][c] <= cur[q]
                      /\ \A j \in Words :
                           /\ slot[q][p][j] <= cur[q]
                           /\ slot[q][p][j] > 0 => slot[q][p][j] % 2 = p
    BY <1>2 DEF PastInv
  <2>1. n <= n
    BY <1>1
  <2> QED
    BY <1>2, <2>1 DEF PastInv
<1>8. FlagInv'
  <2> SUFFICES ASSUME NEW q \in Ranks, NEW c \in Blocks, NEW m \in Calls,
                      m = cur[q] \/ m + 1 = cur[q],
                      flag'[q][m % 2][c] = m,
                      NEW j \in Own(call[m], c)
               PROVE  slot[q][m % 2][j] = m
    BY <1>2 DEF FlagInv
  <2>1. m \in Nat /\ m % 2 \in Parities
    BY SizeAssumption, ParityFacts DEF Calls
  <2>2. CASE q = r /\ c = b /\ m = n
    BY <1>1, <2>2 DEF WrittenInv, Shape
  <2>3. CASE ~ (q = r /\ c = b /\ m = n)
    <3>1. flag[q][m % 2][c] = m
      BY <1>2, <2>1, <2>3
    <3> QED
      BY <3>1 DEF FlagInv
  <2> QED
    BY <2>2, <2>3
<1>9. PeerInv' /\ SumInv'
  <2>1. PeerInv'
    BY <1>2 DEF PeerInv, Shape
  <2>2. SumInv'
    BY <1>2 DEF SumInv, Shape
  <2> QED
    BY <2>1, <2>2
<1> HIDE DEF IInv
<1> QED
  BY <1>3, <1>4, <1>5, <1>6, <1>7, <1>8, <1>9 DEF IInv

(* What an equal flag proves: the peer is in the same call or the next     *)
(* one, and its whole chunk of this call is in the slot.                   *)
LEMMA FlagSeen ==
  ASSUME IInv, NEW r \in Ranks, NEW b \in Blocks, cur[r] > 0,
         flag[Peer(r)][cur[r] % 2][b] = cur[r]
  PROVE  /\ cur[r] <= cur[Peer(r)]
         /\ \A i \in Own(Shape(r), b) : slot[Peer(r)][cur[r] % 2][i] = cur[r]
<1> USE DEF IInv
<1> DEFINE n == cur[r]
<1>1. n \in Calls /\ n \in Nat /\ n % 2 \in Parities /\ cur[Peer(r)] \in Nat
  BY LaunchedShape, ParityFacts, PeerFacts, SizeAssumption DEF TypeOK
<1>2. n <= cur[Peer(r)]
  BY <1>1, PeerFacts DEF PastInv
<1>3. cur[Peer(r)] <= n + 1
  BY PeerFacts DEF LockstepInv
<1>4. n = cur[Peer(r)] \/ n + 1 = cur[Peer(r)]
  BY <1>1, <1>2, <1>3
<1> QED
  BY <1>1, <1>2, <1>4, PeerFacts DEF FlagInv, Shape

LEMMA SeePeerIInv ==
  ASSUME NoWrap, IInv, NEW r \in Ranks, NEW b \in Blocks, SeePeer(r, b)
  PROVE  IInv'
<1> USE DEF IInv
<1> DEFINE n == cur[r]
<1>1. /\ pc[r][b] = "spin" /\ seq[r][b] = n
      /\ n > 0 /\ Own(Shape(r), b) \subseteq Words
      /\ flag[Peer(r)][n % 2][b] = n
  <2>1. pc[r][b] = "spin" /\ seq[r][b] = n /\ n > 0
    BY DEF SeePeer, GridInv, BlockInv
  <2> QED
    BY <2>1, LaunchedShape DEF SeePeer
<1>2. /\ pc' = [pc EXCEPT ![r][b] = "read"]
      /\ \A q \in Ranks, c \in Blocks :
           IF q = r /\ c = b
             THEN pc'[q][c] = "read" /\ todo'[q][c] = Own(Shape(r), b)
             ELSE pc'[q][c] = pc[q][c] /\ todo'[q][c] = todo[q][c]
      /\ UNCHANGED <<call, cur, seq, flag, slot, got, seqDev, doneDev>>
  BY DEF SeePeer, TypeOK
<1>3. TypeOK'
  <2>1. pc' \in [Ranks -> [Blocks ->
                 {"idle", "queued", "write", "spin", "read", "exit"}]]
    BY DEF TypeOK, SeePeer
  <2>2. todo' \in [Ranks -> [Blocks -> SUBSET Words]]
    BY <1>1 DEF TypeOK, SeePeer
  <2> QED
    BY <1>2, <2>1, <2>2 DEF TypeOK
<1>4. GridInv' /\ CounterInv' /\ LockstepInv'
  BY <1>1, <1>2, RunningStep
<1>5. BlockInv'
  BY <1>1, <1>2 DEF BlockInv, Shape
<1>6. MetInv'
  BY <1>1, <1>2, FlagSeen DEF MetInv
<1>7. PastInv' /\ FlagInv'
  BY <1>2 DEF PastInv, FlagInv
<1>8. WrittenInv'
  BY <1>2 DEF WrittenInv, Shape
<1>9. PeerInv'
  <2> SUFFICES ASSUME NEW q \in Ranks, NEW c \in Blocks, pc'[q][c] = "read"
               PROVE  \A j \in Own(Shape(q), c) :
                        slot[Peer(q)][cur[q] % 2][j] = cur[q]
    BY <1>2 DEF PeerInv, Shape
  <2>1. CASE q = r /\ c = b
    BY <1>1, <2>1, FlagSeen
  <2>2. CASE ~ (q = r /\ c = b)
    BY <1>2, <2>2 DEF PeerInv
  <2> QED
    BY <2>1, <2>2
<1>10. SumInv'
  <2> SUFFICES ASSUME NEW q \in Ranks, NEW c \in Blocks
               PROVE  /\ pc'[q][c] = "read" =>
                           \A j \in Own(Shape(q), c) \ todo'[q][c] :
                             got[q][j] = cur[q]
                      /\ pc'[q][c] = "exit" =>
                           \A j \in Own(Shape(q), c) : got[q][j] = cur[q]
    BY <1>2 DEF SumInv, Shape
  <2> QED
    BY <1>2 DEF SumInv
<1> HIDE DEF IInv
<1> QED
  BY <1>3, <1>4, <1>5, <1>6, <1>7, <1>8, <1>9, <1>10 DEF IInv

LEMMA ReadWordIInv ==
  ASSUME NoWrap, IInv, NEW r \in Ranks, NEW b \in Blocks, NEW i \in Words,
         ReadWord(r, b, i)
  PROVE  IInv'
<1> USE DEF IInv
<1> DEFINE n == cur[r]
<1>1. /\ pc[r][b] = "read" /\ seq[r][b] = n /\ n \in 0 .. MaxCalls
      /\ slot[Peer(r)][n % 2][i] = n
  <2>1. pc[r][b] = "read" /\ i \in todo[r][b]
    BY DEF ReadWord
  <2>2. seq[r][b] = n /\ i \in Own(Shape(r), b)
    BY <2>1 DEF BlockInv
  <2> QED
    BY <2>1, <2>2 DEF PeerInv, TypeOK
<1>2. /\ \A q \in Ranks, j \in Words :
           got'[q][j] = IF q = r /\ j = i THEN n ELSE got[q][j]
      /\ \A q \in Ranks, c \in Blocks :
           todo'[q][c] = IF q = r /\ c = b THEN todo[r][b] \ {i} ELSE todo[q][c]
      /\ UNCHANGED <<call, cur, pc, seq, flag, slot, seqDev, doneDev>>
  BY <1>1 DEF ReadWord, TypeOK
<1>3. TypeOK'
  <2>1. got' \in [Ranks -> [Words -> 0 .. MaxCalls]]
    BY <1>1 DEF TypeOK, ReadWord
  <2>2. todo' \in [Ranks -> [Blocks -> SUBSET Words]]
    BY DEF TypeOK, ReadWord
  <2> QED
    BY <1>2, <2>1, <2>2 DEF TypeOK
<1>4. GridInv' /\ CounterInv' /\ LockstepInv' /\ MetInv'
  <2>1. GridInv' /\ MetInv'
    BY <1>2 DEF GridInv, MetInv, Shape
  <2>2. CounterInv' /\ LockstepInv'
    BY <1>2 DEF CounterInv, LockstepInv, KernelDone, Exited
  <2> QED
    BY <2>1, <2>2
<1>5. BlockInv'
  BY <1>2 DEF BlockInv, Shape
<1>6. PastInv' /\ FlagInv' /\ PeerInv'
  <2>1. PastInv' /\ FlagInv'
    BY <1>2 DEF PastInv, FlagInv
  <2>2. PeerInv'
    BY <1>2 DEF PeerInv, Shape
  <2> QED
    BY <2>1, <2>2
<1>7. WrittenInv'
  <2>1. \A q \in Ranks, c \in Blocks :
          pc[q][c] = "write" => todo'[q][c] = todo[q][c]
    BY <1>1, <1>2
  <2> QED
    BY <1>2, <2>1 DEF WrittenInv, Shape
<1>8. SumInv'
  <2> SUFFICES ASSUME NEW q \in Ranks, NEW c \in Blocks,
                      NEW j \in Own(Shape(q), c)
               PROVE  /\ pc[q][c] = "read" /\ j \notin todo'[q][c] =>
                           got'[q][j] = cur[q]
                      /\ pc[q][c] = "exit" => got'[q][j] = cur[q]
    BY <1>2 DEF SumInv, Shape
  <2>1. pc[q][c] \in {"read", "exit"} => j \in Words
    BY LaunchedShape DEF GridInv, TypeOK
  <2>2. CASE q = r /\ j = i
    BY <1>2, <2>1, <2>2
  <2>3. CASE ~ (q = r /\ j = i)
    <3>1. j \notin todo'[q][c] => j \notin todo[q][c]
      BY <1>2, <2>3
    <3> QED
      BY <1>2, <2>1, <2>3, <3>1 DEF SumInv
  <2> QED
    BY <2>2, <2>3
<1> HIDE DEF IInv
<1> QED
  BY <1>3, <1>4, <1>5, <1>6, <1>7, <1>8 DEF IInv

(* The block that finds doneDev at grid - 1 is the last of its kernel, and *)
(* no other block is.                                                      *)
LEMMA LastBlock ==
  ASSUME IInv, NEW r \in Ranks, NEW b \in Blocks, Exit(r, b)
  PROVE  /\ doneDev[r] = Cardinality(Exited(r)) /\ seqDev[r] + 1 = cur[r]
         /\ Exited(r)' = Exited(r) \cup {b}
         /\ Cardinality(Exited(r)') = doneDev[r] + 1
         /\ doneDev[r] + 1 <= Shape(r).grid
         /\ KernelDone(r)' <=> doneDev[r] = Shape(r).grid - 1
<1> USE DEF IInv
<1> DEFINE g == Shape(r).grid
           E == Exited(r) \cup {b}
<1>1. pc[r][b] = "read" /\ cur[r] > 0
  BY DEF Exit, GridInv
<1>2. g \in 1 .. MaxChunks
  BY <1>1, LaunchedShape
<1>3. \A c \in Blocks : pc'[r][c] = IF c = b THEN "exit" ELSE pc[r][c]
  BY DEF Exit, TypeOK
<1>4. \A c \in Blocks : c \in 0 .. g - 1 <=> pc[r][c] # "idle"
  BY <1>1, <1>2, SizeAssumption DEF GridInv, Blocks
<1>5. 0 .. g - 1 \subseteq Blocks
  BY <1>2, SizeAssumption DEF Blocks
<1>6. Exited(r)' = E /\ b \notin Exited(r)
  BY <1>1, <1>3 DEF Exited
<1>7. Exited(r) \in SUBSET (0 .. g - 1) /\ E \in SUBSET (0 .. g - 1)
  BY <1>1, <1>4 DEF Exited
<1>8. Cardinality(E) = Cardinality(Exited(r)) + 1
  <2>1. IsFiniteSet(Exited(r))
    BY BlocksFinite DEF Exited
  <2> QED
    BY <1>6, <2>1, FS_AddElement
<1>9. doneDev[r] = Cardinality(Exited(r)) /\ seqDev[r] + 1 = cur[r]
  <2>1. ~ KernelDone(r)
    BY <1>1 DEF KernelDone
  <2> QED
    BY <2>1 DEF CounterInv
<1>10. KernelDone(r)' <=> E = 0 .. g - 1
  <2>1. ASSUME KernelDone(r)' PROVE E = 0 .. g - 1
    <3>1. \A c \in 0 .. g - 1 : pc'[r][c] = "exit"
      BY <1>1, <1>3, <1>4, <1>5, <2>1 DEF KernelDone
    <3> QED
      BY <1>3, <1>5, <1>7, <3>1 DEF Exited
  <2>2. ASSUME E = 0 .. g - 1 PROVE KernelDone(r)'
    BY <1>3, <1>4, <2>2 DEF KernelDone, Exited
  <2> QED
    BY <2>1, <2>2
<1> HIDE DEF g, E
<1>11. Cardinality(E) \in Nat /\ Cardinality(E) <= g
       /\ (Cardinality(E) = g <=> E = 0 .. g - 1)
  BY <1>2, <1>7, GridCount
<1>12. doneDev[r] \in Nat /\ g \in Nat
  BY <1>2, SizeAssumption DEF TypeOK
<1>13. Cardinality(E) = doneDev[r] + 1
  BY <1>8, <1>9
<1>14. doneDev[r] = g - 1 <=> Cardinality(E) = g
  BY <1>12, <1>13
<1>15. KernelDone(r)' <=> doneDev[r] = g - 1
  BY <1>10, <1>11, <1>14
<1> QED
  BY <1>6, <1>9, <1>11, <1>13, <1>15 DEF g, E

LEMMA ExitIInv ==
  ASSUME NoWrap, IInv, NEW r \in Ranks, NEW b \in Blocks, Exit(r, b)
  PROVE  IInv'
<1> USE DEF IInv
<1> DEFINE n == cur[r]
           last == doneDev[r] = Shape(r).grid - 1
<1>1. /\ pc[r][b] = "read" /\ todo[r][b] = {} /\ seq[r][b] = n
      /\ n > 0 /\ n \in Seqs
  <2>1. pc[r][b] = "read" /\ todo[r][b] = {} /\ n > 0
    BY DEF Exit, GridInv
  <2> QED
    BY <2>1, NoWrapFacts DEF BlockInv, TypeOK
<1>2. /\ \A q \in Ranks, c \in Blocks :
           pc'[q][c] = IF q = r /\ c = b THEN "exit" ELSE pc[q][c]
      /\ \A q \in Ranks :
           /\ doneDev'[q] = IF q # r THEN doneDev[q]
                            ELSE IF last THEN 0 ELSE doneDev[r] + 1
           /\ seqDev'[q] = IF q = r /\ last THEN n ELSE seqDev[q]
      /\ UNCHANGED <<call, cur, seq, todo, flag, slot, got>>
  BY <1>1 DEF Exit, TypeOK
<1>3. doneDev[r] + 1 <= Shape(r).grid /\ Shape(r).grid \in 1 .. MaxChunks
  BY <1>1, LastBlock, LaunchedShape
<1>4. TypeOK'
  <2>1. pc' \in [Ranks -> [Blocks ->
                 {"idle", "queued", "write", "spin", "read", "exit"}]]
    BY DEF TypeOK, Exit
  <2>2. seqDev' \in [Ranks -> Seqs]
    BY <1>1 DEF TypeOK, Exit
  <2>3. doneDev' \in [Ranks -> 0 .. MaxChunks - 1]
    <3>1. ~ last => doneDev[r] + 1 \in 0 .. MaxChunks - 1
      <4>1. doneDev[r] \in 0 .. MaxChunks - 1
        BY DEF TypeOK
      <4>2. doneDev[r] \in Nat /\ MaxChunks \in Nat
        BY <4>1, SizeAssumption
      <4> QED
        BY <1>3, <4>2
    <3>2. 0 \in 0 .. MaxChunks - 1
      BY SizeAssumption
    <3>3. doneDev' = [doneDev EXCEPT ![r] = IF last THEN 0 ELSE @ + 1]
      BY DEF Exit
    <3> QED
      BY <3>1, <3>2, <3>3 DEF TypeOK
  <2> QED
    BY <1>2, <2>1, <2>2, <2>3 DEF TypeOK
<1>5. GridInv'
  BY <1>1, <1>2 DEF GridInv, Shape
<1>6. CounterInv'
  <2> SUFFICES ASSUME NEW q \in Ranks
               PROVE IF KernelDone(q)'
                       THEN seqDev'[q] = cur[q] /\ doneDev'[q] = 0
                       ELSE /\ seqDev'[q] + 1 = cur[q]
                            /\ doneDev'[q] = Cardinality(Exited(q)')
    BY <1>2 DEF CounterInv
  <2>1. CASE q = r
    <3>1. /\ KernelDone(r)' <=> last
          /\ Cardinality(Exited(r)') = doneDev[r] + 1
          /\ seqDev[r] + 1 = n
      BY LastBlock
    <3> QED
      BY <1>2, <2>1, <3>1
  <2>2. CASE q # r
    <3>1. (KernelDone(q)' <=> KernelDone(q)) /\ Exited(q)' = Exited(q)
      BY <1>2, <2>2 DEF KernelDone, Exited
    <3> QED
      BY <1>2, <2>2, <3>1 DEF CounterInv
  <2> QED
    BY <2>1, <2>2
<1>7. BlockInv'
  BY <1>2 DEF BlockInv, Shape
<1>8. LockstepInv' /\ MetInv'
  <2>1. LockstepInv'
    BY <1>2 DEF LockstepInv
  <2>2. MetInv'
    BY <1>1, <1>2 DEF MetInv
  <2> QED
    BY <2>1, <2>2
<1>9. PastInv' /\ FlagInv'
  BY <1>2 DEF PastInv, FlagInv
<1>10. WrittenInv' /\ PeerInv'
  <2>1. WrittenInv'
    BY <1>2 DEF WrittenInv, Shape
  <2>2. PeerInv'
    BY <1>2 DEF PeerInv, Shape
  <2> QED
    BY <2>1, <2>2
<1>11. SumInv'
  <2> SUFFICES ASSUME NEW q \in Ranks, NEW c \in Blocks,
                      NEW j \in Own(Shape(q), c)
               PROVE  /\ pc'[q][c] = "read" /\ j \notin todo[q][c] =>
                           got[q][j] = cur[q]
                      /\ pc'[q][c] = "exit" => got[q][j] = cur[q]
    BY <1>2 DEF SumInv, Shape
  <2>1. CASE q = r /\ c = b
    BY <1>1, <1>2, <2>1 DEF SumInv
  <2>2. CASE ~ (q = r /\ c = b)
    BY <1>2, <2>2 DEF SumInv
  <2> QED
    BY <2>1, <2>2
<1> HIDE DEF IInv
<1> QED
  BY <1>4, <1>5, <1>6, <1>7, <1>8, <1>9, <1>10, <1>11 DEF IInv

(* Every step preserves the inductive invariant.                           *)
LEMMA NextIInv ==
  ASSUME NoWrap, IInv, [Next]_vars
  PROVE  IInv'
<1>1. ASSUME NEW r \in Ranks, Launch(r) PROVE IInv'
  BY <1>1, LaunchIInv
<1>2. ASSUME NEW r \in Ranks, NEW b \in Blocks, BlockStep(r, b) PROVE IInv'
  BY <1>2, StartIInv, WriteWordIInv, ReadWordIInv, PublishIInv, SeePeerIInv,
     ExitIInv DEF BlockStep
<1>3. CASE UNCHANGED vars
  <2>1. UNCHANGED <<call, cur, pc, seq, todo, flag, slot, got, seqDev, doneDev>>
    BY <1>3 DEF vars
  <2>2. TypeOK' /\ GridInv' /\ LockstepInv' /\ MetInv'
    BY <2>1 DEF IInv, TypeOK, GridInv, LockstepInv, MetInv, Shape
  <2>3. CounterInv'
    BY <2>1 DEF IInv, CounterInv, KernelDone, Exited
  <2>4. BlockInv' /\ WrittenInv' /\ PeerInv'
    BY <2>1 DEF IInv, BlockInv, WrittenInv, PeerInv, Shape
  <2>5. PastInv' /\ FlagInv'
    BY <2>1 DEF IInv, PastInv, FlagInv
  <2>6. SumInv'
    BY <2>1 DEF IInv, SumInv, Shape
  <2> QED
    BY <2>2, <2>3, <2>4, <2>5, <2>6 DEF IInv
<1> QED
  BY <1>1, <1>2, <1>3 DEF Next, Finished

-------------------------------------------------------------------------------
(* The theorems.                                                           *)

(* The invariant of the protocol (SkinnyARInv) holds in every state: ranks *)
(* in step, flags that vouch for whole chunks, slots of one parity.  All   *)
(* the theorems below rest on it.                                          *)
THEOREM IInvInvariant ==
  ASSUME NoWrap
  PROVE  Spec => []IInv
<1>1. IInv /\ [Next]_vars => IInv'
  BY NextIInv
<1>2. Init => IInv
  BY InitIInv
<1> QED
  BY <1>1, <1>2, PTL DEF Spec

(* Every variable stays in its type; in particular the block counter never *)
(* runs past the grid and the sequence numbers never leave their width.    *)
THEOREM TypeCorrect ==
  ASSUME NoWrap
  PROVE  Spec => []TypeOK
<1>1. IInv => TypeOK
  BY DEF IInv
<1> QED
  BY <1>1, IInvInvariant, PTL

(* A finished call has summed, in every word, the peer's contribution to   *)
(* that very call (skinny_ar.cu's claim that both ranks produce the sum).  *)
THEOREM SumIsExact ==
  ASSUME NoWrap
  PROVE  Spec => []Exact
<1>1. IInv => Exact
  <2> SUFFICES ASSUME IInv, NEW r \in Ranks, KernelDone(r), cur[r] > 0,
                      NEW i \in 0 .. Shape(r).words - 1
               PROVE  got[r][i] = cur[r]
    BY DEF Exact
  <2>1. Shape(r) \in Shapes /\ Shape(r).grid \in 1 .. MaxChunks
    BY LaunchedShape DEF IInv
  <2>2. PICK b \in 0 .. Shape(r).grid - 1 : i \in Own(Shape(r), b)
    BY <2>1, EveryWordOwned
  <2>3. b \in Blocks /\ b < Shape(r).grid
    BY <2>1, SizeAssumption DEF Blocks
  <2>4. pc[r][b] = "exit"
    BY <2>3 DEF IInv, GridInv, KernelDone
  <2> QED
    BY <2>2, <2>3, <2>4 DEF IInv, SumInv
<1> QED
  BY <1>1, IInvInvariant, PTL

(* Between calls the device counters say exactly which call comes next.    *)
THEOREM CountersAreSettled ==
  ASSUME NoWrap
  PROVE  Spec => []CountersSettled
<1>1. IInv => CountersSettled
  <2> SUFFICES ASSUME IInv, NEW r \in Ranks, KernelDone(r)
               PROVE  seqDev[r] = cur[r] % SeqMod /\ doneDev[r] = 0
    BY DEF CountersSettled
  <2>1. cur[r] % SeqMod = cur[r]
    BY NoWrapFacts DEF IInv, TypeOK
  <2> QED
    BY <2>1 DEF IInv, CounterInv
<1> QED
  BY <1>1, IInvInvariant, PTL

(* What a rank has returned from, in terms of its call counter.            *)
LEMMA ReturnedFacts ==
  ASSUME IInv, NEW r \in Ranks
  PROVE  /\ cur[r] \in Nat /\ Returned(r) \in Nat
         /\ cur[r] <= Returned(r) + 1 /\ Returned(r) <= cur[r]
<1>1. cur[r] \in Nat
  BY SizeAssumption DEF IInv, TypeOK
<1>2. cur[r] = 0 => KernelDone(r)
  BY DEF IInv, GridInv, KernelDone
<1> QED
  BY <1>1, <1>2 DEF Returned

(* No slot word is overwritten before the peer has returned from the call  *)
(* whose data it held (the header's slot-reuse argument).                  *)
THEOREM SlotReuseIsSafe ==
  ASSUME NoWrap
  PROVE  Spec => OverwriteOnlyRead
<1> DEFINE Safe == \A r \in Ranks, p \in Parities, i \in Words :
                     slot'[r][p][i] # slot[r][p][i] =>
                       slot[r][p][i] <= Returned(Peer(r))
<1>1. ASSUME IInv, [Next]_vars PROVE Safe
  <2>1. CASE UNCHANGED slot
    BY <2>1
  <2>2. ASSUME NEW r \in Ranks, NEW b \in Blocks, NEW i \in Words,
               WriteWord(r, b, i)
        PROVE  Safe
    <3> DEFINE n == cur[r]
               old == slot[r][n % 2][i]
    <3>1. n \in Nat /\ n % 2 \in Parities /\ seq[r][b] = n
      BY <1>1, <2>2, ParityFacts, ReturnedFacts DEF WriteWord, IInv, BlockInv
    <3>2. \A q \in Ranks, p \in Parities, j \in Words :
            slot'[q][p][j] =
              IF q = r /\ p = n % 2 /\ j = i THEN n ELSE slot[q][p][j]
      BY <1>1, <2>2, <3>1 DEF WriteWord, IInv, TypeOK
    <3>3. old \in Nat /\ old <= n /\ (old > 0 => old % 2 = n % 2)
      BY <1>1, <3>1, SizeAssumption DEF IInv, TypeOK, PastInv
    <3>4. old # n /\ old > 0 => old + 2 <= n
      <4> HIDE DEF n, old
      <4>1. ASSUME n = old + 1 PROVE n % 2 # old % 2
        BY <3>1, <3>3, <4>1
      <4> QED
        BY <3>1, <3>3, <4>1
    <3>5. /\ n <= cur[Peer(r)] + 1 /\ cur[Peer(r)] <= Returned(Peer(r)) + 1
          /\ cur[Peer(r)] \in Nat /\ Returned(Peer(r)) \in Nat
      BY <1>1, PeerFacts, ReturnedFacts DEF IInv, LockstepInv
    <3>6. old # n => old <= Returned(Peer(r))
      BY <3>1, <3>3, <3>4, <3>5
    <3> QED
      BY <3>2, <3>6
  <2>3. ASSUME NEW r \in Ranks, Launch(r) PROVE UNCHANGED slot
    BY <2>3 DEF Launch
  <2>4. ASSUME NEW r \in Ranks, NEW b \in Blocks,
               Start(r, b) \/ Publish(r, b) \/ SeePeer(r, b) \/ Exit(r, b)
        PROVE  UNCHANGED slot
    BY <2>4 DEF Start, Publish, SeePeer, Exit
  <2>5. ASSUME NEW r \in Ranks, NEW b \in Blocks, NEW i \in Words,
               ReadWord(r, b, i)
        PROVE  UNCHANGED slot
    BY <2>5 DEF ReadWord
  <2>6. CASE UNCHANGED vars
    BY <2>1, <2>6 DEF vars
  <2> QED
    BY <1>1, <2>1, <2>2, <2>3, <2>4, <2>5, <2>6 DEF Next, BlockStep, Finished
<1>2. Spec => [][Next]_vars
  BY PTL DEF Spec
<1>3. ASSUME IInv, [Next]_vars PROVE [Safe]_vars
  BY <1>1, <1>3
<1> QED
  BY <1>2, <1>3, IInvInvariant, PTL DEF OverwriteOnlyRead

-------------------------------------------------------------------------------
(* The refinement.                                                         *)

RetBar == [r \in Ranks |-> Returned(r)]
SumBar == [r \in Ranks |->
             IF KernelDone(r) /\ cur[r] > 0
               THEN {got[r][i] : i \in 0 .. Shape(r).words - 1} ELSE {}]

(* A step that ends no kernel and starts none is invisible to the caller.  *)
LEMMA HiddenStep ==
  ASSUME IInv, IInv', UNCHANGED <<call, cur>>,
         \A r \in Ranks : /\ KernelDone(r)' <=> KernelDone(r)
                          /\ KernelDone(r) => got'[r] = got[r]
  PROVE  UNCHANGED <<cur, RetBar, SumBar>>
<1>1. RetBar' = RetBar
  BY DEF RetBar, Returned
<1>2. SumBar' = SumBar
  <2>1. \A r \in Ranks : Shape(r)' = Shape(r)
    BY DEF Shape
  <2> QED
    BY <2>1 DEF SumBar
<1> QED
  BY <1>1, <1>2

LEMMA LaunchJoins ==
  ASSUME IInv, NEW r \in Ranks, Launch(r)
  PROVE  Abs!Join(r)
<1>1. cur \in [Ranks -> 0 .. MaxCalls] /\ KernelDone(r) /\ cur[r] < MaxCalls
      /\ cur' = [cur EXCEPT ![r] = @ + 1] /\ call' = call
  BY DEF IInv, TypeOK, Launch
<1>2. Returned(r) = cur[r]
  BY <1>1 DEF Returned
<1>3. ~ KernelDone(r)'
  <2>1. cur[r] + 1 \in Calls
    BY <1>1, SizeAssumption DEF Calls
  <2>2. call[cur[r] + 1] \in Shapes
    BY <2>1 DEF IInv, TypeOK
  <2>3. call[cur[r] + 1].grid \in 1 .. MaxChunks
    BY <2>2, ShapeFacts
  <2>4. 0 \in Blocks /\ pc'[r][0] = "queued"
    BY <2>3, SizeAssumption DEF Launch, IInv, TypeOK, Blocks
  <2> QED
    BY <2>4 DEF KernelDone
<1>4. \A q \in Ranks : q # r =>
        /\ KernelDone(q)' <=> KernelDone(q)
        /\ cur'[q] = cur[q] /\ got'[q] = got[q]
  <2> SUFFICES ASSUME NEW q \in Ranks, q # r
               PROVE  /\ KernelDone(q)' <=> KernelDone(q)
                      /\ cur'[q] = cur[q] /\ got'[q] = got[q]
    OBVIOUS
  <2>1. pc'[q] = pc[q] /\ got'[q] = got[q] /\ cur'[q] = cur[q]
    BY DEF Launch, IInv, TypeOK
  <2> QED
    BY <2>1 DEF KernelDone
<1>5. RetBar' = RetBar
  <2> SUFFICES ASSUME NEW q \in Ranks PROVE Returned(q)' = Returned(q)
    BY DEF RetBar
  <2>1. CASE q = r
    BY <1>1, <1>2, <1>3, <2>1, SizeAssumption DEF Returned
  <2>2. CASE q # r
    BY <1>4, <2>2 DEF Returned
  <2> QED
    BY <2>1, <2>2
<1>6. SumBar' = [SumBar EXCEPT ![r] = {}]
  <2>1. \A q \in Ranks : q # r => Shape(q)' = Shape(q)
    BY <1>1, <1>4 DEF Shape
  <2>2. \A q \in Ranks : q # r => SumBar'[q] = SumBar[q]
    BY <1>4, <2>1 DEF SumBar
  <2>3. SumBar'[r] = {}
    BY <1>3 DEF SumBar
  <2>4. /\ SumBar = [q \in Ranks |-> SumBar[q]]
        /\ SumBar' = [q \in Ranks |-> SumBar'[q]]
    BY DEF SumBar
  <2> QED
    BY <2>2, <2>3, <2>4, Zenon
<1> QED
  BY <1>1, <1>2, <1>5, <1>6 DEF Abs!Join, RetBar, SumBar

LEMMA LastExitReturns ==
  ASSUME NoWrap, IInv, NEW r \in Ranks, NEW b \in Blocks, Exit(r, b),
         KernelDone(r)'
  PROVE  Abs!Return(r)
<1> DEFINE n == cur[r]
<1>1. IInv'
  BY ExitIInv
<1>2. /\ pc[r][b] = "read" /\ n > 0 /\ n \in Nat
      /\ UNCHANGED <<call, cur, got>>
  BY ReturnedFacts DEF Exit, IInv, GridInv
<1>3. ~ KernelDone(r)
  BY <1>2 DEF KernelDone
<1>4. Returned(r) = n - 1 /\ Returned(r)' = n
  BY <1>2, <1>3 DEF Returned
<1>5. \A q \in Ranks : q # r => (KernelDone(q)' <=> KernelDone(q))
  <2> SUFFICES ASSUME NEW q \in Ranks, q # r
               PROVE  KernelDone(q)' <=> KernelDone(q)
    OBVIOUS
  <2>1. pc'[q] = pc[q]
    BY DEF Exit, IInv, TypeOK
  <2> QED
    BY <2>1 DEF KernelDone
<1>6. \A q \in Ranks : cur[q] >= n
  BY <1>2, PeerFacts, ReturnedFacts DEF IInv, MetInv
<1>7. RetBar' = [RetBar EXCEPT ![r] = n]
  BY <1>2, <1>4, <1>5 DEF RetBar, Returned
<1>8. \A q \in Ranks : Shape(q)' = Shape(q)
  BY <1>2 DEF Shape
<1> DEFINE S == {got[r][i] : i \in 0 .. Shape(r).words - 1}
<1>9. SumBar' = [SumBar EXCEPT ![r] = S]
  BY <1>2, <1>5, <1>8 DEF SumBar
<1>10. S \in SUBSET {n}
  <2> SUFFICES ASSUME NEW i \in 0 .. Shape(r).words - 1
               PROVE  got[r][i] = n
    OBVIOUS
  <2>1. Shape(r) \in Shapes /\ Shape(r).grid \in 1 .. MaxChunks
    BY <1>2, LaunchedShape DEF IInv
  <2>2. PICK c \in 0 .. Shape(r).grid - 1 : i \in Own(Shape(r), c)
    BY <2>1, EveryWordOwned
  <2>3. c \in Blocks /\ c < Shape(r)'.grid
    BY <1>8, <2>1, SizeAssumption DEF Blocks
  <2>4. pc'[r][c] = "exit"
    BY <1>1, <1>2, <2>3 DEF IInv, GridInv, KernelDone
  <2>5. \A j \in Own(Shape(r)', c) : got'[r][j] = cur'[r]
    BY <1>1, <2>3, <2>4 DEF IInv, SumInv
  <2> QED
    BY <1>2, <1>8, <2>2, <2>5
<1> HIDE DEF S
<1>11. RetBar[r] < n
  BY <1>2, <1>4 DEF RetBar
<1>12. \E s \in SUBSET {n} : SumBar' = [SumBar EXCEPT ![r] = s]
  BY <1>9, <1>10
<1> QED
  BY <1>2, <1>6, <1>7, <1>11, <1>12 DEF Abs!Return, RetBar, SumBar

(* The kernel protocol is an all-reduce: a call returns only when both     *)
(* ranks have joined it, with that call's data.                            *)
THEOREM KernelImplementsAllReduce ==
  ASSUME NoWrap
  PROVE  Spec => ImplementsAllReduce
<1>1. Init => Abs!Init
  <2> SUFFICES ASSUME Init PROVE Abs!Init
    OBVIOUS
  <2>1. \A r \in Ranks : KernelDone(r) /\ cur[r] = 0
    BY DEF Init, KernelDone
  <2>2. \A r \in Ranks : Returned(r) = 0
    BY <2>1 DEF Returned
  <2> QED
    BY <2>1, <2>2 DEF Init, Abs!Init
<1>2. ASSUME IInv, IInv', [Next]_vars PROVE [Abs!Next]_(Abs!absVars)
  <2> DEFINE Hidden == UNCHANGED <<cur, RetBar, SumBar>>
  <2>1. ASSUME Hidden PROVE UNCHANGED Abs!absVars
    BY <2>1 DEF Abs!absVars, RetBar, SumBar
  <2>2. ASSUME NEW r \in Ranks, Launch(r) PROVE Abs!Next
    BY <1>2, <2>2, LaunchJoins DEF Abs!Next
  <2>3. ASSUME NEW r \in Ranks, NEW b \in Blocks,
               pc[r][b] \notin {"idle", "exit"},
               NEW x, x \notin {"idle", "exit"},
               pc' = [pc EXCEPT ![r][b] = x],
               UNCHANGED <<call, cur, got>>
        PROVE  Hidden
    <3>1. \A q \in Ranks : KernelDone(q)' <=> KernelDone(q)
      BY <1>2, <2>3 DEF KernelDone, IInv, TypeOK
    <3> QED
      BY <1>2, <2>3, <3>1, HiddenStep
  <2>4. ASSUME NEW r \in Ranks, NEW b \in Blocks, Start(r, b) PROVE Hidden
    <3>1. /\ pc[r][b] \notin {"idle", "exit"}
          /\ pc' = [pc EXCEPT ![r][b] = "write"]
          /\ UNCHANGED <<call, cur, got>>
      BY <2>4 DEF Start
    <3>2. "write" \notin {"idle", "exit"}
      OBVIOUS
    <3> HIDE DEF Hidden
    <3> QED
      BY <2>3, <3>1, <3>2
  <2>5. ASSUME NEW r \in Ranks, NEW b \in Blocks, Publish(r, b) PROVE Hidden
    <3>1. /\ pc[r][b] \notin {"idle", "exit"}
          /\ pc' = [pc EXCEPT ![r][b] = "spin"]
          /\ UNCHANGED <<call, cur, got>>
      BY <2>5 DEF Publish
    <3>2. "spin" \notin {"idle", "exit"}
      OBVIOUS
    <3> HIDE DEF Hidden
    <3> QED
      BY <2>3, <3>1, <3>2
  <2>6. ASSUME NEW r \in Ranks, NEW b \in Blocks, SeePeer(r, b) PROVE Hidden
    <3>1. /\ pc[r][b] \notin {"idle", "exit"}
          /\ pc' = [pc EXCEPT ![r][b] = "read"]
          /\ UNCHANGED <<call, cur, got>>
      BY <2>6 DEF SeePeer
    <3>2. "read" \notin {"idle", "exit"}
      OBVIOUS
    <3> HIDE DEF Hidden
    <3> QED
      BY <2>3, <3>1, <3>2
  <2>7. ASSUME NEW r \in Ranks, NEW b \in Blocks, NEW i \in Words,
               WriteWord(r, b, i)
        PROVE  Hidden
    <3>1. \A q \in Ranks : KernelDone(q)' <=> KernelDone(q)
      BY <2>7 DEF WriteWord, KernelDone
    <3> QED
      BY <1>2, <2>7, <3>1, HiddenStep DEF WriteWord
  <2>8. ASSUME NEW r \in Ranks, NEW b \in Blocks, NEW i \in Words,
               ReadWord(r, b, i)
        PROVE  Hidden
    <3>1. \A q \in Ranks : KernelDone(q)' <=> KernelDone(q)
      BY <2>8 DEF ReadWord, KernelDone
    <3>2. \A q \in Ranks : KernelDone(q) => got'[q] = got[q]
      BY <1>2, <2>8 DEF ReadWord, KernelDone, IInv, TypeOK
    <3> QED
      BY <1>2, <2>8, <3>1, <3>2, HiddenStep DEF ReadWord
  <2>9. ASSUME NEW r \in Ranks, NEW b \in Blocks, Exit(r, b)
        PROVE  Hidden \/ Abs!Next
    <3>1. CASE KernelDone(r)'
      BY <1>2, <2>9, <3>1, LastExitReturns DEF Abs!Next
    <3>2. CASE ~ KernelDone(r)'
      <4>1. ~ KernelDone(r)
        BY <2>9 DEF Exit, KernelDone
      <4>2. \A q \in Ranks : q # r => pc'[q] = pc[q]
        BY <1>2, <2>9 DEF Exit, IInv, TypeOK
      <4>3. \A q \in Ranks : KernelDone(q)' <=> KernelDone(q)
        BY <3>2, <4>1, <4>2 DEF KernelDone
      <4> QED
        BY <1>2, <2>9, <4>3, HiddenStep DEF Exit
    <3> QED
      BY <3>1, <3>2
  <2>10. CASE UNCHANGED vars
    <3>1. UNCHANGED <<call, cur, got>> /\ \A q \in Ranks : KernelDone(q)' <=> KernelDone(q)
      BY <2>10 DEF vars, KernelDone
    <3>2. Hidden
      BY <1>2, <3>1, HiddenStep
    <3> QED
      BY <2>1, <3>2
  <2> HIDE DEF Hidden
  <2> QED
    BY <1>2, <2>1, <2>2, <2>4, <2>5, <2>6, <2>7, <2>8, <2>9, <2>10
    DEF Next, BlockStep, Finished
<1> QED
  BY <1>1, <1>2, IInvInvariant, PTL DEF ImplementsAllReduce, Spec, Abs!Spec
===============================================================================
