------------------------- MODULE SkinnyARBootProofs -------------------------
(***************************************************************************)
(* The boot of the host-memory all-reduce and the dispatch it decides, for *)
(* any number of calls and of exceptions, any leftover file and any mix of *)
(* call sizes.                                                             *)
(***************************************************************************)
EXTENDS SkinnyARBoot, FiniteSetTheorems, TLAPS

Opened(r) == pc[r] \in {"zero", "register", "barrier", "unlink"} \/ skinny[r]
Cleared(r) == pc[r] \in {"register", "barrier", "unlink"} \/ skinny[r]

\* Through the barrier, and bound for the route.
Committed(r) == pc[r] = "unlink" \/ skinny[r]

\* A rank commits only when its peer has reached the barrier and will too; a
\* rank that serves has a peer that does, or is about to.
Agreement ==
  \A r \in Ranks :
    /\ skinny[r] => pc[r] \in {"next", "serve"}
    /\ Committed(r) => pc[Peer(r)] = "barrier" \/ Committed(Peer(r))
    /\ pc[r] = "serve" => pc[Peer(r)] \in {"next", "serve"}

\* Until rank 0 unlinks it, the name leads to every file that is mapped; when
\* it does, both ranks have opened it.
OneName ==
  /\ \A r \in Ranks : Opened(r) => map[r] # NoFile
  /\ ~ skinny[0] => \A r \in Ranks : map[r] \in {NoFile, name}
  /\ skinny[0] => map[0] = map[1]

\* Once a rank has cleared its half, it holds nothing but the rank's own calls.
FlagsOwn ==
  \A r \in Ranks : Cleared(r) => \A p \in Parities : flag[map[r]][r][p] <= Seq(call[r])

Calls ==
  \A r \in Ranks :
    /\ pc[r] # "serve" => call[r] = 0 /\ route[r] = "none"
    /\ route[r] # "none" =>
         /\ call[r] # 0
         /\ route[r] = IF skinny[r] /\ Small[call[r]] THEN "skinny" ELSE "stock"
    /\ done[r] <= call[r]

\* The inductive invariant.
IInv == TypeOK /\ Agreement /\ OneName /\ FlagsOwn /\ Calls /\ NeverAlone

-----------------------------------------------------------------------------
(* Facts about the constants and the counters.                             *)

LEMMA Bounds ==
  /\ MaxCalls \in Nat /\ MaxFailures \in Nat /\ StaleFlags \subseteq Nat
  /\ Small \in [1 .. MaxCalls -> BOOLEAN]
BY BootAssumption

\* Two ranks.
LEMMA Peers ==
  ASSUME NEW r \in Ranks
  PROVE  /\ Peer(r) \in Ranks /\ Peer(r) # r /\ Peer(Peer(r)) = r
         /\ Ranks = {r, Peer(r)}
BY DEF Ranks, Peer

\* Seq counts the calls of the route up to the n-th ...
LEMMA SeqType ==
  ASSUME NEW n \in Nat
  PROVE  /\ Seq(n) \in Nat
         /\ IsFiniteSet({m \in 1 .. n : Small[m]})
<1>1. IsFiniteSet(1 .. n)
  BY FS_Interval
<1>2. IsFiniteSet({m \in 1 .. n : Small[m]})
  BY <1>1, FS_Subset
<1> QED
  BY <1>2, FS_CardinalityType DEF Seq

LEMMA SeqZero == Seq(0) = 0
<1>1. {m \in 1 .. 0 : Small[m]} = {}
  OBVIOUS
<1> QED
  BY <1>1, FS_EmptySet DEF Seq

\* ... so it never decreases ...
LEMMA SeqMonotone ==
  ASSUME NEW n \in Nat, NEW k \in Nat, n <= k
  PROVE  Seq(n) <= Seq(k)
<1>1. {m \in 1 .. n : Small[m]} \subseteq {m \in 1 .. k : Small[m]}
  OBVIOUS
<1> QED
  BY <1>1, SeqType, FS_Subset DEF Seq

\* ... and a call of the route has a number of its own.
LEMMA SeqStrict ==
  ASSUME NEW n \in Nat, NEW k \in Nat \ {0}, n < k, Small[k]
  PROVE  Seq(n) < Seq(k)
<1> DEFINE A(j) == {m \in 1 .. j : Small[m]}
<1>1. A(n) \subseteq A(k) /\ k \in A(k) /\ k \notin A(n)
  OBVIOUS
<1>2. A(n) \subseteq A(k) /\ A(n) # A(k)
  BY <1>1
<1>3. IsFiniteSet(A(k))
  BY SeqType
<1>4. Cardinality(A(n)) \in Nat /\ Cardinality(A(k)) \in Nat
  BY SeqType DEF Seq
<1>5. A(n) \in SUBSET A(k)
  BY <1>2
<1>6. Cardinality(A(n)) <= Cardinality(A(k)) /\ Cardinality(A(n)) # Cardinality(A(k))
  BY <1>2, <1>3, <1>5, FS_Subset
<1>7. Cardinality(A(n)) < Cardinality(A(k))
  BY <1>4, <1>6
<1> QED
  BY <1>7 DEF Seq

-----------------------------------------------------------------------------
LEMMA InitInv == Init => IInv
<1> SUFFICES ASSUME Init PROVE IInv
  OBVIOUS
<1>1. flag \in [Files -> [Ranks -> [Parities -> Nat]]] /\ name \in Files \cup {NoFile}
  <2>1. CASE /\ name = NoFile
             /\ flag = [f \in Files |-> Blank]
    BY <2>1 DEF Blank, Zeroed
  <2>2. CASE /\ name = 1
             /\ \E stale \in [Ranks -> [Parities -> StaleFlags]] :
                  flag = [f \in Files |-> IF f = 1 THEN stale ELSE Blank]
    <3>1. PICK stale \in [Ranks -> [Parities -> StaleFlags]] :
                 flag = [f \in Files |-> IF f = 1 THEN stale ELSE Blank]
      BY <2>2
    <3>2. stale \in [Ranks -> [Parities -> Nat]]
      BY Bounds
    <3>3. Blank \in [Ranks -> [Parities -> Nat]]
      BY DEF Blank, Zeroed
    <3> QED
      BY <2>2, <3>1, <3>2, <3>3 DEF Files
  <2> QED
    BY <2>1, <2>2 DEF Init
<1>2. TypeOK
  <2>1. 0 \in 0 .. MaxCalls /\ 0 \in 0 .. MaxFailures
    BY Bounds
  <2> QED
    BY <1>1, <2>1 DEF Init, TypeOK
<1>3. Agreement /\ OneName /\ FlagsOwn /\ Calls /\ NeverAlone
  BY Peers DEF Init, Agreement, OneName, FlagsOwn, Calls, NeverAlone, Opened, Cleared,
               Committed, Ranks
<1> QED
  BY <1>2, <1>3 DEF IInv

\* A step of the boot that changes nothing but where rank r is.
LEMMA MoveInv ==
  ASSUME IInv, NEW r \in Ranks,
         NEW there \in {"load", "open", "zero", "register", "barrier",
                        "unlink", "next", "serve", "dead"},
         pc' = [pc EXCEPT ![r] = there], pc[r] # "serve",
         UNCHANGED <<skinny, name, flag, map, call, route, done>>,
         failures' \in 0 .. MaxFailures,
         there \in {"zero", "register", "barrier", "unlink"} => Opened(r),
         there \in {"register", "barrier", "unlink"} => Cleared(r),
         Agreement'
  PROVE  IInv'
<1>1. TypeOK'
  BY DEF IInv, TypeOK
<1>2. \A q \in Ranks : (Opened(q)' => Opened(q)) /\ (Cleared(q)' => Cleared(q))
  BY DEF IInv, TypeOK, Opened, Cleared
<1>3. OneName'
  BY <1>2 DEF IInv, OneName
<1>4. FlagsOwn'
  BY <1>2 DEF IInv, FlagsOwn, Seq
<1>5. Calls'
  BY DEF IInv, TypeOK, Calls
<1>6. NeverAlone'
  BY DEF IInv, NeverAlone
<1> QED
  BY <1>1, <1>3, <1>4, <1>5, <1>6 DEF IInv

LEMMA LoadInv == ASSUME IInv, NEW r \in Ranks, Load(r) PROVE IInv'
<1>1. Agreement'
  <2>1. pc[r] = "load" /\ pc' = [pc EXCEPT ![r] = "open"] /\ skinny' = skinny
    BY DEF Load, Goto
  <2>2. ~ Committed(r) /\ ~ Committed(Peer(r)) /\ pc[Peer(r)] # "serve"
    BY <2>1, Peers DEF IInv, Agreement, Committed
  <2>3. \A q \in Ranks : ~ Committed(q)' /\ pc'[q] # "serve"
    BY <2>1, <2>2, Peers DEF IInv, TypeOK, Committed
  <2> QED
    BY <2>3 DEF Agreement, Committed
<1> QED
  BY <1>1, MoveInv DEF Load, Goto, serving, IInv, TypeOK

LEMMA RegisterInv == ASSUME IInv, NEW r \in Ranks, Register(r) PROVE IInv'
<1>1. Agreement'
  BY Peers DEF IInv, TypeOK, Agreement, Committed, Register, Goto
<1> QED
  BY <1>1, MoveInv DEF Register, Goto, serving, IInv, TypeOK, Opened, Cleared

LEMMA FailInv == ASSUME IInv, NEW r \in Ranks, Fail(r) PROVE IInv'
<1>1. Agreement'
  BY Peers DEF IInv, TypeOK, Agreement, Committed, Fail, Goto
<1>2. failures' \in 0 .. MaxFailures
  BY Bounds DEF Fail, IInv, TypeOK
<1> QED
  BY <1>1, <1>2, MoveInv DEF Fail, Goto, serving

LEMMA BarrierInv == ASSUME IInv, NEW r \in Ranks, Barrier(r) PROVE IInv'
<1>1. Agreement'
  BY Peers DEF IInv, TypeOK, Agreement, Committed, Barrier, Goto
<1> QED
  BY <1>1, MoveInv DEF Barrier, Goto, serving, IInv, TypeOK, Opened, Cleared

LEMMA BarrierTimeoutInv == ASSUME IInv, NEW r \in Ranks, BarrierTimeout(r) PROVE IInv'
<1>1. Agreement'
  BY Peers DEF IInv, TypeOK, Agreement, Committed, BarrierTimeout, Goto
<1> QED
  BY <1>1, MoveInv DEF BarrierTimeout, Goto, serving, IInv, TypeOK

LEMMA NextCollectiveInv == ASSUME IInv, NEW r \in Ranks, NextCollective(r) PROVE IInv'
<1>1. Agreement'
  BY Peers DEF IInv, TypeOK, Agreement, Committed, NextCollective, Goto
<1> QED
  BY <1>1, MoveInv DEF NextCollective, Goto, serving, IInv, TypeOK

LEMMA NextTimeoutInv == ASSUME IInv, NEW r \in Ranks, NextTimeout(r) PROVE IInv'
<1>1. Agreement'
  BY Peers DEF IInv, TypeOK, Agreement, Committed, NextTimeout, Goto
<1> QED
  BY <1>1, MoveInv DEF NextTimeout, Goto, serving, IInv, TypeOK

LEMMA OpenInv == ASSUME IInv, NEW r \in Ranks, Open(r) PROVE IInv'
<1>1. /\ pc[r] = "open" /\ pc' = [pc EXCEPT ![r] = "zero"]
      /\ UNCHANGED <<skinny, flag, call, route, done, failures>>
  BY DEF Open, Goto, serving
<1>2. PICK f \in Files : /\ name' = f /\ map' = [map EXCEPT ![r] = f]
                         /\ name = NoFile \/ name = f
  BY DEF Open, IInv, TypeOK
<1>3. ~ skinny[0] /\ ~ skinny[1]
  BY <1>1, Peers DEF IInv, TypeOK, Agreement, Committed, Ranks
<1>4. TypeOK'
  BY <1>1, <1>2 DEF IInv, TypeOK, Files, NoFile
<1>5. Agreement'
  BY <1>1, Peers DEF IInv, TypeOK, Agreement, Committed
<1>6. OneName'
  BY <1>1, <1>2, <1>3, Peers DEF IInv, TypeOK, OneName, Opened, Files, NoFile
<1>7. FlagsOwn'
  <2>1. \A q \in Ranks : Cleared(q)' => Cleared(q) /\ q # r
    BY <1>1, <1>3, Peers DEF IInv, TypeOK, Cleared, Ranks
  <2>2. \A q \in Ranks : q # r => map'[q] = map[q]
    BY <1>2 DEF IInv, TypeOK
  <2> QED
    BY <1>1, <2>1, <2>2 DEF IInv, FlagsOwn, Seq
<1>8. (Calls /\ NeverAlone)'
  BY <1>1 DEF IInv, TypeOK, Calls, NeverAlone
<1> QED
  BY <1>4, <1>5, <1>6, <1>7, <1>8 DEF IInv

LEMMA ZeroInv == ASSUME IInv, NEW r \in Ranks, Zero(r) PROVE IInv'
<1>1. /\ pc[r] = "zero" /\ pc' = [pc EXCEPT ![r] = "register"]
      /\ flag' = [flag EXCEPT ![map[r]][r] = Zeroed]
      /\ UNCHANGED <<skinny, name, map, call, route, done, failures>>
  BY DEF Zero, Goto, serving
<1>2. map[r] \in Files
  BY <1>1 DEF IInv, TypeOK, OneName, Opened
<1>3. /\ flag' \in [Files -> [Ranks -> [Parities -> Nat]]]
      /\ flag'[map[r]][r] = Zeroed
      /\ \A f \in Files : \A q \in Ranks : q # r => flag'[f][q] = flag[f][q]
  BY <1>1, <1>2 DEF IInv, TypeOK, Zeroed
<1>4. TypeOK'
  BY <1>1, <1>3 DEF IInv, TypeOK
<1>5. Agreement'
  BY <1>1, Peers DEF IInv, TypeOK, Agreement, Committed
<1>6. OneName'
  BY <1>1 DEF IInv, TypeOK, OneName, Opened
<1>7. FlagsOwn'
  <2> SUFFICES ASSUME NEW q \in Ranks, Cleared(q)', NEW p \in Parities
               PROVE  flag'[map[q]][q][p] <= Seq(call[q])
    BY <1>1 DEF FlagsOwn, Seq
  <2>1. CASE q = r
    <3>1. call[q] \in Nat
      BY Bounds DEF IInv, TypeOK
    <3>2. Seq(call[q]) \in Nat
      BY <3>1, SeqType
    <3> QED
      BY <2>1, <1>3, <3>2 DEF Zeroed
  <2>2. CASE q # r
    <3>1. Cleared(q) /\ map[q] \in Files
      BY <1>1, <2>2 DEF IInv, TypeOK, Cleared, OneName, Opened
    <3> QED
      BY <1>3, <2>2, <3>1 DEF IInv, FlagsOwn
  <2> QED
    BY <2>1, <2>2
<1>8. (Calls /\ NeverAlone)'
  BY <1>1 DEF IInv, TypeOK, Calls, NeverAlone
<1> QED
  BY <1>4, <1>5, <1>6, <1>7, <1>8 DEF IInv

LEMMA UnlinkInv == ASSUME IInv, NEW r \in Ranks, Unlink(r) PROVE IInv'
<1>1. /\ pc[r] = "unlink" /\ pc' = [pc EXCEPT ![r] = "next"]
      /\ skinny' = [skinny EXCEPT ![r] = TRUE]
      /\ name' = IF r = 0 THEN NoFile ELSE name
      /\ UNCHANGED <<flag, map, call, route, done, failures>>
  BY DEF Unlink, Goto, serving
<1>2. \A q \in Ranks : (Opened(q)' <=> Opened(q)) /\ (Cleared(q)' <=> Cleared(q))
  BY <1>1 DEF IInv, TypeOK, Opened, Cleared
<1>3. \A q \in Ranks : Opened(q)
  BY <1>1, Peers DEF IInv, Agreement, Committed, Opened
<1>4. TypeOK'
  BY <1>1, <1>3 DEF IInv, TypeOK, OneName
<1>5. Agreement'
  <2>1. /\ pc[Peer(r)] # "serve"
        /\ pc[Peer(r)] = "barrier" \/ Committed(Peer(r))
        /\ skinny[Peer(r)] => pc[Peer(r)] = "next"
    BY <1>1, Peers DEF IInv, Agreement, Committed
  <2>2. /\ pc'[r] = "next" /\ skinny'[r]
        /\ pc'[Peer(r)] = pc[Peer(r)] /\ skinny'[Peer(r)] = skinny[Peer(r)]
    BY <1>1, Peers DEF IInv, TypeOK
  <2> QED
    BY <2>1, <2>2, Peers DEF Agreement, Committed
<1>6. OneName'
  BY <1>1, <1>3, Peers DEF IInv, TypeOK, OneName, Ranks
<1>7. FlagsOwn'
  BY <1>1, <1>2 DEF IInv, FlagsOwn, Seq
<1>8. (Calls /\ NeverAlone)'
  BY <1>1 DEF IInv, TypeOK, Calls, NeverAlone
<1> QED
  BY <1>4, <1>5, <1>6, <1>7, <1>8 DEF IInv

LEMMA AllReduceInv == ASSUME IInv, NEW r \in Ranks, AllReduce(r) PROVE IInv'
<1> DEFINE n == call[r] + 1
           hostMemory == skinny[r] /\ Small[n]
<1>1. /\ pc[r] = "serve" /\ route[r] = "none" /\ call[r] < MaxCalls
      /\ call' = [call EXCEPT ![r] = n]
      /\ route' = [route EXCEPT ![r] = IF hostMemory THEN "skinny" ELSE "stock"]
      /\ flag' = IF hostMemory THEN [flag EXCEPT ![map[r]][r][Seq(n) % 2] = Seq(n)] ELSE flag
      /\ UNCHANGED <<pc, skinny, name, map, done, failures>>
  BY DEF AllReduce
<1>2. /\ call[r] \in Nat /\ n \in 1 .. MaxCalls /\ n \in Nat \ {0} /\ call[r] <= n
      /\ Seq(n) \in Nat /\ Seq(call[r]) \in Nat /\ Seq(call[r]) <= Seq(n)
      /\ Seq(n) % 2 \in Parities
  <2>1. call[r] \in Nat /\ n \in 1 .. MaxCalls /\ n \in Nat \ {0} /\ call[r] <= n
    BY <1>1, Bounds DEF IInv, TypeOK
  <2>2. Seq(n) \in Nat /\ Seq(call[r]) \in Nat /\ Seq(call[r]) <= Seq(n)
    BY <2>1, SeqType, SeqMonotone
  <2> HIDE DEF n
  <2> QED
    BY <2>1, <2>2 DEF Parities
<1> HIDE DEF n
<1>3. hostMemory => map[r] \in Files
  BY DEF IInv, TypeOK
<1>4. /\ flag' \in [Files -> [Ranks -> [Parities -> Nat]]]
      /\ \A f \in Files : \A q \in Ranks : q # r => flag'[f][q] = flag[f][q]
      /\ \A f \in Files : \A p \in Parities :
            flag'[f][r][p] = flag[f][r][p] \/ flag'[f][r][p] = Seq(n)
  BY <1>1, <1>2, <1>3 DEF IInv, TypeOK
<1>5. /\ call' \in [Ranks -> 0 .. MaxCalls] /\ call'[r] = n
      /\ \A q \in Ranks : q # r => call'[q] = call[q]
      /\ \A q \in Ranks : call[q] <= call'[q]
  <2>1. \A q \in Ranks : call[q] \in Nat
    BY Bounds DEF IInv, TypeOK
  <2> QED
    BY <1>1, <1>2, <2>1 DEF IInv, TypeOK
<1>6. TypeOK'
  BY <1>1, <1>4, <1>5 DEF IInv, TypeOK
<1>7. (Agreement /\ OneName)'
  BY <1>1 DEF IInv, Agreement, Committed, OneName, Opened
<1>8. FlagsOwn'
  <2> SUFFICES ASSUME NEW q \in Ranks, Cleared(q)', NEW p \in Parities
               PROVE  flag'[map[q]][q][p] <= Seq(call'[q])
    BY <1>1 DEF FlagsOwn, Seq
  <2>1. Cleared(q) /\ map[q] \in Files
    BY <1>1 DEF IInv, TypeOK, Cleared, OneName, Opened
  <2>2. flag[map[q]][q][p] <= Seq(call[q]) /\ flag[map[q]][q][p] \in Nat
    BY <2>1 DEF IInv, TypeOK, FlagsOwn
  <2>3. CASE q = r
    <3>1. flag'[map[q]][q][p] = flag[map[q]][q][p] \/ flag'[map[q]][q][p] = Seq(n)
      BY <1>4, <2>1, <2>3
    <3> QED
      BY <1>2, <1>5, <2>2, <2>3, <3>1
  <2>4. CASE q # r
    BY <1>4, <1>5, <2>1, <2>2, <2>4
  <2> QED
    BY <2>3, <2>4
<1>9. Calls'
  BY <1>1, <1>2, <1>5 DEF IInv, TypeOK, Calls
<1>10. NeverAlone'
  BY <1>1, <1>5, Peers, Bounds DEF IInv, TypeOK, NeverAlone
<1> QED
  BY <1>6, <1>7, <1>8, <1>9, <1>10 DEF IInv

\* A return: the call the rank was in is done, and the peer has entered it.
LEMMA ReturnInv ==
  ASSUME IInv, NEW r \in Ranks, route[r] # "none",
         route' = [route EXCEPT ![r] = "none"], done' = [done EXCEPT ![r] = call[r]],
         UNCHANGED <<pc, skinny, name, flag, map, call, failures>>,
         call[r] <= call[Peer(r)]
  PROVE  IInv'
<1>1. TypeOK'
  BY DEF IInv, TypeOK
<1>2. (Agreement /\ OneName /\ FlagsOwn)'
  BY DEF IInv, Agreement, Committed, OneName, Opened, FlagsOwn, Cleared, Seq
<1>3. Calls'
  BY DEF IInv, TypeOK, Calls
<1>4. NeverAlone'
  BY Peers DEF IInv, TypeOK, NeverAlone
<1> QED
  BY <1>1, <1>2, <1>3, <1>4 DEF IInv

\* A flag that ends a spin was raised by the peer in the call that is waited
\* for, or in a later one.
LEMMA SkinnyReturnInv == ASSUME IInv, NEW r \in Ranks, SkinnyReturn(r) PROVE IInv'
<1> DEFINE q == Peer(r)
<1>1. q \in Ranks /\ Ranks = {r, q} /\ call[r] \in Nat /\ call[q] \in Nat
  BY Peers, Bounds DEF IInv, TypeOK
<1> HIDE DEF q
<1>2. /\ route[r] = "skinny"
      /\ flag[map[r]][q][Seq(call[r]) % 2] = Seq(call[r])
      /\ route' = [route EXCEPT ![r] = "none"] /\ done' = [done EXCEPT ![r] = call[r]]
      /\ UNCHANGED <<pc, skinny, name, flag, map, call, failures>>
  BY DEF SkinnyReturn, q
<1>3. skinny[r] /\ Small[call[r]] /\ call[r] # 0 /\ pc[r] = "serve"
  BY <1>2 DEF IInv, Calls
<1>4. skinny[q] /\ map[q] = map[r]
  BY <1>1, <1>3, Peers DEF IInv, Agreement, Committed, OneName, Ranks, q
<1>5. Seq(call[r]) \in Nat /\ Seq(call[r]) % 2 \in Parities
  <2>1. Seq(call[r]) \in Nat
    BY <1>1, SeqType
  <2> QED
    BY <2>1 DEF Parities
<1>6. Seq(call[r]) <= Seq(call[q])
  BY <1>1, <1>2, <1>4, <1>5 DEF IInv, FlagsOwn, Cleared
<1>7. call[r] <= call[q]
  <2> SUFFICES ASSUME call[q] < call[r] PROVE FALSE
    BY <1>1
  <2>1. Seq(call[q]) < Seq(call[r]) /\ Seq(call[q]) \in Nat
    BY <1>1, <1>3, SeqStrict, SeqType
  <2> QED
    BY <1>5, <1>6, <2>1
<1> QED
  BY <1>2, <1>7, ReturnInv DEF q

LEMMA StockReturnInv == ASSUME IInv, NEW r \in Ranks, StockReturn(r) PROVE IInv'
<1>1. /\ route[r] = "stock"
      /\ call[Peer(r)] = call[r] \/ done[Peer(r)] >= call[r]
      /\ route' = [route EXCEPT ![r] = "none"] /\ done' = [done EXCEPT ![r] = call[r]]
      /\ UNCHANGED <<pc, skinny, name, flag, map, call, failures>>
  BY DEF StockReturn
<1>2. call[r] <= call[Peer(r)]
  BY <1>1, Peers, Bounds DEF IInv, TypeOK, Calls
<1> QED
  BY <1>1, <1>2, ReturnInv

LEMMA StepInv == IInv /\ [Next]_vars => IInv'
<1> SUFFICES ASSUME IInv, [Next]_vars PROVE IInv'
  OBVIOUS
<1>1. CASE UNCHANGED vars
  <2>1. TypeOK'
    BY <1>1 DEF IInv, TypeOK, vars
  <2>2. (Agreement /\ OneName /\ FlagsOwn /\ Calls /\ NeverAlone)'
    BY <1>1 DEF IInv, Agreement, Committed, OneName, Opened, FlagsOwn, Cleared, Seq, Calls,
                NeverAlone, vars
  <2> QED
    BY <2>1, <2>2 DEF IInv
<1>2. ASSUME NEW r \in Ranks, Step(r) \/ Fail(r) PROVE IInv'
  BY <1>2, LoadInv, OpenInv, ZeroInv, RegisterInv, BarrierInv, BarrierTimeoutInv, UnlinkInv,
     NextCollectiveInv, NextTimeoutInv, AllReduceInv, SkinnyReturnInv, StockReturnInv, FailInv
  DEF Step
<1> QED
  BY <1>1, <1>2 DEF Next, Finished

LEMMA Invariant == Spec => []IInv
BY InitInv, StepInv, PTL DEF Spec

-----------------------------------------------------------------------------
\* Every variable stays in its type; a rank that uses the route has a file.
THEOREM TypeCorrect == Spec => []TypeOK
<1>1. IInv => TypeOK
  BY DEF IInv
<1> QED
  BY <1>1, Invariant, PTL

\* The ranks never take different routes for one call.
THEOREM RoutesAgree == Spec => []SameRoute
<1>1. ASSUME IInv PROVE SameRoute
  <2> SUFFICES ASSUME NEW r \in Ranks, call[r] = call[Peer(r)],
                      route[r] # "none", route[Peer(r)] # "none"
               PROVE  route[r] = route[Peer(r)]
    BY DEF SameRoute
  <2>1. pc[r] = "serve" /\ pc[Peer(r)] = "serve"
    BY <1>1, Peers DEF IInv, Calls
  <2>2. skinny[r] = skinny[Peer(r)]
    BY <1>1, <2>1, Peers DEF IInv, TypeOK, Agreement, Committed
  <2> QED
    BY <1>1, <2>2, Peers DEF IInv, Calls
<1> QED
  BY <1>1, Invariant, PTL

\* Ranks that both use the route share one file, whatever file an earlier boot
\* left under its name.
THEOREM FileIsShared == Spec => []OneFile
<1>1. IInv => OneFile
  BY DEF IInv, OneName, OneFile
<1> QED
  BY <1>1, Invariant, PTL

\* No call returns before the peer has entered it.
THEOREM NobodyReturnsAlone == Spec => []NeverAlone
<1>1. IInv => NeverAlone
  BY DEF IInv
<1> QED
  BY <1>1, Invariant, PTL

-----------------------------------------------------------------------------
\* While nothing was raised, a rank past the barrier has the route.
NothingRaised ==
  failures = 0 => \A r \in Ranks : pc[r] # "dead" /\ (pc[r] \in {"next", "serve"} => skinny[r])

\* "Never fail a boot on this" (cuda_communicator.py:158) is broken only by an
\* exception: while none was raised, no rank's boot fails, in whatever order
\* the two ranks boot and whatever file they find.
THEOREM FailsOnlyAfterException == Spec => [](failures = 0 => NeverFailsABoot)
<1>1. Init => NothingRaised
  BY DEF Init, NothingRaised
<1>2. IInv /\ NothingRaised /\ [Next]_vars => NothingRaised'
  <2> SUFFICES ASSUME IInv, NothingRaised, [Next]_vars, failures' = 0
               PROVE  \A q \in Ranks : /\ pc'[q] # "dead"
                                       /\ pc'[q] \in {"next", "serve"} => skinny'[q]
    BY DEF NothingRaised
  <2>1. CASE UNCHANGED vars
    BY <2>1 DEF vars, NothingRaised
  <2>2. CASE \E r \in Ranks : Fail(r)
    BY <2>2, Bounds DEF Fail, IInv, TypeOK
  <2>3. CASE \E r \in Ranks : Step(r)
    <3>1. PICK r \in Ranks : Step(r)
      BY <2>3
    <3>2. failures = 0
      BY <3>1 DEF Step, Load, Open, Zero, Register, Barrier, BarrierTimeout, Unlink,
                  NextCollective, NextTimeout, AllReduce, SkinnyReturn, StockReturn
    <3>3. \A q \in Ranks : pc[q] # "dead" /\ (pc[q] \in {"next", "serve"} => skinny[q])
      BY <3>2 DEF NothingRaised
    <3>4. ~ BarrierTimeout(r) /\ ~ NextTimeout(r)
      BY <3>3, Peers DEF BarrierTimeout, NextTimeout
    <3>5. \/ pc' = pc /\ skinny' = skinny
          \/ pc' = [pc EXCEPT ![r] = "serve"] /\ pc[r] = "next" /\ skinny' = skinny
          \/ pc' = [pc EXCEPT ![r] = "next"] /\ skinny' = [skinny EXCEPT ![r] = TRUE]
          \/ \E there \in {"open", "zero", "register", "barrier", "unlink"} :
                pc' = [pc EXCEPT ![r] = there] /\ skinny' = skinny
      BY <3>1, <3>4 DEF Step, Load, Open, Zero, Register, Barrier, Unlink, NextCollective,
                        AllReduce, SkinnyReturn, StockReturn, Goto, serving
    <3> QED
      BY <3>3, <3>5 DEF IInv, TypeOK
  <2> QED
    BY <2>1, <2>2, <2>3 DEF Next, Finished
<1>3. NothingRaised => (failures = 0 => NeverFailsABoot)
  BY DEF NothingRaised, NeverFailsABoot
<1> QED
  BY <1>1, <1>2, <1>3, Invariant, PTL DEF Spec
=============================================================================
