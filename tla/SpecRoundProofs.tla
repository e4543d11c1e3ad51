--------------------------- MODULE SpecRoundProofs ---------------------------
(***************************************************************************)
(* First the counts of speculative rounds, then the states their rows      *)
(* start from, then the tokens they are fed, for any requests, prompt      *)
(* lengths, chunk sizes, model length, number of drafts and rows, and all  *)
(* modes.                                                                  *)
(***************************************************************************)
EXTENDS SpecRound, RowsProofs, WellFoundedInduction

(* The rows of a round.                                                    *)

\* An order of a set lists each member once.
LEMMA OrdersFacts ==
    ASSUME NEW S \in SUBSET Req, IsFiniteSet(S), NEW q \in Orders(S)
    PROVE  /\ q \in Seq(Req) /\ IsInjective(q) /\ ToSet(q) = S
           /\ Len(q) = Cardinality(S) /\ DOMAIN q = 1 .. Cardinality(S)
<1> DEFINE k == Cardinality(S)
<1>1. k \in Nat
  BY FS_CardinalityType
<1>2. IsFiniteSet(1 .. k) /\ Cardinality(1 .. k) = k
  BY <1>1, FromOne
<1>3. q \in [1 .. k -> S] /\ IsInjective(q)
  BY DEF Orders
<1>4. q \in Injection(1 .. k, S)
  BY <1>3 DEF Injection, IsInjective
<1> HIDE DEF k
<1>5. q \in Surjection(1 .. k, S)
  BY <1>2, <1>4, FS_Injection DEF k
<1>6. q \in Seq(Req) /\ Len(q) = k /\ DOMAIN q = 1 .. k
  BY <1>1, <1>3
<1>7. ToSet(q) = S
  BY <1>3, <1>5, <1>6 DEF ToSet, Surjection
<1> QED
  BY <1>3, <1>6, <1>7 DEF k

\* What _update_states leaves is an arrangement of the requests scheduled.
LEMMA CondenseArranges ==
    ASSUME IsFiniteSet(Scheduled), batch \in Seq(Req), IsInjective(batch),
           NEW added \in Orders({r \in Scheduled : ~InBatch(r)})
    PROVE  /\ Condense(added) \in Seq(Req) /\ IsInjective(Condense(added))
           /\ Len(Condense(added)) = Cardinality(Scheduled)
           /\ ToSet(Condense(added)) = Scheduled
<1> DEFINE fresh == {r \in Scheduled : ~InBatch(r)}
<1>1. fresh \in SUBSET Req /\ IsFiniteSet(fresh)
  BY FS_Subset DEF Scheduled
<1>2. added \in Seq(Req) /\ IsInjective(added) /\ ToSet(added) = fresh
  BY <1>1, OrdersFacts
<1>3. /\ \A x \in ToSet(added) : ~(x \in ToSet(batch) /\ x \in Scheduled)
      /\ (ToSet(batch) \cap Scheduled) \cup ToSet(added) = Scheduled
  BY <1>2 DEF InBatch
<1> HIDE DEF fresh
<1>4. added \in Seq(Req) /\ IsInjective(added)
  BY <1>2
<1>5. \A x \in ToSet(added) : ~(x \in ToSet(batch) /\ x \in Scheduled)
  BY <1>3
<1>6. /\ Condensed(batch, Scheduled, added) \in Seq(Req)
      /\ IsInjective(Condensed(batch, Scheduled, added))
      /\ ToSet(Condensed(batch, Scheduled, added)) = Joined(batch, Scheduled, added)
      /\ Len(Condensed(batch, Scheduled, added)) = Cardinality(Joined(batch, Scheduled, added))
  BY <1>4, <1>5, CondensedArranges
<1>7. Joined(batch, Scheduled, added) = Scheduled
  BY <1>3 DEF Joined
<1> QED
  BY <1>6, <1>7 DEF Condense

\* So does _may_reorder_batch, whatever it swaps.
LEMMA ReorderArranges ==
    ASSUME IsFiniteSet(Scheduled), batch \in Seq(Req), IsInjective(batch),
           NEW added \in Orders({r \in Scheduled : ~InBatch(r)}),
           NEW now \in Reordered(Condense(added))
    PROVE  /\ now \in Seq(Req) /\ IsInjective(now)
           /\ Len(now) = Cardinality(Scheduled) /\ ToSet(now) = Scheduled
<1>1. now = Condense(added) \/ now \in Orders(ToSet(Condense(added)))
  BY DEF Reordered
<1>2. CASE now = Condense(added)
  BY <1>2, CondenseArranges
<1>3. CASE now \in Orders(ToSet(Condense(added)))
  <2>1. now \in Orders(Scheduled) /\ Scheduled \in SUBSET Req
    BY <1>3, CondenseArranges DEF Scheduled
  <2> QED
    BY <2>1, OrdersFacts
<1> QED
  BY <1>1, <1>2, <1>3

-----------------------------------------------------------------------------
(* The inductive invariant.                                                *)

Types ==
    /\ mode \in {"sync", "wait", "async"} /\ align \in BOOLEAN
    /\ live \subseteq Req /\ todo \subseteq Req \ live
    /\ Cardinality(live) <= Cardinality(Groups)
    /\ pc \in {"schedule", "update", "prepare", "launch", "correct", "sample"}
    /\ batch \in Seq(Req) /\ Len(batch) <= MaxRows /\ IsInjective(batch)
    /\ true \in [Req -> 0 .. MaxLen] /\ cpu \in [Req -> 0 .. MaxLen]
    /\ owed \in [Req -> Nat] /\ out \in [Req -> Nat] /\ prevLen \in [Req -> Nat]
    /\ prevIdx \in [Req -> 0 .. MaxRows]
    /\ gpu \in [Rows -> 0 .. MaxLen] /\ sel \in [Rows -> 1 .. K + 1]
    /\ acc \in [Rows -> 1 .. K + 1]
    /\ \A i \in DOMAIN accDue : accDue[i] \in 1 .. K + 1
    /\ so.tok \in [Req -> Int] /\ so.draft \in [Req -> Nat] /\ so.sent \in [Req -> Nat]

\* Drafts of the last round that the scheduler counts although they were
\* rejected: it hears of them when the next round is sent.
Behind(r) ==
    IF Async /\ InBatch(r) /\ prevIdx[r] > 0 THEN prevLen[r] + 1 - valid[prevIdx[r]] ELSE 0

Between == pc \in {"schedule", "update"}

\* What a round leaves to the next: a row that verified drafts has a place in
\* the gathers, and the counts kept there are those of its request.
LastRound ==
    Between =>
        /\ deferred = {}
        /\ \A r \in Req :
            /\ true[r] + Behind(r) <= MaxLen - 1
            /\ Async /\ InBatch(r) =>
                /\ prevLen[r] > 0 => prevIdx[r] > 0
                /\ prevIdx[r] > 0 =>
                    /\ prevIdx[r] \in DOMAIN valid
                    /\ valid[prevIdx[r]] \in 1 .. prevLen[r] + 1
                    /\ mode = "async" /\ prevLen[r] > 0 =>
                            gpu[prevIdx[r]] + valid[prevIdx[r]] = true[r]
                    /\ mode = "wait" =>
                            Prompt[r] + out[r] + valid[prevIdx[r]] <= true[r] + 2

\* No two requests look in one place.
OwnPlace == \A q, r \in Req : prevIdx[q] > 0 /\ prevIdx[q] = prevIdx[r] => q = r

\* The scheduler is ahead of the device by exactly what it has not heard.
Told ==
    /\ pc = "schedule" => \A r \in Req : Sent(r) = true[r] + Behind(r)
    /\ pc = "update" => \A r \in Req : so.sent[r] = true[r] + Behind(r) /\ owed[r] = 0

Granted ==
    pc # "schedule" =>
        /\ Scheduled \subseteq live
        /\ \A r \in Req : true[r] <= MaxLen - 1
        /\ \A r \in Scheduled :
            /\ true[r] + so.tok[r] <= MaxLen - 1
            /\ so.draft[r] <= K
            /\ so.draft[r] > 0 => so.tok[r] = so.draft[r] + 1 /\ true[r] >= Prompt[r]

\* During a round the host's count is right, or a correction is due that
\* makes it right.
HostSide ==
    ~Between =>
        /\ ToSet(batch) = Scheduled
        /\ \A r \in Scheduled : prevLen[r] = so.draft[r]
        /\ deferred # {} => mode = "async"
        /\ \A d \in deferred : d[1] \in Scheduled /\ d[2] \in Nat
        /\ \A d, e \in deferred : d[1] = e[1] => d = e
        /\ \A d \in deferred :
            /\ prevIdx[d[1]] > 0
            /\ valid[prevIdx[d[1]]] \in 1 .. d[2] + 1
            /\ cpu[d[1]] = true[d[1]] + d[2] + 1 - valid[prevIdx[d[1]]]
        /\ \A r \in Scheduled : (\A d \in deferred : d[1] # r) => cpu[r] = true[r]
        /\ pc = "sample" \/ (align /\ pc = "launch") => deferred = {}

Prepared ==
    pc = "prepare" =>
        \A r \in Scheduled :
            /\ out[r] > 0 => Prompt[r] + out[r] <= cpu[r] + 1
            /\ IF mode = "async" /\ prevIdx[r] > 0 /\ prevDraft[prevIdx[r]] > 0
               THEN valid # <<>> /\ gpu[prevIdx[r]] + valid[prevIdx[r]] = true[r]
               ELSE cpu[r] = true[r]

Launched ==
    pc \in {"launch", "correct", "sample"} =>
        /\ CountsExact
        /\ \A r \in Scheduled :
            /\ so.draft[r] > 0 => r \notin discard
            /\ mode = "wait" /\ r \notin discard =>
                    Prompt[r] + out[r] <= true[r] + so.tok[r] - so.draft[r]

IInv == /\ Types /\ LastRound /\ OwnPlace /\ Told /\ Granted /\ HostSide /\ Prepared
        /\ Launched

-----------------------------------------------------------------------------
(* Facts about the constants and about numbers.                            *)

LEMMA Bounds ==
    /\ MaxLen \in Nat /\ Chunk \in Nat \ {0} /\ K \in Nat \ {0} /\ MaxRows \in Nat \ {0}
    /\ \A r \in Req : Prompt[r] \in Nat /\ 2 <= Prompt[r] /\ Prompt[r] <= MaxLen - 2
    /\ Rows = 1 .. MaxRows
    /\ IsFiniteSet(Req) /\ Cardinality(Groups) \in Nat /\ Cardinality(Groups) <= MaxRows
<1>1. Cardinality(Groups) \in Nat
  BY SpecRoundAssumption, FS_CardinalityType
<1>2. \A r \in Req : Prompt[r] \in 2 .. MaxLen - 2
  BY SpecRoundAssumption
<1>3. MaxLen \in Nat /\ K \in Nat \ {0} /\ MaxRows \in Nat \ {0} /\ Chunk \in Nat \ {0}
  BY SpecRoundAssumption, GdnAssumption
<1>4. IsFiniteSet(Req) /\ Cardinality(Groups) <= MaxRows
  BY SpecRoundAssumption
<1> QED
  BY <1>1, <1>2, <1>3, <1>4 DEF Rows

LEMMA MinPair ==
    ASSUME NEW a \in Int, NEW b \in Int
    PROVE  Min({a, b}) \in {a, b} /\ Min({a, b}) <= a /\ Min({a, b}) <= b
<1>1. \E x \in {a, b} : \A y \in {a, b} : x <= y
  <2>1. CASE a <= b
    BY <2>1
  <2>2. CASE ~(a <= b)
    BY <2>2
  <2> QED
    BY <2>1, <2>2
<1> QED
  BY <1>1 DEF Min

LEMMA MaxPair ==
    ASSUME NEW a \in Int, NEW b \in Int
    PROVE  Max({a, b}) \in {a, b} /\ Max({a, b}) >= a /\ Max({a, b}) >= b
<1>1. \E x \in {a, b} : \A y \in {a, b} : x >= y
  <2>1. CASE a >= b
    BY <2>1
  <2>2. CASE ~(a >= b)
    BY <2>2
  <2> QED
    BY <2>1, <2>2
<1> QED
  BY <1>1 DEF Max

LEMMA InitInv == Init => IInv
<1> SUFFICES ASSUME Init PROVE IInv
  OBVIOUS
<1>1. Types
  <2>1. mode \in {"sync", "wait", "async"} /\ align \in BOOLEAN
    <3>1. Boots \subseteq {"sync", "wait", "async"} \X BOOLEAN
      BY SpecRoundAssumption
    <3> QED
      BY <3>1 DEF Init
  <2>2. Cardinality(live) <= Cardinality(Groups)
    BY Bounds, FS_EmptySet DEF Init
  <2>3. batch \in Seq(Req) /\ Len(batch) <= MaxRows /\ IsInjective(batch)
    BY Bounds DEF Init, IsInjective
  <2>4. /\ Zeros \in [Req -> 0 .. MaxLen] /\ Zeros \in [Req -> Nat]
        /\ Zeros \in [Req -> 0 .. MaxRows] /\ Zeros \in [Req -> Int]
    BY Bounds DEF Zeros
  <2>5. so.tok = Zeros /\ so.draft = Zeros /\ so.sent = Zeros
    BY DEF Init, Nothing
  <2>6. gpu \in [Rows -> 0 .. MaxLen] /\ sel \in [Rows -> 1 .. K + 1] /\ acc \in [Rows -> 1 .. K + 1]
    BY Bounds DEF Init
  <2>7. DOMAIN accDue = {}
    <3>1. accDue = <<>>
      BY DEF Init
    <3> QED
      BY <3>1
  <2> QED
    <3>1. /\ live \subseteq Req /\ todo \subseteq Req \ live
          /\ pc \in {"schedule", "update", "prepare", "launch", "correct", "sample"}
          /\ true = Zeros /\ cpu = Zeros /\ owed = Zeros /\ out = Zeros /\ prevLen = Zeros
          /\ prevIdx = Zeros
      BY DEF Init
    <3> QED
      BY <2>1, <2>2, <2>3, <2>4, <2>5, <2>6, <2>7, <3>1 DEF Types
<1>2. \A r \in Req : ~InBatch(r) /\ Behind(r) = 0 /\ true[r] = 0 /\ prevIdx[r] = 0 /\ owed[r] = 0
  <2>1. batch = <<>> /\ true = Zeros /\ prevIdx = Zeros /\ owed = Zeros
    BY DEF Init
  <2>2. DOMAIN batch = {}
    <3>1. batch = <<>>
      BY <2>1
    <3> QED
      BY <3>1
  <2>3. \A r \in Req : ~InBatch(r)
    BY <2>2 DEF InBatch, ToSet
  <2> QED
    BY <2>1, <2>3 DEF Behind, Zeros
<1>3. LastRound
  <2>1. deferred = {}
    BY DEF Init
  <2>2. ASSUME NEW r \in Req PROVE true[r] + Behind(r) <= MaxLen - 1
    <3>1. true[r] = 0 /\ Behind(r) = 0
      BY <1>2
    <3>2. MaxLen \in Nat /\ 4 <= MaxLen
      BY Bounds
    <3>3. 0 <= MaxLen - 1
      BY <3>2
    <3> QED
      BY <3>1, <3>3
  <2> QED
    BY <1>2, <2>1, <2>2 DEF LastRound
<1>5. OwnPlace /\ Told
  BY <1>2 DEF Init, OwnPlace, Told, Sent
<1>4. Granted /\ HostSide /\ Prepared /\ Launched
  BY DEF Init, Granted, HostSide, Between, Prepared, Launched
<1> QED
  BY <1>1, <1>3, <1>4, <1>5 DEF IInv

-----------------------------------------------------------------------------
(* The scheduler.                                                          *)

LEMMA GrantBounds ==
    ASSUME Types, NEW r \in Req, NEW n \in 1 .. Chunk
    PROVE  /\ Sent(r) \in Nat /\ true[r] <= Sent(r)
           /\ Grant(r, n) \in Int
           /\ true[r] < Prompt[r] => Grant(r, n) <= Prompt[r] - true[r]
           /\ true[r] >= Prompt[r] => Grant(r, n) <= 1 + K /\ Grant(r, n) <= MaxLen - 1 - Sent(r)
<1>1. /\ true[r] \in Nat /\ owed[r] \in Nat /\ n \in Int /\ Prompt[r] \in Nat /\ K \in Nat
      /\ MaxLen \in Nat
  <2>1. true \in [Req -> 0 .. MaxLen] /\ owed \in [Req -> Nat]
    BY DEF Types
  <2>2. n \in Int /\ Prompt[r] \in Nat /\ K \in Nat /\ MaxLen \in Nat
    BY Bounds
  <2> QED
    BY <2>1, <2>2
<1>2. Sent(r) \in Nat /\ true[r] <= Sent(r)
  BY <1>1 DEF Sent
<1>3. Offered(r) \in Int /\ Offered(r) <= K
  <2>1. Offered(r) = K \/ Offered(r) = 0
    BY DEF Offered
  <2> QED
    BY <1>1, <2>1
<1>4. Max({n, 2}) \in Int
  <2> DEFINE a == n
             b == 2
  <2>1. a \in Int /\ b \in Int
    <3>1. n \in Int
      BY <1>1
    <3>2. 2 \in Int
      OBVIOUS
    <3> QED
      BY <3>1, <3>2
  <2>3. Max({n, 2}) = Max({a, b})
    OBVIOUS
  <2> HIDE DEF a, b
  <2>2. Max({a, b}) \in {a, b}
    BY <2>1, MaxPair
  <2> QED
    BY <2>1, <2>2, <2>3
<1>5. CASE true[r] < Prompt[r]
  <2> DEFINE a == Prompt[r] - true[r]
             b == IF true[r] = 0 THEN Max({n, 2}) ELSE n
  <2>1. a \in Int /\ b \in Int
    <3> DEFINE c == Max({n, 2})
    <3>1. c \in Int /\ (b = c \/ b = n) /\ a \in Int
      BY <1>1, <1>4
    <3> HIDE DEF c, a, b
    <3> QED
      BY <1>1, <3>1
  <2>2. Grant(r, n) = Min({a, b})
    BY <1>5 DEF Grant
  <2> HIDE DEF a, b
  <2>3. Grant(r, n) \in Int /\ Grant(r, n) <= a
    BY <2>1, <2>2, MinPair
  <2> QED
    BY <1>1, <1>2, <1>5, <2>3 DEF a
<1>6. CASE ~(true[r] < Prompt[r])
  <2> DEFINE a == 1 + Offered(r)
             b == MaxLen - 1 - Sent(r)
  <2>1. a \in Int /\ b \in Int /\ a <= 1 + K
    BY <1>1, <1>2, <1>3
  <2>2. Grant(r, n) = Min({a, b})
    BY <1>6 DEF Grant
  <2>3. b = MaxLen - 1 - Sent(r)
    OBVIOUS
  <2> HIDE DEF a, b
  <2>4. Grant(r, n) \in Int /\ Grant(r, n) <= a /\ Grant(r, n) <= b
    BY <2>1, <2>2, MinPair
  <2> QED
    BY <1>1, <1>2, <1>6, <2>1, <2>3, <2>4
<1> QED
  BY <1>5, <1>6

LEMMA ScheduleInv == IInv /\ Schedule => IInv'
<1> SUFFICES ASSUME IInv, Schedule PROVE IInv'
  OBVIOUS
<1>1. /\ pc = "schedule" /\ pc' = "update" /\ owed' = Zeros
      /\ UNCHANGED <<mode, align, true, batch, cpu, out, prevLen, prevIdx, deferred, valid, gpu,
                     sel, acc, accDue>>
  BY DEF Schedule, copies
<1>2. PICK gone \in SUBSET {r \in live : Some(r)}, come \in SUBSET todo :
        /\ Cardinality((live \ gone) \union come) <= Cardinality(Groups)
        /\ \E n \in 1 .. Chunk, skip \in SUBSET (live \ gone) :
            /\ so' = SchedulerOutput(((live \ gone) \union come) \ skip, n)
            /\ live' = (live \ gone) \union come
        /\ todo' = todo \ come
  BY DEF Schedule
<1>13. PICK n \in 1 .. Chunk, skip \in SUBSET (live \ gone) :
            /\ so' = SchedulerOutput(((live \ gone) \union come) \ skip, n)
            /\ live' = (live \ gone) \union come
  BY <1>2
<1>3. ASSUME NEW r \in Req
      PROVE  /\ so'.sent[r] = Sent(r)
             /\ so'.tok[r] = IF r \in live' \ skip THEN Grant(r, n) ELSE 0
             /\ so'.draft[r] = IF so'.tok[r] > 0 /\ Some(r) THEN so'.tok[r] - 1 ELSE 0
  BY <1>13 DEF SchedulerOutput
<1>4. Types
  BY DEF IInv
<1>5. \A r \in Req : so'.tok[r] \in Int /\ so'.draft[r] \in Nat /\ so'.sent[r] \in Nat
  <2> SUFFICES ASSUME NEW r \in Req
               PROVE  so'.tok[r] \in Int /\ so'.draft[r] \in Nat /\ so'.sent[r] \in Nat
    OBVIOUS
  <2>1. Sent(r) \in Nat /\ Grant(r, n) \in Int
    BY <1>4, GrantBounds
  <2> QED
    BY <1>3, <2>1
<1>6. Types'
  <2>1. so'.tok \in [Req -> Int] /\ so'.draft \in [Req -> Nat] /\ so'.sent \in [Req -> Nat]
    <3>1. /\ so'.tok = [r \in Req |-> so'.tok[r]] /\ so'.draft = [r \in Req |-> so'.draft[r]]
          /\ so'.sent = [r \in Req |-> so'.sent[r]]
      BY <1>13 DEF SchedulerOutput
    <3> QED
      BY <1>5, <3>1
  <2>2. owed' \in [Req -> Nat]
    BY <1>1 DEF Zeros
  <2>3. live' \subseteq Req /\ todo' \subseteq Req \ live'
        /\ Cardinality(live') <= Cardinality(Groups)
    BY <1>2, <1>13, <1>4 DEF Types
  <2> QED
    BY <1>1, <1>4, <2>1, <2>2, <2>3 DEF Types
<1>7. \A r \in Req : Behind(r)' = Behind(r)
  BY <1>1 DEF Behind, InBatch, Async
<1>8. LastRound'
  BY <1>1, <1>7 DEF IInv, LastRound, Between, InBatch, Async
<1>9. OwnPlace'
  BY <1>1 DEF IInv, OwnPlace
<1>10. Told'
  BY <1>1, <1>3, <1>7 DEF IInv, Told, Zeros
<1>11. Granted'
  <2>1. ASSUME NEW r \in Scheduled'
        PROVE  /\ r \in live' /\ true[r] + so'.tok[r] <= MaxLen - 1 /\ so'.draft[r] <= K
               /\ so'.draft[r] > 0 => so'.tok[r] = so'.draft[r] + 1 /\ true[r] >= Prompt[r]
    <3>1. r \in Req /\ so'.tok[r] > 0
      BY DEF Scheduled
    <3>2. r \in live' /\ so'.tok[r] = Grant(r, n)
      BY <1>3, <3>1
    <3>3. /\ Sent(r) \in Nat /\ true[r] <= Sent(r) /\ Grant(r, n) \in Int
          /\ true[r] < Prompt[r] => Grant(r, n) <= Prompt[r] - true[r]
          /\ true[r] >= Prompt[r] => Grant(r, n) <= 1 + K /\ Grant(r, n) <= MaxLen - 1 - Sent(r)
      BY <1>4, <3>1, GrantBounds
    <3>4. /\ true[r] \in Nat /\ K \in Nat /\ MaxLen \in Nat
          /\ Prompt[r] \in Nat /\ Prompt[r] <= MaxLen - 2
      <4>1. true[r] \in 0 .. MaxLen
        BY <1>4, <3>1 DEF Types
      <4> QED
        BY <3>1, <4>1, Bounds
    <3>5. true[r] + so'.tok[r] <= MaxLen - 1
      BY <3>2, <3>3, <3>4
    <3>6. so'.draft[r] > 0 => so'.tok[r] = so'.draft[r] + 1 /\ true[r] >= Prompt[r]
      BY <1>3, <3>1, <3>2, <3>3 DEF Some
    <3>7. so'.draft[r] <= K
      BY <1>3, <1>5, <3>1, <3>2, <3>3, <3>4, <3>6
    <3> QED
      BY <3>2, <3>5, <3>6, <3>7
  <2>2. ASSUME NEW r \in Req PROVE true[r] <= MaxLen - 1
    <3>1. Sent(r) = true[r] + Behind(r) /\ true[r] + Behind(r) <= MaxLen - 1
      BY <1>1 DEF IInv, Told, LastRound, Between
    <3>2. Sent(r) \in Nat /\ true[r] <= Sent(r) /\ true[r] \in 0 .. MaxLen /\ MaxLen \in Nat
      <4>1. 1 \in 1 .. Chunk
        BY Bounds
      <4> QED
        BY <1>4, <4>1, GrantBounds, Bounds DEF Types
    <3> QED
      BY <3>1, <3>2
  <2> QED
    BY <1>1, <2>1, <2>2 DEF Granted
<1>12. HostSide' /\ Prepared' /\ Launched'
  BY <1>1 DEF HostSide, Between, Prepared, Launched
<1> QED
  BY <1>6, <1>8, <1>9, <1>10, <1>11, <1>12 DEF IInv

-----------------------------------------------------------------------------
(* _update_states.                                                         *)

LEMMA ScheduledFacts ==
    ASSUME Types
    PROVE  /\ Scheduled \subseteq Req /\ IsFiniteSet(Scheduled)
           /\ \A r \in Scheduled : so.tok[r] \in Nat \ {0} /\ so.draft[r] \in Nat
<1>1. Scheduled \in SUBSET Req /\ \A r \in Scheduled : so.tok[r] > 0
  BY DEF Scheduled
<1>2. IsFiniteSet(Scheduled)
  BY <1>1, Bounds, FS_Subset
<1>3. \A r \in Scheduled : so.tok[r] \in Int /\ so.draft[r] \in Nat
  BY <1>1 DEF Types
<1> QED
  BY <1>1, <1>2, <1>3

LEMMA SentOutputFacts ==
    ASSUME Types, NEW r \in Req
    PROVE  /\ SentOutput(r) \in Nat
           /\ SentOutput(r) > 0 => Prompt[r] + SentOutput(r) = so.sent[r] + 1
<1> DEFINE a == 0
           b == so.sent[r] + 1 - Prompt[r]
<1>1. so.sent[r] \in Nat /\ Prompt[r] \in Nat
  BY Bounds DEF Types
<1>2. a \in Int /\ b \in Int /\ a = 0
  BY <1>1
<1>3. SentOutput(r) = Max({a, b})
  BY DEF SentOutput
<1>4. b = so.sent[r] + 1 - Prompt[r]
  OBVIOUS
<1> HIDE DEF a, b
<1>5. Max({a, b}) \in {a, b} /\ Max({a, b}) >= a
  BY <1>2, MaxPair
<1> QED
  BY <1>1, <1>2, <1>3, <1>4, <1>5

\* What the last round left of a request, at the time of the update.
LEMMA LeftOver ==
    ASSUME IInv, pc = "update", NEW r \in Req
    PROVE  /\ true[r] \in Nat /\ out[r] \in Nat /\ prevLen[r] \in Nat
           /\ Prompt[r] \in Nat /\ MaxLen \in Nat
           /\ Behind(r) \in Nat /\ so.sent[r] = true[r] + Behind(r) /\ so.sent[r] <= MaxLen - 1
           /\ ~Async \/ ~InBatch(r) \/ prevLen[r] = 0 => Behind(r) = 0
           /\ Async /\ InBatch(r) /\ prevLen[r] > 0 =>
                /\ prevIdx[r] > 0 /\ prevIdx[r] \in DOMAIN valid
                /\ valid[prevIdx[r]] \in 1 .. prevLen[r] + 1
                /\ Behind(r) = prevLen[r] + 1 - valid[prevIdx[r]]
                /\ mode = "async" => gpu[prevIdx[r]] + valid[prevIdx[r]] = true[r]
                /\ mode = "wait" => Prompt[r] + out[r] + valid[prevIdx[r]] <= true[r] + 2
<1>1. /\ true[r] \in Nat /\ out[r] \in Nat /\ prevLen[r] \in Nat /\ prevIdx[r] \in Nat
      /\ Prompt[r] \in Nat /\ MaxLen \in Nat
  <2>1. /\ true \in [Req -> 0 .. MaxLen] /\ out \in [Req -> Nat] /\ prevLen \in [Req -> Nat]
        /\ prevIdx \in [Req -> 0 .. MaxRows]
    BY DEF IInv, Types
  <2>2. Prompt[r] \in Nat /\ MaxLen \in Nat
    BY Bounds
  <2> QED
    BY <2>1, <2>2
<1>2. so.sent[r] = true[r] + Behind(r) /\ true[r] + Behind(r) <= MaxLen - 1
  BY DEF IInv, Told, LastRound, Between
<1>3. Async /\ InBatch(r) =>
        /\ prevLen[r] > 0 => prevIdx[r] > 0
        /\ prevIdx[r] > 0 =>
            /\ prevIdx[r] \in DOMAIN valid
            /\ valid[prevIdx[r]] \in 1 .. prevLen[r] + 1
            /\ mode = "async" /\ prevLen[r] > 0 => gpu[prevIdx[r]] + valid[prevIdx[r]] = true[r]
            /\ mode = "wait" => Prompt[r] + out[r] + valid[prevIdx[r]] <= true[r] + 2
  BY DEF IInv, LastRound, Between
<1>4. CASE Async /\ InBatch(r) /\ prevIdx[r] > 0
  <2>1. Behind(r) = prevLen[r] + 1 - valid[prevIdx[r]]
    BY <1>4 DEF Behind
  <2>2. valid[prevIdx[r]] \in 1 .. prevLen[r] + 1
    BY <1>3, <1>4
  <2>3. Behind(r) \in Nat /\ (prevLen[r] = 0 => Behind(r) = 0)
    BY <1>1, <2>1, <2>2
  <2> QED
    BY <1>1, <1>2, <1>3, <1>4, <2>1, <2>3
<1>5. CASE ~(Async /\ InBatch(r) /\ prevIdx[r] > 0)
  <2>1. Behind(r) = 0
    BY <1>5 DEF Behind
  <2>2. ~(Async /\ InBatch(r) /\ prevLen[r] > 0)
    BY <1>3, <1>5
  <2> QED
    BY <1>1, <1>2, <2>1, <2>2
<1> QED
  BY <1>4, <1>5

LEMMA UpdateCounts ==
    ASSUME IInv, pc = "update", NEW r \in Scheduled
    PROVE  /\ HostCount(r) \in 0 .. MaxLen
           /\ r \notin Deferring => HostCount(r) = true[r]
           /\ r \in Deferring =>
                /\ mode = "async" /\ InBatch(r) /\ prevLen[r] > 0
                /\ HostCount(r) = true[r] + prevLen[r] + 1 - valid[prevIdx[r]]
           /\ Output(r) \in Nat
           /\ Output(r) > 0 => Prompt[r] + Output(r) <= HostCount(r) + 1
<1>1. Types /\ r \in Req
  BY ScheduledFacts DEF IInv
<1>2. /\ true[r] \in Nat /\ out[r] \in Nat /\ prevLen[r] \in Nat
      /\ Prompt[r] \in Nat /\ MaxLen \in Nat
      /\ Behind(r) \in Nat /\ so.sent[r] = true[r] + Behind(r) /\ so.sent[r] <= MaxLen - 1
      /\ ~Async \/ ~InBatch(r) \/ prevLen[r] = 0 => Behind(r) = 0
      /\ Async /\ InBatch(r) /\ prevLen[r] > 0 =>
            /\ valid[prevIdx[r]] \in 1 .. prevLen[r] + 1
            /\ Behind(r) = prevLen[r] + 1 - valid[prevIdx[r]]
            /\ mode = "wait" => Prompt[r] + out[r] + valid[prevIdx[r]] <= true[r] + 2
  BY <1>1, LeftOver
<1>3. SentOutput(r) \in Nat /\ (SentOutput(r) > 0 => Prompt[r] + SentOutput(r) = so.sent[r] + 1)
  BY <1>1, SentOutputFacts
<1> DEFINE more == IF ~Async \/ ~InBatch(r) \/ prevLen[r] = 0 THEN 0
                   ELSE IF mode = "async" THEN prevLen[r] ELSE valid[prevIdx[r]] - 1
           a == out[r] + more
           b == SentOutput(r)
<1>4. more \in Nat
  <2>1. CASE ~Async \/ ~InBatch(r) \/ prevLen[r] = 0
    BY <2>1
  <2>2. CASE ~(~Async \/ ~InBatch(r) \/ prevLen[r] = 0)
    <3>1. valid[prevIdx[r]] \in 1 .. prevLen[r] + 1
      BY <1>2, <2>2
    <3>2. valid[prevIdx[r]] - 1 \in Nat
      BY <1>2, <3>1
    <3> QED
      BY <1>2, <2>2, <3>2
  <2> QED
    BY <2>1, <2>2
<1>5. a \in Int /\ b \in Int /\ a \in Nat /\ a = out[r] + more
  BY <1>2, <1>3, <1>4
<1>6. Output(r) = IF ~Known(r) THEN 0 ELSE IF Async /\ ~InBatch(r) THEN b ELSE Min({a, b})
  BY DEF Output
<1>7. CASE mode = "wait" /\ InBatch(r) /\ prevLen[r] > 0
  <2>1. Async /\ mode # "async"
    BY <1>7 DEF Async
  <2>2. more = valid[prevIdx[r]] - 1
    BY <1>2, <1>7, <2>1
  <2>3. HostCount(r) = so.sent[r] - (prevLen[r] - (valid[prevIdx[r]] - 1))
    BY <1>7 DEF HostCount
  <2>4. r \notin Deferring
    BY <2>1 DEF Deferring
  <2> HIDE DEF a, b, more
  <2>5. Min({a, b}) \in {a, b} /\ Min({a, b}) <= a
    BY <1>5, MinPair
  <2>6. HostCount(r) = true[r]
    BY <1>2, <1>7, <2>1, <2>3
  <2>7. Output(r) \in Nat /\ (Output(r) > 0 => Output(r) <= out[r] + more)
    BY <1>3, <1>5, <1>6, <1>7, <2>5 DEF b
  <2>8. Prompt[r] + out[r] + more <= true[r] + 1
    BY <1>2, <1>7, <2>1, <2>2
  <2>9. Output(r) > 0 => Prompt[r] + Output(r) <= HostCount(r) + 1
    BY <1>2, <1>4, <2>6, <2>7, <2>8
  <2> QED
    BY <1>2, <2>4, <2>6, <2>7, <2>9
<1>8. CASE ~(mode = "wait" /\ InBatch(r) /\ prevLen[r] > 0)
  <2>1. HostCount(r) = so.sent[r]
    BY <1>2, <1>8 DEF HostCount
  <2> HIDE DEF a, b, more
  <2>2. Min({a, b}) \in {a, b} /\ Min({a, b}) <= b
    BY <1>5, MinPair
  <2>3. Output(r) \in Nat /\ (Output(r) > 0 => Output(r) <= SentOutput(r))
    BY <1>3, <1>5, <1>6, <2>2 DEF b
  <2>4. Output(r) > 0 => Prompt[r] + Output(r) <= HostCount(r) + 1
    BY <1>2, <1>3, <2>1, <2>3
  <2>5. mode \in {"sync", "wait", "async"}
    BY <1>1 DEF Types
  <2>6. CASE r \in Deferring
    <3>1. mode = "async" /\ InBatch(r) /\ prevLen[r] > 0 /\ Async
      BY <2>6 DEF Deferring, Async
    <3> QED
      BY <1>2, <2>1, <2>3, <2>4, <2>6, <3>1
  <2>7. CASE r \notin Deferring
    <3>1. Behind(r) = 0 \/ so.sent[r] = 0
      BY <1>2, <1>8, <2>5, <2>7 DEF Deferring, Known, Async
    <3>2. HostCount(r) = true[r]
      BY <1>2, <2>1, <3>1
    <3> QED
      BY <1>2, <2>3, <2>4, <2>7, <3>2
  <2> QED
    BY <2>6, <2>7
<1> QED
  BY <1>7, <1>8

\* The rows move, but each request goes on looking where its counts were kept.
LEMMA UpdateInv == IInv /\ UpdateStates => IInv'
<1> SUFFICES ASSUME IInv, UpdateStates PROVE IInv'
  OBVIOUS
<1>1. /\ pc = "update"
      /\ pc' = IF Scheduled = {} THEN "schedule" ELSE "prepare"
      /\ UNCHANGED <<mode, align, live, todo, owed, so, prevIdx, valid, gpu, sel, accDue>>
  BY DEF UpdateStates
<1>2. Types /\ Scheduled \subseteq Req /\ IsFiniteSet(Scheduled) /\ Scheduled \subseteq live
  BY <1>1, ScheduledFacts DEF IInv, Granted
<1>3. Scheduled' = Scheduled
  BY <1>1 DEF Scheduled
<1>4. PICK new \in Orders({r \in Scheduled : ~InBatch(r)}) :
        /\ batch' \in Reordered(Condense(new))
        /\ acc' = [i \in Rows |-> IF i \notin DOMAIN batch' THEN acc[i]
                                  ELSE IF InBatch(batch'[i]) THEN acc[RowOf(batch'[i])] ELSE 1]
  BY DEF UpdateStates
<1>5. /\ batch' \in Seq(Req) /\ IsInjective(batch') /\ Len(batch') = Cardinality(Scheduled)
      /\ ToSet(batch') = Scheduled
  BY <1>2, <1>4, ReorderArranges DEF Types
<1>6. ASSUME NEW r \in Req
      PROVE  /\ cpu'[r] = IF r \in Scheduled THEN HostCount(r) ELSE Stay(cpu, r)
             /\ out'[r] = IF r \in Scheduled THEN Output(r) ELSE Stay(out, r)
             /\ prevLen'[r] = IF r \in Scheduled THEN so.draft[r] ELSE Stay(prevLen, r)
             /\ true'[r] = Stay(true, r)
             /\ r \in Scheduled => true'[r] = true[r]
  BY <1>2 DEF UpdateStates, Stay
<1>7. deferred' = {<<r, prevLen[r]>> : r \in Deferring}
  BY DEF UpdateStates
<1>8. prevDraft' = [i \in Rows |-> IF \E r \in Deferring : prevIdx[r] = i
                                   THEN prevLen[CHOOSE r \in Deferring : prevIdx[r] = i] ELSE 0]
  BY DEF UpdateStates
<1>9. Types'
  <2>1. Len(batch') <= MaxRows
    <3>1. live \in SUBSET Req /\ Scheduled \in SUBSET live
      BY <1>2 DEF Types
    <3>2. IsFiniteSet(live)
      BY <3>1, Bounds, FS_Subset
    <3>3. Cardinality(Scheduled) <= Cardinality(live) /\ Cardinality(live) <= Cardinality(Groups)
      BY <1>2, <3>1, <3>2, FS_Subset DEF Types
    <3>4. Cardinality(Scheduled) \in Nat /\ Cardinality(live) \in Nat
      BY <1>2, <3>2, FS_CardinalityType
    <3> QED
      BY <1>5, <3>3, <3>4, Bounds
  <2>2. acc' \in [Rows -> 1 .. K + 1]
    <3>1. ASSUME NEW i \in Rows PROVE acc'[i] \in 1 .. K + 1
      <4>1. CASE i \notin DOMAIN batch' \/ ~InBatch(batch'[i])
        <5>1. acc'[i] = acc[i] \/ acc'[i] = 1
          BY <1>4, <4>1
        <5>2. acc[i] \in 1 .. K + 1
          BY <1>2 DEF Types
        <5>3. 1 \in 1 .. K + 1
          BY Bounds
        <5> QED
          BY <5>1, <5>2, <5>3
      <4>2. CASE i \in DOMAIN batch' /\ InBatch(batch'[i])
        <5>1. \E j \in DOMAIN batch : batch[j] = batch'[i]
          BY <4>2 DEF InBatch, ToSet
        <5>2. RowOf(batch'[i]) \in DOMAIN batch
          BY <5>1 DEF RowOf
        <5>3. DOMAIN batch = 1 .. Len(batch) /\ Len(batch) \in Nat /\ Len(batch) <= MaxRows
          <6>1. batch \in Seq(Req) /\ Len(batch) <= MaxRows
            BY <1>2 DEF Types
          <6> QED
            BY <6>1
        <5>4. RowOf(batch'[i]) \in Rows
          BY <5>2, <5>3, Bounds
        <5> QED
          BY <1>2, <1>4, <4>2, <5>4 DEF Types
      <4> QED
        BY <4>1, <4>2
    <3>2. acc' = [i \in Rows |-> acc'[i]]
      BY <1>4
    <3> QED
      BY <3>1, <3>2
  <2>3. ASSUME NEW r \in Req
        PROVE  /\ cpu'[r] \in 0 .. MaxLen /\ true'[r] \in 0 .. MaxLen
               /\ out'[r] \in Nat /\ prevLen'[r] \in Nat
    <3>1. /\ Stay(cpu, r) \in 0 .. MaxLen /\ Stay(true, r) \in 0 .. MaxLen
          /\ Stay(out, r) \in Nat /\ Stay(prevLen, r) \in Nat /\ so.draft[r] \in Nat
      <4>1. /\ cpu[r] \in 0 .. MaxLen /\ true[r] \in 0 .. MaxLen
            /\ out[r] \in Nat /\ prevLen[r] \in Nat /\ so.draft[r] \in Nat
        BY <1>2 DEF Types
      <4>2. 0 \in 0 .. MaxLen /\ 0 \in Nat
        BY Bounds
      <4> QED
        BY <4>1, <4>2 DEF Stay
    <3>2. r \in Scheduled => HostCount(r) \in 0 .. MaxLen /\ Output(r) \in Nat
      BY <1>1, UpdateCounts
    <3>3. CASE r \in Scheduled
      <4>1. /\ cpu'[r] = HostCount(r) /\ out'[r] = Output(r) /\ prevLen'[r] = so.draft[r]
            /\ true'[r] = Stay(true, r)
        BY <1>6, <3>3
      <4> QED
        BY <3>1, <3>2, <3>3, <4>1
    <3>4. CASE r \notin Scheduled
      <4>1. /\ cpu'[r] = Stay(cpu, r) /\ out'[r] = Stay(out, r) /\ prevLen'[r] = Stay(prevLen, r)
            /\ true'[r] = Stay(true, r)
        BY <1>6, <3>4
      <4> QED
        BY <3>1, <4>1
    <3> QED
      BY <3>3, <3>4
  <2>4. /\ cpu' = [r \in Req |-> cpu'[r]] /\ true' = [r \in Req |-> true'[r]]
        /\ out' = [r \in Req |-> out'[r]] /\ prevLen' = [r \in Req |-> prevLen'[r]]
    BY DEF UpdateStates
  <2>5. /\ cpu' \in [Req -> 0 .. MaxLen] /\ true' \in [Req -> 0 .. MaxLen]
        /\ out' \in [Req -> Nat] /\ prevLen' \in [Req -> Nat]
    BY <2>3, <2>4
  <2>6. pc' \in {"schedule", "update", "prepare", "launch", "correct", "sample"}
    BY <1>1
  <2> QED
    BY <1>1, <1>2, <1>5, <2>1, <2>2, <2>5, <2>6 DEF Types
<1>10. OwnPlace'
  BY <1>1 DEF IInv, OwnPlace
<1>11. Granted'
  <2>1. ASSUME NEW r \in Req PROVE true'[r] <= MaxLen - 1
    <3>1. true[r] <= MaxLen - 1
      BY <1>1 DEF IInv, Granted
    <3>2. true'[r] = true[r] \/ true'[r] = 0
      BY <1>6 DEF Stay
    <3>3. 0 <= MaxLen - 1
      BY Bounds
    <3> QED
      BY <3>1, <3>2, <3>3
  <2> QED
    BY <1>1, <1>2, <1>3, <1>6, <2>1 DEF IInv, Granted
<1>12. Launched'
  BY <1>1 DEF Launched
<1>13. CASE Scheduled = {}
  <2>1. pc' = "schedule" /\ deferred' = {}
    BY <1>1, <1>7, <1>13 DEF Deferring
  <2>2. ASSUME NEW r \in Req
        PROVE  ~InBatch(r)' /\ Behind(r)' = 0 /\ true'[r] \in Nat /\ true'[r] <= MaxLen - 1
               /\ Sent(r)' = true'[r]
    <3>1. ~InBatch(r)' /\ Behind(r)' = 0
      BY <1>5, <1>13 DEF InBatch, Behind
    <3>2. /\ true[r] \in Nat /\ Behind(r) \in Nat /\ so.sent[r] = true[r] + Behind(r)
          /\ so.sent[r] <= MaxLen - 1 /\ MaxLen \in Nat
      BY <1>1, LeftOver
    <3>3. true'[r] \in {true[r], 0}
      BY <1>6 DEF Stay
    <3>4. true'[r] \in Nat /\ true'[r] <= MaxLen - 1
      BY <3>2, <3>3
    <3>5. owed'[r] = 0
      BY <1>1 DEF IInv, Told
    <3> QED
      BY <3>1, <3>4, <3>5 DEF Sent
  <2>3. LastRound'
    <3>1. \A r \in Req : true'[r] + Behind(r)' <= MaxLen - 1
      BY <2>2, Bounds
    <3> QED
      BY <2>1, <2>2, <3>1 DEF LastRound
  <2>4. Told'
    BY <2>1, <2>2 DEF Told
  <2>5. HostSide' /\ Prepared'
    BY <2>1 DEF HostSide, Between, Prepared
  <2> QED
    BY <1>9, <1>10, <1>11, <1>12, <2>3, <2>4, <2>5 DEF IInv
<1>14. CASE Scheduled # {}
  <2>1. pc' = "prepare"
    BY <1>1, <1>14
  <2>2. LastRound' /\ Told'
    BY <2>1 DEF LastRound, Between, Told
  <2>3. ASSUME NEW r \in Scheduled
        PROVE  /\ r \notin Deferring => cpu'[r] = true'[r]
               /\ out'[r] > 0 => Prompt[r] + out'[r] <= cpu'[r] + 1
    BY <1>1, <1>2, <1>6, UpdateCounts
  <2>4. ASSUME NEW r \in Deferring
        PROVE  /\ r \in Scheduled /\ mode = "async" /\ prevLen[r] > 0 /\ prevLen[r] \in Nat
               /\ prevIdx[r] > 0 /\ prevIdx[r] \in DOMAIN valid /\ prevIdx[r] \in Rows
               /\ valid[prevIdx[r]] \in 1 .. prevLen[r] + 1
               /\ cpu'[r] = true'[r] + prevLen[r] + 1 - valid[prevIdx[r]]
               /\ gpu[prevIdx[r]] + valid[prevIdx[r]] = true'[r]
    <3>1. r \in Scheduled /\ r \in Req
      BY <1>2 DEF Deferring
    <3>2. /\ mode = "async" /\ InBatch(r) /\ prevLen[r] > 0 /\ Async
          /\ HostCount(r) = true[r] + prevLen[r] + 1 - valid[prevIdx[r]]
      BY <1>1, <2>4, <3>1, UpdateCounts DEF Async
    <3>3. /\ prevLen[r] \in Nat /\ prevIdx[r] > 0 /\ prevIdx[r] \in DOMAIN valid
          /\ valid[prevIdx[r]] \in 1 .. prevLen[r] + 1
          /\ gpu[prevIdx[r]] + valid[prevIdx[r]] = true[r]
      BY <1>1, <3>1, <3>2, LeftOver
    <3>4. prevIdx[r] \in Rows
      <4>1. prevIdx[r] \in 0 .. MaxRows
        BY <1>2, <3>1 DEF Types
      <4> QED
        BY <3>3, <4>1, Bounds
    <3> QED
      BY <1>6, <3>1, <3>2, <3>3, <3>4
  <2>5. HostSide'
    <3>1. ASSUME NEW d \in deferred'
          PROVE  /\ d[1] \in Deferring /\ d[2] = prevLen[d[1]] /\ d = <<d[1], d[2]>>
      <4>1. PICK r \in Deferring : d = <<r, prevLen[r]>>
        BY <1>7
      <4> QED
        BY <4>1
    <3>2. ASSUME NEW r \in Scheduled, \A d \in deferred' : d[1] # r PROVE r \notin Deferring
      <4>1. r \in Deferring => <<r, prevLen[r]>> \in deferred'
        BY <1>7
      <4>2. <<r, prevLen[r]>>[1] = r
        OBVIOUS
      <4> QED
        BY <3>2, <4>1, <4>2
    <3>3. ~(pc' = "sample" \/ (align' /\ pc' = "launch"))
      BY <2>1
    <3>4. \A r \in Scheduled : prevLen'[r] = so'.draft[r]
      BY <1>1, <1>2, <1>6
    <3>5. \A d \in deferred' : d[1] \in Scheduled /\ d[2] \in Nat
      BY <2>4, <3>1
    <3>6. \A d, e \in deferred' : d[1] = e[1] => d = e
      BY <3>1
    <3>7. deferred' # {} => mode' = "async"
      BY <1>1, <2>4, <3>1
    <3>8. ASSUME NEW d \in deferred'
          PROVE  /\ prevIdx'[d[1]] > 0
                 /\ valid'[prevIdx'[d[1]]] \in 1 .. d[2] + 1
                 /\ cpu'[d[1]] = true'[d[1]] + d[2] + 1 - valid'[prevIdx'[d[1]]]
      BY <1>1, <2>4, <3>1
    <3>9. \A r \in Scheduled : (\A d \in deferred' : d[1] # r) => cpu'[r] = true'[r]
      BY <2>3, <3>2
    <3> QED
      BY <1>3, <1>5, <3>3, <3>4, <3>5, <3>6, <3>7, <3>8, <3>9 DEF HostSide
  <2>6. Prepared'
    <3>1. ASSUME NEW r \in Scheduled
          PROVE  IF mode = "async" /\ prevIdx[r] > 0 /\ prevDraft'[prevIdx[r]] > 0
                 THEN valid # <<>> /\ gpu[prevIdx[r]] + valid[prevIdx[r]] = true'[r]
                 ELSE cpu'[r] = true'[r]
      <4>1. CASE r \in Deferring
        <5>1. (CHOOSE q \in Deferring : prevIdx[q] = prevIdx[r]) = r
          <6>1. \A q \in Deferring : prevIdx[q] = prevIdx[r] => q = r
            BY <1>2, <2>4, <4>1 DEF IInv, OwnPlace
          <6> QED
            BY <4>1, <6>1
        <5>2. prevDraft'[prevIdx[r]] = prevLen[r]
          BY <1>8, <2>4, <4>1, <5>1
        <5>3. valid # <<>>
          <6>1. DOMAIN valid # {}
            BY <2>4, <4>1
          <6>2. DOMAIN <<>> = {}
            OBVIOUS
          <6> QED
            BY <6>1, <6>2
        <5> QED
          BY <2>4, <4>1, <5>2, <5>3
      <4>2. CASE r \notin Deferring
        <5>1. cpu'[r] = true'[r]
          BY <2>3, <4>2
        <5>2. ASSUME prevIdx[r] > 0 PROVE prevDraft'[prevIdx[r]] = 0
          <6>1. prevIdx[r] \in Rows
            <7>1. prevIdx[r] \in 0 .. MaxRows
              BY <1>2 DEF Types
            <7> QED
              BY <5>2, <7>1, Bounds
          <6>2. ~ \E q \in Deferring : prevIdx[q] = prevIdx[r]
            BY <1>2, <2>4, <4>2, <5>2 DEF IInv, OwnPlace
          <6> QED
            BY <1>8, <6>1, <6>2
        <5> QED
          BY <5>1, <5>2
      <4> QED
        BY <4>1, <4>2
    <3> QED
      BY <1>1, <1>3, <2>3, <3>1 DEF Prepared
  <2> QED
    BY <1>9, <1>10, <1>11, <1>12, <2>2, <2>5, <2>6 DEF IInv
<1> QED
  BY <1>13, <1>14


-----------------------------------------------------------------------------
(* _prepare_inputs.                                                        *)

\* During a round the rows are the requests scheduled.
LEMMA RowFacts ==
    ASSUME IInv, ~Between
    PROVE  /\ Types /\ Scheduled \subseteq Req /\ DOMAIN batch \subseteq Rows
           /\ \A i \in DOMAIN batch : batch[i] \in Scheduled
           /\ \A r \in Scheduled : RowOf(r) \in DOMAIN batch /\ batch[RowOf(r)] = r
<1>1. Types /\ Scheduled \subseteq Req
  BY ScheduledFacts DEF IInv
<1>2. ToSet(batch) = Scheduled
  BY DEF IInv, HostSide
<1>3. DOMAIN batch = 1 .. Len(batch) /\ Len(batch) \in Nat /\ Len(batch) <= MaxRows
  <2>1. batch \in Seq(Req) /\ Len(batch) <= MaxRows
    BY <1>1 DEF Types
  <2> QED
    BY <2>1
<1>4. DOMAIN batch \subseteq Rows
  BY <1>3, Bounds
<1>5. \A i \in DOMAIN batch : batch[i] \in Scheduled
  BY <1>2 DEF ToSet
<1>6. ASSUME NEW r \in Scheduled PROVE RowOf(r) \in DOMAIN batch /\ batch[RowOf(r)] = r
  <2>1. \E i \in DOMAIN batch : batch[i] = r
    BY <1>2 DEF ToSet
  <2> QED
    BY <2>1 DEF RowOf
<1> QED
  BY <1>1, <1>4, <1>5, <1>6

\* The gathers by previous row find the counts of the same request.
LEMMA DeviceCountExact ==
    ASSUME IInv, pc = "prepare", NEW i \in DOMAIN batch
    PROVE  DeviceCount(i) = true[batch[i]]
<1> DEFINE r == batch[i]
<1>1. r \in Scheduled
  BY RowFacts DEF Between
<1>2. IF mode = "async" /\ prevIdx[r] > 0 /\ prevDraft[prevIdx[r]] > 0
      THEN valid # <<>> /\ gpu[prevIdx[r]] + valid[prevIdx[r]] = true[r]
      ELSE cpu[r] = true[r]
  BY <1>1 DEF IInv, Prepared
<1>3. i \in Participating <=> prevIdx[r] > 0 /\ prevDraft[prevIdx[r]] > 0
  BY DEF Participating, PrevPos
<1> QED
  BY <1>2, <1>3 DEF DeviceCount, PrevPos

LEMMA AcceptedBounds ==
    ASSUME IInv, pc = "prepare", NEW i \in DOMAIN batch
    PROVE  Accepted(i) \in 1 .. K + 1
<1>1. /\ acc \in [Rows -> 1 .. K + 1] /\ i \in Rows /\ batch[i] \in Req
      /\ prevIdx \in [Req -> 0 .. MaxRows]
  BY RowFacts DEF Between, Types
<1>2. 1 \in 1 .. K + 1
  BY Bounds
<1>3. PrevPos(i) \in 0 .. MaxRows
  BY <1>1 DEF PrevPos
<1>4. PrevPos(i) # 0 => PrevPos(i) \in Rows
  BY <1>3, Bounds
<1> QED
  BY <1>1, <1>2, <1>4 DEF Accepted

LEMMA PrepareInv == IInv /\ Prepare => IInv'
<1> SUFFICES ASSUME IInv, Prepare PROVE IInv'
  OBVIOUS
<1>1. /\ pc = "prepare" /\ pc' = IF align /\ deferred # {} THEN "correct" ELSE "launch"
      /\ UNCHANGED <<mode, align, live, todo, true, owed, cpu, out, prevLen, prevIdx, prevDraft,
                     deferred, so, batch, valid, accDue>>
  BY DEF Prepare, counts
<1>2. /\ gpu' = [i \in Rows |-> IF i \in DOMAIN batch THEN DeviceCount(i) ELSE gpu[i]]
      /\ sel' = [i \in Rows |-> IF i \in DOMAIN batch THEN Accepted(i) ELSE 1]
      /\ acc' = [i \in Rows |-> IF i \in DOMAIN batch THEN Accepted(i) ELSE acc[i]]
      /\ discard' = {r \in Scheduled : cpu[r] + so.tok[r] < Prompt[r] + out[r]}
  BY DEF Prepare
<1>3. /\ Types /\ Scheduled \subseteq Req /\ DOMAIN batch \subseteq Rows
      /\ \A i \in DOMAIN batch : batch[i] \in Scheduled
  BY <1>1, RowFacts DEF Between
<1>4. Scheduled' = Scheduled
  BY <1>1 DEF Scheduled
<1>5. Types'
  <2>1. gpu' \in [Rows -> 0 .. MaxLen]
    <3>1. ASSUME NEW i \in Rows
          PROVE  (IF i \in DOMAIN batch THEN DeviceCount(i) ELSE gpu[i]) \in 0 .. MaxLen
      <4>1. CASE i \in DOMAIN batch
        <5>1. true[batch[i]] \in 0 .. MaxLen
          BY <1>3, <4>1 DEF Types
        <5> QED
          BY <1>1, <4>1, <5>1, DeviceCountExact
      <4>2. CASE i \notin DOMAIN batch
        BY <1>3, <4>2 DEF Types
      <4> QED
        BY <4>1, <4>2
    <3> QED
      BY <1>2, <3>1
  <2>2. sel' \in [Rows -> 1 .. K + 1] /\ acc' \in [Rows -> 1 .. K + 1]
    <3>1. 1 \in 1 .. K + 1
      BY Bounds
    <3>2. \A i \in DOMAIN batch : Accepted(i) \in 1 .. K + 1
      BY <1>1, AcceptedBounds
    <3>3. acc \in [Rows -> 1 .. K + 1]
      BY <1>3 DEF Types
    <3> QED
      BY <1>2, <3>1, <3>2, <3>3
  <2>3. pc' \in {"schedule", "update", "prepare", "launch", "correct", "sample"}
    BY <1>1
  <2> QED
    BY <1>1, <1>3, <2>1, <2>2, <2>3 DEF Types
<1>6. OwnPlace' /\ Granted'
  BY <1>1, <1>4 DEF IInv, OwnPlace, Granted
<1>7. LastRound' /\ Told' /\ Prepared'
  BY <1>1 DEF LastRound, Between, Told, Prepared
<1>8. HostSide'
  <2>1. ~(pc' = "sample") /\ (align' /\ pc' = "launch" => deferred' = {})
    BY <1>1
  <2> QED
    BY <1>1, <1>4, <2>1 DEF IInv, HostSide, Between
<1>9. Launched'
  <2>1. CountsExact'
    BY <1>1, <1>2, <1>3, DeviceCountExact DEF CountsExact
  <2>2. ASSUME NEW r \in Scheduled
        PROVE  /\ so.draft[r] > 0 => r \notin discard'
               /\ mode = "wait" /\ r \notin discard' =>
                    Prompt[r] + out[r] <= true[r] + so.tok[r] - so.draft[r]
    <3>1. /\ so.tok[r] \in Nat \ {0} /\ so.draft[r] \in Nat /\ cpu[r] \in Nat /\ out[r] \in Nat
          /\ Prompt[r] \in Nat /\ true[r] \in Nat
      <4>1. cpu[r] \in 0 .. MaxLen /\ true[r] \in 0 .. MaxLen /\ out[r] \in Nat
        BY <1>3 DEF Types
      <4> QED
        BY <1>3, <4>1, ScheduledFacts, Bounds
    <3>2. /\ so.draft[r] > 0 => so.tok[r] = so.draft[r] + 1 /\ true[r] >= Prompt[r]
          /\ out[r] > 0 => Prompt[r] + out[r] <= cpu[r] + 1
      BY <1>1 DEF IInv, Granted, Prepared
    <3>3. cpu[r] >= true[r] /\ (mode = "wait" => cpu[r] = true[r])
      <4>1. CASE \A d \in deferred : d[1] # r
        <5>1. cpu[r] = true[r]
          BY <1>1, <4>1 DEF IInv, HostSide, Between
        <5> QED
          BY <3>1, <5>1
      <4>2. ASSUME NEW d \in deferred, d[1] = r
            PROVE  cpu[r] >= true[r] /\ mode = "async"
        <5>1. /\ valid[prevIdx[r]] \in 1 .. d[2] + 1 /\ d[2] \in Nat /\ mode = "async"
              /\ cpu[r] = true[r] + d[2] + 1 - valid[prevIdx[r]]
          BY <1>1, <4>2 DEF IInv, HostSide, Between
        <5> QED
          BY <3>1, <5>1
      <4> QED
        BY <4>1, <4>2
    <3>4. r \in discard' <=> cpu[r] + so.tok[r] < Prompt[r] + out[r]
      BY <1>2
    <3>5. so.draft[r] > 0 => r \notin discard'
      <4>1. CASE out[r] = 0
        BY <3>1, <3>2, <3>3, <3>4, <4>1
      <4>2. CASE out[r] > 0
        BY <3>1, <3>2, <3>3, <3>4, <4>2
      <4> QED
        BY <3>1, <4>1, <4>2
    <3>6. ASSUME mode = "wait", r \notin discard'
          PROVE  Prompt[r] + out[r] <= true[r] + so.tok[r] - so.draft[r]
      <4>1. cpu[r] = true[r] /\ so.tok[r] >= so.draft[r] + 1
        <5>1. CASE so.draft[r] > 0
          BY <3>1, <3>2, <3>3, <3>6, <5>1
        <5>2. CASE so.draft[r] = 0
          BY <3>1, <3>3, <3>6, <5>2
        <5> QED
          BY <3>1, <5>1, <5>2
      <4>2. CASE out[r] > 0
        BY <3>1, <3>2, <4>1, <4>2
      <4>3. CASE out[r] = 0 /\ so.draft[r] > 0
        BY <3>1, <3>2, <4>1, <4>3
      <4>4. CASE out[r] = 0 /\ so.draft[r] = 0
        BY <3>1, <3>4, <3>6, <4>1, <4>4
      <4> QED
        BY <3>1, <4>2, <4>3, <4>4
    <3> QED
      BY <3>5, <3>6
  <2> QED
    BY <1>1, <1>4, <2>1, <2>2 DEF Launched
<1> QED
  BY <1>5, <1>6, <1>7, <1>8, <1>9 DEF IInv


-----------------------------------------------------------------------------
(* The rest of execute_model.                                              *)

LEMMA LaunchInv == IInv /\ Launch => IInv'
<1> SUFFICES ASSUME IInv, Launch PROVE IInv'
  OBVIOUS
<1>1. /\ pc = "launch" /\ pc' = IF deferred # {} THEN "correct" ELSE "sample"
      /\ UNCHANGED <<mode, align, live, todo, true, owed, cpu, out, prevLen, prevIdx, prevDraft,
                     deferred, so, batch, discard, gpu, valid, accDue>>
  BY DEF Launch, counts
<1>2. PICK moving : /\ sel' = [i \in Rows |-> IF i \in moving THEN 1 ELSE sel[i]]
                    /\ acc' = [i \in Rows |-> IF i \in moving THEN 1 ELSE acc[i]]
  BY DEF Launch
<1>3. Types'
  <2>1. sel' \in [Rows -> 1 .. K + 1] /\ acc' \in [Rows -> 1 .. K + 1]
    <3>1. 1 \in 1 .. K + 1
      BY Bounds
    <3>2. sel \in [Rows -> 1 .. K + 1] /\ acc \in [Rows -> 1 .. K + 1]
      BY DEF IInv, Types
    <3> QED
      BY <1>2, <3>1, <3>2
  <2>2. pc' \in {"schedule", "update", "prepare", "launch", "correct", "sample"}
    BY <1>1
  <2> QED
    BY <1>1, <2>1, <2>2 DEF IInv, Types
<1>4. Scheduled' = Scheduled
  BY <1>1 DEF Scheduled
<1>5. OwnPlace' /\ Granted'
  BY <1>1, <1>4 DEF IInv, OwnPlace, Granted
<1>6. LastRound' /\ Told' /\ Prepared'
  BY <1>1 DEF LastRound, Between, Told, Prepared
<1>7. HostSide'
  <2>1. (pc' = "sample" => deferred' = {}) /\ pc' # "launch"
    BY <1>1
  <2> QED
    BY <1>1, <1>4, <2>1 DEF IInv, HostSide, Between
<1>8. Launched'
  BY <1>1, <1>4 DEF IInv, Launched, CountsExact
<1> QED
  BY <1>3, <1>5, <1>6, <1>7, <1>8 DEF IInv

LEMMA CorrectInv == IInv /\ Correct => IInv'
<1> SUFFICES ASSUME IInv, Correct PROVE IInv'
  OBVIOUS
<1>1. /\ pc = "correct" /\ pc' = IF align THEN "launch" ELSE "sample"
      /\ deferred' = {}
      /\ UNCHANGED <<mode, align, live, todo, true, owed, so, batch, out, prevLen, prevIdx,
                     prevDraft, discard, gpu, valid, sel, acc, accDue>>
  BY DEF Correct, device, copies
<1>2. cpu' = [r \in Req |->
                 IF \E d \in deferred : d[1] = r /\ prevIdx[r] > 0
                 THEN cpu[r] - ((CHOOSE d \in deferred : d[1] = r)[2] - (valid[prevIdx[r]] - 1))
                 ELSE cpu[r]]
  BY DEF Correct
<1>3. Types /\ Scheduled \subseteq Req
  BY <1>1, RowFacts DEF Between
<1>4. Scheduled' = Scheduled
  BY <1>1 DEF Scheduled
<1>5. HostSide /\ ~Between
  BY <1>1 DEF IInv, Between
<1>6. ASSUME NEW r \in Scheduled PROVE cpu'[r] = true[r]
  <2>1. CASE \A d \in deferred : d[1] # r
    BY <1>2, <1>3, <1>5, <2>1 DEF HostSide
  <2>2. ASSUME NEW d \in deferred, d[1] = r PROVE cpu'[r] = true[r]
    <3>1. /\ prevIdx[r] > 0 /\ valid[prevIdx[r]] \in 1 .. d[2] + 1 /\ d[2] \in Nat
          /\ cpu[r] = true[r] + d[2] + 1 - valid[prevIdx[r]]
          /\ \A e \in deferred : e[1] = r => e = d
      BY <1>5, <2>2 DEF HostSide
    <3>2. (CHOOSE e \in deferred : e[1] = r) = d
      BY <2>2, <3>1
    <3>3. cpu'[r] = cpu[r] - (d[2] - (valid[prevIdx[r]] - 1))
      BY <1>2, <1>3, <2>2, <3>1, <3>2
    <3>4. true[r] \in 0 .. MaxLen
      BY <1>3 DEF Types
    <3>5. valid[prevIdx[r]] \in Int /\ true[r] \in Int
      BY <3>1, <3>4, Bounds
    <3> QED
      BY <3>1, <3>3, <3>5
  <2> QED
    BY <2>1, <2>2
<1>7. Types'
  <2>1. cpu' \in [Req -> 0 .. MaxLen]
    <3>1. ASSUME NEW r \in Req PROVE cpu'[r] \in 0 .. MaxLen
      <4>1. cpu[r] \in 0 .. MaxLen /\ true[r] \in 0 .. MaxLen
        BY <1>3 DEF Types
      <4>2. CASE r \in Scheduled
        BY <1>6, <4>1, <4>2
      <4>3. CASE r \notin Scheduled
        <5>1. \A d \in deferred : d[1] # r
          BY <1>5, <4>3 DEF HostSide
        <5> QED
          BY <1>2, <4>1, <5>1
      <4> QED
        BY <4>2, <4>3
    <3>2. cpu' = [r \in Req |-> cpu'[r]]
      BY <1>2
    <3> QED
      BY <3>1, <3>2
  <2>2. pc' \in {"schedule", "update", "prepare", "launch", "correct", "sample"}
    BY <1>1
  <2> QED
    BY <1>1, <1>3, <2>1, <2>2 DEF Types
<1>8. OwnPlace' /\ Granted'
  BY <1>1, <1>4 DEF IInv, OwnPlace, Granted
<1>9. LastRound' /\ Told' /\ Prepared'
  BY <1>1 DEF LastRound, Between, Told, Prepared
<1>10. HostSide'
  BY <1>1, <1>4, <1>5, <1>6 DEF HostSide, Between
<1>11. Launched'
  BY <1>1, <1>4 DEF IInv, Launched, CountsExact
<1> QED
  BY <1>7, <1>8, <1>9, <1>10, <1>11 DEF IInv

LEMMA LandInv == IInv /\ LandAccepted => IInv'
<1> SUFFICES ASSUME IInv, LandAccepted PROVE IInv'
  OBVIOUS
<1>1. /\ acc' = [i \in Rows |-> IF i \in DOMAIN accDue THEN accDue[i] ELSE acc[i]]
      /\ accDue' = <<>>
      /\ UNCHANGED <<mode, align, live, todo, true, owed, cpu, out, prevLen, prevIdx, prevDraft,
                     deferred, so, pc, batch, discard, gpu, valid, sel>>
  BY DEF LandAccepted, counts, device
<1>2. Types'
  <2>1. acc' \in [Rows -> 1 .. K + 1]
    <3>1. acc \in [Rows -> 1 .. K + 1] /\ \A i \in DOMAIN accDue : accDue[i] \in 1 .. K + 1
      BY DEF IInv, Types
    <3> QED
      BY <1>1, <3>1
  <2>2. DOMAIN accDue' = {}
    <3>1. accDue' = <<>>
      BY <1>1
    <3> QED
      BY <3>1
  <2> QED
    BY <1>1, <2>1, <2>2 DEF IInv, Types
<1>3. Scheduled' = Scheduled /\ \A r \in Req : Behind(r)' = Behind(r) /\ Sent(r)' = Sent(r)
  BY <1>1 DEF Scheduled, Behind, InBatch, Async, Sent
<1>4. OwnPlace' /\ Granted'
  BY <1>1, <1>3 DEF IInv, OwnPlace, Granted
<1>5. LastRound'
  BY <1>1, <1>3 DEF IInv, LastRound, Between, InBatch, Async
<1>6. Told'
  BY <1>1, <1>3 DEF IInv, Told
<1>7. HostSide'
  BY <1>1, <1>3 DEF IInv, HostSide, Between
<1>8. Prepared' /\ Launched'
  BY <1>1, <1>3 DEF IInv, Prepared, Launched, CountsExact
<1> QED
  BY <1>2, <1>4, <1>5, <1>6, <1>7, <1>8 DEF IInv

LEMMA StutterInv == IInv /\ UNCHANGED vars => IInv'
<1> SUFFICES ASSUME IInv, UNCHANGED vars PROVE IInv'
  OBVIOUS
<1>1. UNCHANGED <<mode, align, live, todo, true, owed, cpu, out, prevLen, prevIdx, prevDraft,
                  deferred, so, pc, batch, discard, gpu, valid, sel, acc, accDue>>
  BY DEF vars, counts, device, copies
<1>2. Scheduled' = Scheduled /\ \A r \in Req : Behind(r)' = Behind(r) /\ Sent(r)' = Sent(r)
  BY <1>1 DEF Scheduled, Behind, InBatch, Async, Sent
<1>3. Types' /\ OwnPlace' /\ Granted'
  BY <1>1, <1>2 DEF IInv, Types, OwnPlace, Granted
<1>4. LastRound'
  BY <1>1, <1>2 DEF IInv, LastRound, Between, InBatch, Async
<1>5. Told' /\ HostSide'
  BY <1>1, <1>2 DEF IInv, Told, HostSide, Between
<1>6. Prepared' /\ Launched'
  BY <1>1, <1>2 DEF IInv, Prepared, Launched, CountsExact
<1> QED
  BY <1>3, <1>4, <1>5, <1>6 DEF IInv


-----------------------------------------------------------------------------
(* sample_tokens.                                                          *)

LEMMA SampleInv == IInv /\ Sample => IInv'
<1> SUFFICES ASSUME IInv, Sample PROVE IInv'
  OBVIOUS
<1>1. /\ pc = "sample" /\ pc' = "schedule" /\ prevIdx' = Placed /\ so' = Nothing
      /\ UNCHANGED <<mode, align, live, todo, cpu, prevLen, deferred, batch, gpu, sel>>
  BY DEF Sample
<1>2. PICK a \in [Scheduled -> 0 .. K] :
        /\ \A r \in Scheduled : a[r] <= so.draft[r]
        /\ true' = [r \in Req |-> IF r \in Scheduled
                       THEN true[r] + so.tok[r] - (so.draft[r] - a[r]) ELSE true[r]]
        /\ owed' = Owed(a)
        /\ out' = Booked(a)
        /\ valid' = IF Async THEN Kept(a) ELSE valid
        /\ CopyAccepted(a)
  BY DEF Sample
<1>3. /\ Types /\ Scheduled \subseteq Req /\ DOMAIN batch \subseteq Rows
      /\ \A i \in DOMAIN batch : batch[i] \in Scheduled
      /\ \A r \in Scheduled : RowOf(r) \in DOMAIN batch /\ batch[RowOf(r)] = r
  BY <1>1, RowFacts DEF Between
<1>4. /\ \A r \in Scheduled : InBatch(r) /\ prevLen[r] = so.draft[r]
      /\ \A r \in Req : InBatch(r) => r \in Scheduled
      /\ deferred = {}
  BY <1>1 DEF IInv, HostSide, Between, InBatch
<1>5. CountsExact
  BY <1>1 DEF IInv, Launched
\* What is known of a request of the round.
<1>6. ASSUME NEW r \in Scheduled
      PROVE  /\ true[r] \in Nat /\ so.tok[r] \in Nat /\ so.draft[r] \in Nat /\ a[r] \in Nat
             /\ a[r] <= so.draft[r] /\ so.draft[r] + 1 <= so.tok[r] /\ MaxLen \in Nat
             /\ true[r] + so.tok[r] <= MaxLen - 1 /\ a[r] + 1 \in 1 .. K + 1
             /\ so.draft[r] > 0 => so.tok[r] = so.draft[r] + 1 /\ r \notin discard
             /\ mode = "wait" /\ r \notin discard =>
                    Prompt[r] + out[r] <= true[r] + so.tok[r] - so.draft[r]
             /\ out[r] \in Nat /\ Prompt[r] \in Nat
             /\ true'[r] = true[r] + so.tok[r] - (so.draft[r] - a[r])
  <2>1. true[r] \in 0 .. MaxLen /\ out[r] \in Nat
    BY <1>3 DEF Types
  <2>2. so.tok[r] \in Nat \ {0} /\ so.draft[r] \in Nat
    BY <1>3, ScheduledFacts
  <2>3. a[r] \in 0 .. K /\ a[r] <= so.draft[r]
    BY <1>2
  <2>4. MaxLen \in Nat /\ K \in Nat /\ Prompt[r] \in Nat
    BY <1>3, Bounds
  <2>5. /\ true[r] + so.tok[r] <= MaxLen - 1
        /\ so.draft[r] > 0 => so.tok[r] = so.draft[r] + 1
    BY <1>1 DEF IInv, Granted
  <2>6. /\ so.draft[r] > 0 => r \notin discard
        /\ mode = "wait" /\ r \notin discard =>
                    Prompt[r] + out[r] <= true[r] + so.tok[r] - so.draft[r]
    BY <1>1 DEF IInv, Launched
  <2>7. so.draft[r] + 1 <= so.tok[r]
    BY <2>2, <2>5
  <2>8. a[r] + 1 \in 1 .. K + 1 /\ a[r] \in Nat /\ true[r] \in Nat
    BY <2>1, <2>3, <2>4
  <2>9. true'[r] = true[r] + so.tok[r] - (so.draft[r] - a[r])
    BY <1>2, <1>3
  <2> QED
    BY <2>1, <2>2, <2>3, <2>4, <2>5, <2>6, <2>7, <2>8, <2>9
\* What the round leaves of it.
<1>7. ASSUME NEW r \in Scheduled \ discard, Async
      PROVE  /\ prevIdx'[r] = RowOf(r) /\ prevIdx'[r] > 0 /\ prevIdx'[r] \in DOMAIN valid'
             /\ valid'[prevIdx'[r]] = a[r] + 1
             /\ gpu'[prevIdx'[r]] = true[r]
  <2>1. prevIdx'[r] = RowOf(r) /\ RowOf(r) \in DOMAIN batch /\ batch[RowOf(r)] = r
    BY <1>1, <1>3, <1>7 DEF Placed
  <2>2. RowOf(r) > 0
    BY <1>3, <2>1, Bounds
  <2>3. valid' = Kept(a)
    BY <1>2, <1>7
  <2>4. RowOf(r) \in DOMAIN valid' /\ valid'[RowOf(r)] = a[r] + 1
    BY <1>7, <2>1, <2>3 DEF Kept
  <2>5. gpu'[RowOf(r)] = true[r]
    BY <1>1, <1>5, <2>1 DEF CountsExact
  <2> QED
    BY <2>1, <2>2, <2>4, <2>5
<1>8. ASSUME NEW r \in Req, r \notin Scheduled \ discard \/ ~Async PROVE prevIdx'[r] = 0
  BY <1>1, <1>8 DEF Placed
<1>9. ASSUME NEW r \in Req PROVE InBatch(r)' = InBatch(r) /\ Async' = Async
  BY <1>1 DEF InBatch, Async
<1>10. ASSUME NEW r \in Req
       PROVE  /\ owed'[r] = IF r \in Scheduled \ discard THEN so.draft[r] - a[r] ELSE 0
              /\ out'[r] = IF r \notin Scheduled \ discard THEN out[r]
                           ELSE out[r] + (IF Async THEN 1 ELSE a[r] + 1)
  <2>1. CASE r \in Scheduled \ discard
    <3>1. Valid(a)[r] = a[r] + 1
      BY <2>1 DEF Valid
    <3>2. a[r] \in Nat /\ so.draft[r] \in Nat
      BY <1>6, <2>1
    <3>3. owed'[r] = so.draft[r] + 1 - Valid(a)[r]
      BY <1>2, <3>1, <3>2 DEF Owed
    <3>4. out'[r] = out[r] + (IF Async THEN 1 ELSE Valid(a)[r])
      BY <1>2, <2>1 DEF Booked
    <3> QED
      BY <2>1, <3>1, <3>2, <3>3, <3>4
  <2>2. CASE r \notin Scheduled \ discard
    <3>1. Valid(a)[r] = 0
      BY <2>2 DEF Valid
    <3> QED
      BY <1>2, <2>2, <3>1 DEF Owed, Booked
  <2> QED
    BY <2>1, <2>2
<1>11. ASSUME NEW r \in Req
       PROVE  /\ Behind(r)' = IF Async THEN owed'[r] ELSE 0
              /\ true'[r] + Behind(r)' <= MaxLen - 1
  <2>1. CASE Async /\ r \in Scheduled \ discard
    <3>1. Behind(r)' = prevLen[r] + 1 - valid'[prevIdx'[r]]
      BY <1>1, <1>4, <1>7, <1>9, <2>1 DEF Behind
    <3>2. Behind(r)' = so.draft[r] - a[r]
      BY <1>4, <1>6, <1>7, <2>1, <3>1
    <3>3. owed'[r] = so.draft[r] - a[r]
      BY <1>10, <2>1
    <3>4. true'[r] + (so.draft[r] - a[r]) <= MaxLen - 1
      BY <1>6, <2>1
    <3> QED
      BY <2>1, <3>2, <3>3, <3>4
  <2>2. CASE ~(Async /\ r \in Scheduled \ discard)
    <3>1. Behind(r)' = 0
      BY <1>8, <2>2 DEF Behind
    <3>2. Behind(r)' = IF Async THEN owed'[r] ELSE 0
      BY <1>10, <2>2, <3>1
    <3>3. CASE r \in Scheduled
      <4>1. true'[r] + Behind(r)' <= MaxLen - 1
        BY <1>6, <3>1, <3>3
      <4> QED
        BY <3>2, <4>1
    <3>4. CASE r \notin Scheduled
      <4>1. true'[r] = true[r] /\ true[r] \in 0 .. MaxLen /\ MaxLen \in Nat
        BY <1>2, <1>3, <3>4, Bounds DEF Types
      <4>2. true[r] <= MaxLen - 1
        BY <1>1 DEF IInv, Granted
      <4>3. true'[r] + 0 <= MaxLen - 1
        BY <4>1, <4>2
      <4> QED
        BY <3>1, <3>2, <4>3
    <3> QED
      BY <3>3, <3>4
  <2> QED
    BY <2>1, <2>2
<1>12. Types'
  <2>1. true' \in [Req -> 0 .. MaxLen]
    <3>1. ASSUME NEW r \in Req PROVE true'[r] \in 0 .. MaxLen
      <4>1. CASE r \in Scheduled
        <5>1. /\ true[r] \in Nat /\ so.tok[r] \in Nat /\ so.draft[r] \in Nat /\ a[r] \in Nat
              /\ a[r] <= so.draft[r] /\ so.draft[r] + 1 <= so.tok[r] /\ MaxLen \in Nat
              /\ true[r] + so.tok[r] <= MaxLen - 1
              /\ true'[r] = true[r] + so.tok[r] - (so.draft[r] - a[r])
          BY <1>6, <4>1
        <5>2. true'[r] \in Nat /\ true'[r] <= MaxLen
          BY <5>1
        <5> QED
          BY <5>1, <5>2
      <4>2. CASE r \notin Scheduled
        BY <1>2, <1>3, <4>2 DEF Types
      <4> QED
        BY <4>1, <4>2
    <3>2. true' = [r \in Req |-> true'[r]]
      BY <1>2
    <3> QED
      BY <3>1, <3>2
  <2>2. owed' \in [Req -> Nat] /\ out' \in [Req -> Nat]
    <3>1. ASSUME NEW r \in Req PROVE owed'[r] \in Nat /\ out'[r] \in Nat
      <4>1. CASE r \in Scheduled \ discard
        <5>1. /\ owed'[r] = so.draft[r] - a[r]
              /\ out'[r] = out[r] + 1 \/ out'[r] = out[r] + (a[r] + 1)
          BY <1>10, <4>1
        <5> QED
          BY <1>6, <4>1, <5>1
      <4>2. CASE r \notin Scheduled \ discard
        BY <1>3, <1>10, <4>2 DEF Types
      <4> QED
        BY <4>1, <4>2
    <3>2. owed' = [r \in Req |-> owed'[r]] /\ out' = [r \in Req |-> out'[r]]
      BY <1>2 DEF Owed, Booked
    <3> QED
      BY <3>1, <3>2
  <2>3. prevIdx' \in [Req -> 0 .. MaxRows]
    <3>1. ASSUME NEW r \in Req PROVE prevIdx'[r] \in 0 .. MaxRows
      <4>1. prevIdx'[r] = 0 \/ prevIdx'[r] \in Rows
        BY <1>3, <1>7, <1>8
      <4> QED
        BY <4>1, Bounds
    <3>2. prevIdx' = [r \in Req |-> prevIdx'[r]]
      BY <1>1 DEF Placed
    <3> QED
      BY <3>1, <3>2
  <2>4. DOMAIN Flat(a) = DOMAIN batch /\ \A i \in DOMAIN batch : Flat(a)[i] \in 1 .. K + 1
    BY <1>3, <1>6 DEF Flat
  <2>5. acc' \in [Rows -> 1 .. K + 1] /\ \A i \in DOMAIN accDue' : accDue'[i] \in 1 .. K + 1
    <3>1. acc \in [Rows -> 1 .. K + 1] /\ \A i \in DOMAIN accDue : accDue[i] \in 1 .. K + 1
      BY <1>3 DEF Types
    <3>2. CASE Async
      BY <1>2, <2>4, <3>1, <3>2 DEF CopyAccepted
    <3>3. CASE ~Async
      <4>1. accDue' = accDue
        BY <1>2, <3>3 DEF CopyAccepted
      <4>2. acc' = [i \in Rows |-> IF i \in DOMAIN batch THEN Flat(a)[i] ELSE acc[i]]
        BY <1>2, <3>3 DEF CopyAccepted
      <4> HIDE DEF Flat
      <4>3. acc' \in [Rows -> 1 .. K + 1]
        BY <2>4, <3>1, <4>2
      <4> QED
        BY <3>1, <4>1, <4>3
    <3> QED
      BY <3>2, <3>3
  <2>6. so'.tok \in [Req -> Int] /\ so'.draft \in [Req -> Nat] /\ so'.sent \in [Req -> Nat]
    <3>1. Zeros \in [Req -> Int] /\ Zeros \in [Req -> Nat]
      BY DEF Zeros
    <3>2. so'.tok = Zeros /\ so'.draft = Zeros /\ so'.sent = Zeros
      BY <1>1 DEF Nothing
    <3> QED
      BY <3>1, <3>2
  <2>7. pc' \in {"schedule", "update", "prepare", "launch", "correct", "sample"}
    BY <1>1
  <2> QED
    BY <1>1, <1>3, <2>1, <2>2, <2>3, <2>5, <2>6, <2>7 DEF Types
<1>13. LastRound'
  <2>1. ASSUME NEW r \in Req, Async, InBatch(r)
        PROVE  /\ prevLen'[r] > 0 => prevIdx'[r] > 0
               /\ prevIdx'[r] > 0 =>
                    /\ prevIdx'[r] \in DOMAIN valid'
                    /\ valid'[prevIdx'[r]] \in 1 .. prevLen'[r] + 1
                    /\ mode' = "async" /\ prevLen'[r] > 0 =>
                            gpu'[prevIdx'[r]] + valid'[prevIdx'[r]] = true'[r]
                    /\ mode' = "wait" =>
                            Prompt[r] + out'[r] + valid'[prevIdx'[r]] <= true'[r] + 2
    <3>1. r \in Scheduled /\ prevLen'[r] = so.draft[r]
      BY <1>1, <1>4, <2>1
    <3>2. CASE r \notin discard
      <4>1. r \in Scheduled \ discard
        BY <3>1, <3>2
      <4>2. /\ prevIdx'[r] > 0 /\ prevIdx'[r] \in DOMAIN valid'
            /\ valid'[prevIdx'[r]] = a[r] + 1 /\ gpu'[prevIdx'[r]] = true[r]
        BY <1>7, <2>1, <4>1
      <4>3. out'[r] = out[r] + 1
        BY <1>10, <2>1, <4>1
      <4>4. valid'[prevIdx'[r]] \in 1 .. prevLen'[r] + 1
        BY <1>6, <3>1, <4>2
      <4>5. prevLen'[r] > 0 => gpu'[prevIdx'[r]] + valid'[prevIdx'[r]] = true'[r]
        BY <1>6, <3>1, <4>2
      <4>6. mode' = "wait" => Prompt[r] + out'[r] + valid'[prevIdx'[r]] <= true'[r] + 2
        BY <1>1, <1>6, <3>1, <3>2, <4>2, <4>3
      <4> QED
        BY <4>2, <4>4, <4>5, <4>6
    <3>3. CASE r \in discard
      <4>1. prevIdx'[r] = 0
        BY <1>8, <3>3
      <4>2. ~(so.draft[r] > 0)
        BY <1>6, <3>1, <3>3
      <4> QED
        BY <3>1, <4>1, <4>2
    <3> QED
      BY <3>2, <3>3
  <2>2. deferred' = {}
    BY <1>1, <1>4
  <2> QED
    BY <1>9, <1>11, <2>1, <2>2 DEF LastRound
<1>14. OwnPlace'
  <2>1. ASSUME NEW q \in Req, NEW r \in Req, prevIdx'[q] > 0, prevIdx'[q] = prevIdx'[r]
        PROVE  q = r
    <3>1. Async /\ q \in Scheduled \ discard /\ r \in Scheduled \ discard
      BY <1>8, <2>1
    <3>2. RowOf(q) = RowOf(r)
      BY <1>7, <2>1, <3>1
    <3> QED
      BY <1>3, <3>1, <3>2
  <2> QED
    BY <2>1 DEF OwnPlace
<1>15. Told'
  <2>1. ASSUME NEW r \in Req PROVE Sent(r)' = true'[r] + Behind(r)'
    BY <1>9, <1>11 DEF Sent
  <2> QED
    BY <1>1, <2>1 DEF Told
<1>16. Granted' /\ HostSide' /\ Prepared' /\ Launched'
  BY <1>1 DEF Granted, HostSide, Between, Prepared, Launched
<1> QED
  BY <1>12, <1>13, <1>14, <1>15, <1>16 DEF IInv

-----------------------------------------------------------------------------
(* The theorems.                                                           *)

LEMMA StepInv == IInv /\ [Next]_vars => IInv'
<1> SUFFICES ASSUME IInv, [Next]_vars PROVE IInv'
  OBVIOUS
<1>1. CASE Schedule
  BY <1>1, ScheduleInv
<1>2. CASE UpdateStates
  BY <1>2, UpdateInv
<1>3. CASE Prepare
  BY <1>3, PrepareInv
<1>4. CASE Launch
  BY <1>4, LaunchInv
<1>5. CASE Correct
  BY <1>5, CorrectInv
<1>6. CASE Sample
  BY <1>6, SampleInv
<1>7. CASE LandAccepted
  BY <1>7, LandInv
<1>8. CASE UNCHANGED vars
  BY <1>8, StutterInv
<1> QED
  BY <1>1, <1>2, <1>3, <1>4, <1>5, <1>6, <1>7, <1>8 DEF Next

LEMMA IInvAlways == Spec => []IInv
<1>1. Init => IInv
  BY InitInv
<1>2. IInv /\ [Next]_vars => IInv'
  BY StepInv
<1> QED
  BY <1>1, <1>2, PTL DEF Spec

\* The variables stay in their types: no count exceeds the model length, the
\* rows hold each request at most once and, once _update_states has run, are
\* exactly the requests scheduled, whatever joined, left or was skipped.
THEOREM TypeCorrect == Spec => []TypeOK
<1>1. IInv => TypeOK
  <2> SUFFICES ASSUME IInv PROVE TypeOK
    OBVIOUS
  <2>1. pc \notin {"schedule", "update"} => ToSet(batch) = Scheduled
    BY DEF IInv, HostSide, Between
  <2> QED
    BY <2>1 DEF IInv, Types, TypeOK
<1> QED
  BY <1>1, IInvAlways, PTL

\* The device count of each row is its request's computed tokens when the
\* round is launched, although the host may not have heard of the last round
\* and the row may have been another request's (_prepare_inputs,
\* update_num_computed_tokens_for_batch_change).
THEOREM DeviceCountsExact == Spec => []CountsExact
<1>1. IInv => CountsExact
  BY DEF IInv, Launched, CountsExact
<1> QED
  BY <1>1, IInvAlways, PTL

\* Every optimistic count on the host is corrected, exactly once: before the
\* round ends, and in align mode before the state blocks are moved by it
\* (_update_states, correct_spec_decode_token_counts).
THEOREM HostCountsSettle == Spec => []HostCountSettled
<1>1. IInv => HostCountSettled
  <2> SUFFICES ASSUME IInv, pc = "sample" \/ (align /\ pc = "launch"), NEW r \in Scheduled
               PROVE  cpu[r] = true[r]
    BY DEF HostCountSettled
  <2>1. HostSide /\ ~Between
    BY DEF IInv, Between
  <2>2. deferred = {}
    BY <2>1 DEF HostSide
  <2> QED
    BY <2>1, <2>2 DEF HostSide
<1> QED
  BY <1>1, IInvAlways, PTL

-----------------------------------------------------------------------------
(* The states the rows of a round start from.                              *)

(* First, the places of the tokens of a batch.                             *)

Sized(rows, S) == \A i \in S : rows[i].tok \in Nat
Batch(rows) == \E N \in Nat : DOMAIN rows = 1 .. N /\ Sized(rows, 1 .. N)
Apart(rows) == \A i, j \in DOMAIN rows : rows[i].g = rows[j].g => i = j

LEMMA Beside ==
    ASSUME NEW A, IsFiniteSet(A), NEW x
    PROVE  IsFiniteSet({x} \X A) /\ Cardinality({x} \X A) = Cardinality(A)
<1>1. IsFiniteSet({x}) /\ Cardinality({x}) = 1
  BY FS_Singleton
<1>2. Cardinality(A) \in Nat
  BY FS_CardinalityType
<1>3. IsFiniteSet({x} \X A) /\ Cardinality({x} \X A) = 1 * Cardinality(A)
  BY <1>1, FS_Product
<1> QED
  BY <1>2, <1>3

LEMMA TokensFacts ==
    ASSUME NEW rows, NEW S, IsFiniteSet(S), Sized(rows, S)
    PROVE  /\ IsFiniteSet(Tokens(rows, S)) /\ SumOf(rows, S) \in Nat
           /\ \A t \in Tokens(rows, S) :
                t = <<t[1], t[2]>> /\ t[1] \in S /\ t[2] \in 1 .. rows[t[1]].tok
           /\ \A i \in S : \A n \in 1 .. rows[i].tok : <<i, n>> \in Tokens(rows, S)
<1> DEFINE of(i) == {i} \X (1 .. rows[i].tok)
           all   == {of(i) : i \in S}
           f     == [i \in S |-> of(i)]
<1>1. IsFiniteSet(all)
  <2>1. f \in Surjection(S, all)
    BY DEF Surjection
  <2> QED
    BY <2>1, FS_Surjection
<1>2. ASSUME NEW i \in S PROVE IsFiniteSet(of(i))
  <2>1. IsFiniteSet(1 .. rows[i].tok)
    BY FS_Interval DEF Sized
  <2> QED
    BY <2>1, Beside
<1>3. IsFiniteSet(UNION all)
  <2>1. \A x \in all : IsFiniteSet(x)
    BY <1>2
  <2> HIDE DEF all
  <2> QED
    BY <1>1, <2>1, FS_UNION
<1>4. Tokens(rows, S) = UNION all
  BY DEF Tokens
<1>5. SumOf(rows, S) \in Nat
  BY <1>3, <1>4, FS_CardinalityType DEF SumOf
<1>6. ASSUME NEW t \in Tokens(rows, S)
      PROVE  t = <<t[1], t[2]>> /\ t[1] \in S /\ t[2] \in 1 .. rows[t[1]].tok
  <2>1. PICK i \in S : t \in of(i)
    BY <1>4
  <2> QED
    BY <2>1
<1>7. ASSUME NEW i \in S, NEW n \in 1 .. rows[i].tok PROVE <<i, n>> \in Tokens(rows, S)
  <2>1. <<i, n>> \in of(i) /\ of(i) \in all
    OBVIOUS
  <2> QED
    BY <1>4, <2>1
<1> QED
  BY <1>3, <1>4, <1>5, <1>6, <1>7

\* n tokens more for n tokens of one more row.
LEMMA SomeTokens ==
    ASSUME NEW rows, NEW S, IsFiniteSet(S), Sized(rows, S),
           NEW i, i \notin S, NEW n \in Nat
    PROVE  /\ IsFiniteSet(Tokens(rows, S) \cup ({i} \X (1 .. n)))
           /\ Cardinality(Tokens(rows, S) \cup ({i} \X (1 .. n))) = SumOf(rows, S) + n
<1> DEFINE A == Tokens(rows, S)
           B == {i} \X (1 .. n)
<1>1. IsFiniteSet(A) /\ SumOf(rows, S) \in Nat /\ SumOf(rows, S) = Cardinality(A)
  BY TokensFacts DEF SumOf
<1>2. IsFiniteSet(B) /\ Cardinality(B) = n
  <2>1. IsFiniteSet(1 .. n) /\ Cardinality(1 .. n) = n
    BY FS_Interval
  <2> QED
    BY <2>1, Beside
<1>3. A \cap B = {}
  <2>1. \A t \in A : t[1] \in S
    BY TokensFacts
  <2>2. \A t \in B : t[1] = i
    OBVIOUS
  <2> QED
    BY <2>1, <2>2
<1>4. Cardinality(A \cap B) = 0
  BY <1>3, FS_EmptySet
<1> HIDE DEF A, B
<1>5. IsFiniteSet(A \cup B) /\ Cardinality(A \cup B) = Cardinality(A) + Cardinality(B) - Cardinality(A \cap B)
  BY <1>1, <1>2, FS_Union
<1> QED
  BY <1>1, <1>2, <1>4, <1>5 DEF A, B

LEMMA SumFacts ==
    ASSUME NEW rows, NEW N \in Nat, Sized(rows, 1 .. N)
    PROVE  /\ \A i \in 1 .. N : SumOf(rows, 1 .. i - 1) \in Nat
           /\ \A i, j \in 1 .. N : i < j =>
                SumOf(rows, 1 .. i - 1) + rows[i].tok <= SumOf(rows, 1 .. j - 1)
<1>1. ASSUME NEW i \in 1 .. N
      PROVE  /\ IsFiniteSet(1 .. i - 1) /\ Sized(rows, 1 .. i - 1)
             /\ SumOf(rows, 1 .. i - 1) \in Nat
  <2>1. IsFiniteSet(1 .. i - 1)
    BY FS_Interval
  <2>2. Sized(rows, 1 .. i - 1)
    BY DEF Sized
  <2> QED
    BY <2>1, <2>2, TokensFacts
<1>2. ASSUME NEW i \in 1 .. N, NEW j \in 1 .. N, i < j
      PROVE  SumOf(rows, 1 .. i - 1) + rows[i].tok <= SumOf(rows, 1 .. j - 1)
  <2> DEFINE A == Tokens(rows, 1 .. i - 1) \cup ({i} \X (1 .. rows[i].tok))
             B == Tokens(rows, 1 .. j - 1)
  <2>1. IsFiniteSet(A) /\ Cardinality(A) = SumOf(rows, 1 .. i - 1) + rows[i].tok
    <3>1. i \notin 1 .. i - 1 /\ rows[i].tok \in Nat
      BY DEF Sized
    <3>2. IsFiniteSet(1 .. i - 1) /\ Sized(rows, 1 .. i - 1)
      BY <1>1
    <3> DEFINE S == 1 .. i - 1
               n == rows[i].tok
    <3>3. IsFiniteSet(S) /\ Sized(rows, S) /\ i \notin S /\ n \in Nat
      BY <3>1, <3>2
    <3> HIDE DEF S, n
    <3>4. /\ IsFiniteSet(Tokens(rows, S) \cup ({i} \X (1 .. n)))
          /\ Cardinality(Tokens(rows, S) \cup ({i} \X (1 .. n))) = SumOf(rows, S) + n
      BY <3>3, SomeTokens
    <3> QED
      BY <3>4 DEF S, n
  <2>2. IsFiniteSet(B) /\ SumOf(rows, 1 .. j - 1) = Cardinality(B)
    BY <1>1, TokensFacts DEF SumOf
  <2>3. A \subseteq B
    <3>1. ASSUME NEW t \in Tokens(rows, 1 .. i - 1) PROVE t \in B
      <4>1. t = <<t[1], t[2]>> /\ t[1] \in 1 .. i - 1 /\ t[2] \in 1 .. rows[t[1]].tok
        BY <1>1, TokensFacts
      <4>2. t[1] \in 1 .. j - 1
        BY <1>2, <4>1
      <4>3. <<t[1], t[2]>> \in B
        BY <1>1, <4>1, <4>2, TokensFacts
      <4> QED
        BY <4>1, <4>3
    <3>2. ASSUME NEW n \in 1 .. rows[i].tok PROVE <<i, n>> \in B
      <4>1. i \in 1 .. j - 1
        BY <1>2
      <4> QED
        BY <1>1, <4>1, TokensFacts
    <3> QED
      BY <3>1, <3>2
  <2> HIDE DEF A, B
  <2>4. Cardinality(A) <= Cardinality(B)
    BY <2>2, <2>3, FS_Subset
  <2> QED
    BY <2>1, <2>2, <2>4
<1> QED
  BY <1>1, <1>2

\* The place of token n of row i.
At(rows, i, n) == SumOf(rows, 1 .. i - 1) + n

LEMMA PlacesOrder ==
    ASSUME NEW rows, NEW N \in Nat, Sized(rows, 1 .. N),
           NEW i \in 1 .. N, NEW n \in 1 .. rows[i].tok,
           NEW j \in 1 .. N, NEW m \in 1 .. rows[j].tok
    PROVE  /\ At(rows, i, n) \in Nat
           /\ i < j => At(rows, i, n) < At(rows, j, m)
           /\ At(rows, i, n) = At(rows, j, m) => i = j /\ n = m
<1>1. SumOf(rows, 1 .. i - 1) \in Nat /\ SumOf(rows, 1 .. j - 1) \in Nat
  BY SumFacts
<1>2. i < j => SumOf(rows, 1 .. i - 1) + rows[i].tok <= SumOf(rows, 1 .. j - 1)
  BY SumFacts
<1>3. j < i => SumOf(rows, 1 .. j - 1) + rows[j].tok <= SumOf(rows, 1 .. i - 1)
  BY SumFacts
<1>4. rows[i].tok \in Nat /\ rows[j].tok \in Nat
  BY DEF Sized
<1> DEFINE a == SumOf(rows, 1 .. i - 1)
           b == SumOf(rows, 1 .. j - 1)
           p == rows[i].tok
           q == rows[j].tok
           s == At(rows, i, n)
           t == At(rows, j, m)
<1>5. n \in 1 .. p /\ m \in 1 .. q /\ s = a + n /\ t = b + m
  BY DEF At
<1>6. a \in Nat /\ b \in Nat /\ p \in Nat /\ q \in Nat
  BY <1>1, <1>4
<1>7. (i < j => a + p <= b) /\ (j < i => b + q <= a) /\ (i = j => a = b)
  BY <1>2, <1>3
<1> HIDE DEF a, b, p, q, s, t
<1>8. a + p <= b => s < t
  BY <1>5, <1>6
<1>9. b + q <= a => t < s
  BY <1>5, <1>6
<1>10. a = b /\ s = t => n = m
  BY <1>5, <1>6
<1>11. s \in Nat /\ t \in Nat
  BY <1>5, <1>6
<1>12. i < j \/ j < i \/ i = j
  OBVIOUS
<1>13. s \in Nat /\ (i < j => s < t) /\ (s = t => i = j /\ n = m)
  <2>1. CASE i < j
    BY <1>7, <1>8, <1>11, <2>1
  <2>2. CASE j < i
    BY <1>7, <1>9, <1>11, <2>2
  <2>3. CASE i = j
    BY <1>7, <1>10, <1>11, <2>3
  <2> QED
    BY <1>12, <2>1, <2>2, <2>3
<1> QED
  BY <1>13 DEF s, t

\* The places of the tokens of one half of a batch.
PlacesOf(rows, half) == UNION {ToSet(Places(rows, j)) : j \in half}

\* A token of one half is, among the places of that half, after the tokens of
\* the rows of that half before it.
LEMMA RankOfPlace ==
    ASSUME NEW rows, Batch(rows), NEW half \in SUBSET DOMAIN rows,
           NEW i \in half, NEW n \in 1 .. rows[i].tok
    PROVE  /\ PlacesOf(rows, half) \in SUBSET Nat /\ IsFiniteSet(PlacesOf(rows, half))
           /\ At(rows, i, n) \in PlacesOf(rows, half)
           /\ Rank(PlacesOf(rows, half), At(rows, i, n)) =
                    SumOf(rows, half \cap 1 .. i - 1) + n
<1>0. PICK N \in Nat : DOMAIN rows = 1 .. N /\ Sized(rows, 1 .. N)
  BY DEF Batch
<1> DEFINE mine  == PlacesOf(rows, half)
<1>a. \A j \in half : ToSet(Places(rows, j)) = {At(rows, j, m) : m \in 1 .. rows[j].tok}
  BY DEF Places, At, ToSet
<1>b. \A j \in half : \A m \in 1 .. rows[j].tok : At(rows, j, m) \in mine
  BY <1>a DEF PlacesOf
<1>c. \A p \in mine : \E j \in half : \E m \in 1 .. rows[j].tok : p = At(rows, j, m)
  BY <1>a DEF PlacesOf
<1> HIDE DEF mine
<1> DEFINE place == At(rows, i, n)
           early == half \cap 1 .. i - 1
           A     == Tokens(rows, early) \cup ({i} \X (1 .. n))
           B     == {p \in mine : p <= place}
           f     == [t \in A |-> At(rows, t[1], t[2])]
           all   == Tokens(rows, half)
           g     == [t \in all |-> At(rows, t[1], t[2])]
<1>1. half \in SUBSET (1 .. N) /\ IsFiniteSet(1 .. N) /\ IsFiniteSet(half) /\ IsFiniteSet(early) /\ i \notin early /\ n \in Nat
  <2>1. IsFiniteSet(1 .. N)
    BY FS_Interval
  <2>2. IsFiniteSet(half)
    BY <1>0, <2>1, FS_Subset
  <2>3. early \in SUBSET half
    OBVIOUS
  <2>4. IsFiniteSet(early)
    BY <2>2, <2>3, FS_Subset
  <2> QED
    BY <1>0, <2>1, <2>2, <2>4
<1>2. \A j \in half : j \in 1 .. N /\ rows[j].tok \in Nat
  BY <1>0 DEF Sized
<1>3. /\ IsFiniteSet(all)
      /\ \A t \in all : t = <<t[1], t[2]>> /\ t[1] \in half /\ t[2] \in 1 .. rows[t[1]].tok
      /\ \A j \in half : \A m \in 1 .. rows[j].tok : <<j, m>> \in all
  <2>1. Sized(rows, half)
    BY <1>2 DEF Sized
  <2> QED
    BY <1>1, <2>1, TokensFacts
<1>4. \A j \in half : \A m \in 1 .. rows[j].tok : At(rows, j, m) \in Nat
  BY <1>0, <1>2, PlacesOrder
<1>5. mine \in SUBSET Nat /\ place \in mine
  BY <1>4, <1>b, <1>c
<1>6. IsFiniteSet(mine)
  <2>1. g \in [all -> mine]
    BY <1>3, <1>b
  <2>2. ASSUME NEW p \in mine PROVE \E t \in all : g[t] = p
    <3>1. PICK j \in half : \E m \in 1 .. rows[j].tok : p = At(rows, j, m)
      BY <1>c
    <3>2. PICK m \in 1 .. rows[j].tok : p = At(rows, j, m)
      BY <3>1
    <3>3. <<j, m>> \in all
      BY <1>3
    <3>4. g[<<j, m>>] = p
      BY <3>2, <3>3
    <3> QED
      BY <3>3, <3>4
  <2> HIDE DEF g, all
  <2>3. g \in Surjection(all, mine)
    BY <2>1, <2>2 DEF Surjection
  <2> QED
    BY <1>3, <2>3, FS_Surjection
<1>7. IsFiniteSet(A) /\ Cardinality(A) = SumOf(rows, early) + n
  <2>1. Sized(rows, early)
    BY <1>2 DEF Sized
  <2>2. IsFiniteSet(early) /\ i \notin early /\ n \in Nat
    BY <1>1
  <2> HIDE DEF early
  <2>3. /\ IsFiniteSet(Tokens(rows, early) \cup ({i} \X (1 .. n)))
        /\ Cardinality(Tokens(rows, early) \cup ({i} \X (1 .. n))) = SumOf(rows, early) + n
    BY <2>1, <2>2, SomeTokens
  <2> QED
    BY <2>3
<1>8. \A j \in early : j \in half /\ j < i
  BY <1>2
<1>9. ASSUME NEW t \in A
      PROVE  /\ t = <<t[1], t[2]>> /\ t[1] \in half /\ t[2] \in 1 .. rows[t[1]].tok
             /\ (t[1] = i /\ t[2] <= n) \/ t[1] < i
  <2>1. CASE t \in Tokens(rows, early)
    <3>1. Sized(rows, early)
      BY <1>2 DEF Sized
    <3>2. t = <<t[1], t[2]>> /\ t[1] \in early /\ t[2] \in 1 .. rows[t[1]].tok
      BY <1>1, <2>1, <3>1, TokensFacts
    <3> QED
      BY <1>8, <3>2
  <2>2. CASE t \in {i} \X (1 .. n)
    <3>1. t = <<t[1], t[2]>> /\ t[1] = i /\ t[2] \in 1 .. n
      BY <2>2
    <3>2. rows[i].tok \in Nat /\ n <= rows[i].tok
      BY <1>2
    <3>3. t[2] \in 1 .. rows[i].tok /\ t[2] <= n
      BY <1>1, <3>1, <3>2
    <3> QED
      BY <3>1, <3>3
  <2> QED
    BY <2>1, <2>2
<1>10. ASSUME NEW j \in half, NEW m \in 1 .. rows[j].tok, (j = i /\ m <= n) \/ j < i
       PROVE  <<j, m>> \in A
  <2>1. CASE j = i
    BY <1>1, <1>10, <2>1
  <2>2. CASE j < i
    <3>1. j \in early
      BY <1>2, <2>2
    <3>2. Sized(rows, early)
      BY <1>2 DEF Sized
    <3>3. <<j, m>> \in Tokens(rows, early)
      BY <1>1, <3>1, <3>2, TokensFacts
    <3> QED
      BY <3>3
  <2> QED
    BY <1>10, <2>1, <2>2
<1> HIDE DEF A
<1>11. ASSUME NEW j \in half, NEW m \in 1 .. rows[j].tok
       PROVE  At(rows, j, m) <= place <=> ((j = i /\ m <= n) \/ j < i)
  <2>1. i \in 1 .. N /\ j \in 1 .. N /\ rows[i].tok \in Nat /\ rows[j].tok \in Nat
    BY <1>2
  <2>2. /\ At(rows, j, m) \in Nat /\ place \in Nat
        /\ j < i => At(rows, j, m) < place
        /\ i < j => place < At(rows, j, m)
    BY <1>0, <2>1, PlacesOrder
  <2>3. CASE j = i
    <3>1. SumOf(rows, 1 .. i - 1) \in Nat
      BY <1>0, <2>1, SumFacts
    <3> QED
      BY <2>1, <2>3, <3>1 DEF At
  <2>4. CASE j < i
    BY <2>1, <2>2, <2>4
  <2>5. CASE i < j
    BY <2>1, <2>2, <2>5
  <2> QED
    BY <2>1, <2>3, <2>4, <2>5
<1>12. f \in [A -> B]
  <2>1. ASSUME NEW t \in A PROVE At(rows, t[1], t[2]) \in B
    BY <1>9, <1>11, <1>b
  <2> HIDE DEF B
  <2> QED
    BY <2>1
<1>13. ASSUME NEW s \in A, NEW t \in A, f[s] = f[t] PROVE s = t
  <2>1. At(rows, s[1], s[2]) = At(rows, t[1], t[2])
    BY <1>13
  <2>2. /\ s = <<s[1], s[2]>> /\ s[1] \in 1 .. N /\ s[2] \in 1 .. rows[s[1]].tok
        /\ t = <<t[1], t[2]>> /\ t[1] \in 1 .. N /\ t[2] \in 1 .. rows[t[1]].tok
    BY <1>2, <1>9
  <2>3. s[1] = t[1] /\ s[2] = t[2]
    BY <1>0, <2>1, <2>2, PlacesOrder
  <2> QED
    BY <2>2, <2>3
<1>14. ASSUME NEW p \in B PROVE \E t \in A : f[t] = p
  <2>1. PICK j \in half : \E m \in 1 .. rows[j].tok : p = At(rows, j, m)
    BY <1>c
  <2>2. PICK m \in 1 .. rows[j].tok : p = At(rows, j, m)
    BY <2>1
  <2>3. <<j, m>> \in A
    BY <1>10, <1>11, <2>2
  <2>4. f[<<j, m>>] = p
    BY <2>2, <2>3
  <2> QED
    BY <2>3, <2>4
<1> HIDE DEF f
<1>15. f \in Injection(A, B) /\ f \in Surjection(A, B)
  BY <1>12, <1>13, <1>14 DEF Injection, IsInjective, Surjection
<1>16. IsFiniteSet(B)
  <2>1. B \in SUBSET mine
    OBVIOUS
  <2> QED
    BY <1>6, <2>1, FS_Subset
<1>17. Cardinality(A) = Cardinality(B)
  BY <1>15, <1>16, FS_Injection
<1>18. Rank(mine, place) = Cardinality(B)
  BY DEF Rank
<1> QED
  BY <1>5, <1>6, <1>7, <1>17, <1>18 DEF mine

LEMMA SameRank ==
    ASSUME NEW S \in SUBSET Nat, IsFiniteSet(S), NEW i \in S
    PROVE  Nth(S, Rank(S, i)) = i
<1> DEFINE c == Rank(S, i)
           j == Nth(S, c)
<1>1. c \in 1 .. Cardinality(S)
  BY RankFacts
<1>2. j \in S /\ Rank(S, j) = c
  BY <1>1, NthFacts
<1>3. i \in Nat /\ j \in Nat /\ Cardinality(S) \in Nat
  BY <1>2, RankFacts
<1> HIDE DEF j
<1>4. i < j => Rank(S, i) < Rank(S, j)
  BY <1>2, RankFacts
<1>5. j < i => Rank(S, j) < Rank(S, i)
  BY <1>2, RankFacts
<1>6. c \in Nat
  BY <1>1, <1>3
<1>7. ~(i < j) /\ ~(j < i)
  BY <1>2, <1>4, <1>5, <1>6
<1> QED
  BY <1>3, <1>7 DEF j

-----------------------------------------------------------------------------
(* Every row is fed its own tokens, and works in its own slots.            *)

LEMMA FedItsOwn ==
    ASSUME NEW rows, Batch(rows), NEW half \in SUBSET DOMAIN rows, NEW i \in half
    PROVE  Fed(rows, half, i) = Places(rows, i)
<1> DEFINE mine  == PlacesOf(rows, half)
           first == SumOf(rows, half \cap 1 .. i - 1)
<1>1. ASSUME NEW n \in 1 .. rows[i].tok PROVE Nth(mine, first + n) = At(rows, i, n)
  <2>1. mine \in SUBSET Nat /\ IsFiniteSet(mine)
    BY RankOfPlace
  <2>2. At(rows, i, n) \in mine
    BY RankOfPlace
  <2>3. Rank(mine, At(rows, i, n)) = first + n
    BY RankOfPlace
  <2> HIDE DEF mine, first
  <2> QED
    BY <2>1, <2>2, <2>3, SameRank
<1>2. Fed(rows, half, i) = [n \in 1 .. rows[i].tok |-> Nth(mine, first + n)]
  BY DEF Fed, PlacesOf
<1>3. Places(rows, i) = [n \in 1 .. rows[i].tok |-> At(rows, i, n)]
  BY DEF Places, At
<1> HIDE DEF mine, first
<1> QED
  BY <1>1, <1>2, <1>3

LEMMA AllFedOwn ==
    ASSUME NEW rows, Batch(rows), NEW i \in DOMAIN rows
    PROVE  FedOwn(rows, i) = TRUE
<1> DEFINE half == CHOOSE h \in Halves(rows) : i \in h
<1>1. SpecRows(rows) \subseteq DOMAIN rows
  BY DEF SpecRows
<1>2. /\ \A h \in Halves(rows) : h \in SUBSET DOMAIN rows
      /\ \E h \in Halves(rows) : i \in h
  <2>1. CASE DecodeCore(rows) \/ Pure(rows)
    BY <2>1 DEF Halves
  <2>2. CASE ~(DecodeCore(rows) \/ Pure(rows))
    <3>1. Halves(rows) = {SpecRows(rows), DOMAIN rows \ SpecRows(rows)} \ {{}}
      BY <2>2 DEF Halves
    <3>2. i \in SpecRows(rows) \/ i \in DOMAIN rows \ SpecRows(rows)
      OBVIOUS
    <3> QED
      BY <1>1, <3>1, <3>2
  <2> QED
    BY <2>1, <2>2
<1>3. half \in SUBSET DOMAIN rows /\ i \in half
  <2>1. half \in Halves(rows) /\ i \in half
    BY <1>2
  <2> HIDE DEF half
  <2> QED
    BY <1>2, <2>1
<1>4. FedOwn(rows, i) = (Fed(rows, half, i) = Places(rows, i))
  BY DEF FedOwn
<1> HIDE DEF half
<1>5. Fed(rows, half, i) = Places(rows, i)
  BY <1>3, FedItsOwn
<1> QED
  BY <1>4, <1>5

\* The lane of a verified row is given that row's slots.
LEMMA LaneOwn ==
    ASSUME NEW rows, Batch(rows), NEW i \in SpecRows(rows)
    PROVE  Lane(rows, Rank(SpecRows(rows), i)) = i
<1>0. PICK N \in Nat : DOMAIN rows = 1 .. N /\ Sized(rows, 1 .. N)
  BY DEF Batch
<1> DEFINE S == SpecRows(rows)
<1>1. S \in SUBSET (1 .. N)
  BY <1>0 DEF SpecRows
<1>2. IsFiniteSet(1 .. N) /\ S \in SUBSET Nat
  BY <1>1, FS_Interval
<1>3. IsFiniteSet(S)
  BY <1>1, <1>2, FS_Subset
<1>4. CASE Pure(rows)
  <2>1. S = 1 .. N /\ i \in 1 .. N
    BY <1>0, <1>4 DEF Pure
  <2>2. {j \in S : j <= i} = 1 .. i
    BY <2>1
  <2>3. Cardinality(1 .. i) = i
    BY <2>1, FS_Interval
  <2>4. Rank(S, i) = i
    BY <2>2, <2>3 DEF Rank
  <2> QED
    BY <1>4, <2>4 DEF Lane
<1>5. CASE ~Pure(rows)
  <2> HIDE DEF S
  <2>1. i \in S
    BY DEF S
  <2>2. Nth(S, Rank(S, i)) = i
    BY <1>2, <1>3, <2>1, SameRank
  <2> QED
    BY <1>5, <2>2 DEF Lane, S
<1> QED
  BY <1>4, <1>5

LEMMA RowWritesOwn ==
    ASSUME NEW rows, Batch(rows), NEW i \in DOMAIN rows, NEW given, NEW now
    PROVE  RowWrites(now, rows, given, i) =
                IF i \in SpecRows(rows) THEN VerifyWrites(now, rows[i], TRUE)
                ELSE OneWrites(now, rows, given, i, TRUE)
<1>1. FedOwn(rows, i) = TRUE
  BY AllFedOwn
<1>2. CASE i \in SpecRows(rows)
  <2>1. Lane(rows, Rank(SpecRows(rows), i)) = i
    BY <1>2, LaneOwn
  <2>2. RowWrites(now, rows, given, i) =
            VerifyWrites(now, rows[Lane(rows, Rank(SpecRows(rows), i))], FedOwn(rows, i))
    BY <1>2 DEF RowWrites
  <2> QED
    BY <1>1, <1>2, <2>1, <2>2
<1>3. CASE i \notin SpecRows(rows)
  <2>1. Masked(rows) => SpecRows(rows) # {}
    BY GdnAssumption DEF Masked, Masks, Core
  <2>2. (FedOwn(rows, i) /\ (Masked(rows) => SpecRows(rows) # {})) = TRUE
    BY <1>1, <2>1
  <2>3. RowWrites(now, rows, given, i) =
            OneWrites(now, rows, given, i,
                      FedOwn(rows, i) /\ (Masked(rows) => SpecRows(rows) # {}))
    BY <1>3 DEF RowWrites
  <2> QED
    BY <1>3, <2>2, <2>3
<1> QED
  BY <1>2, <1>3

\* A graph that is replayed updates the slots of its batch alone.
LEMMA NoStray ==
    ASSUME NEW rows, NEW given, NEW old
    PROVE  Stray(rows, GraphRows(rows, given, old)) = {}
<1> DEFINE b == GraphRows(rows, given, old)
<1>1. ASSUME DecodeGraph(rows)
      PROVE  \A i \in DOMAIN b.decode \ DOMAIN rows : b.decode[i] = {}
  <2>1. b.decode = [i \in 1 .. MaxRows |-> Held(rows, given, i)]
    BY <1>1 DEF GraphRows
  <2> QED
    BY <2>1 DEF Held, Pad
<1>2. ASSUME VerifyGraph(rows)
      PROVE  \A i \in DOMAIN b.verify \ DOMAIN rows : b.verify[i] = {}
  <2>1. b.verify = [i \in 1 .. MaxRows |-> Held(rows, given, i)]
    BY <1>2 DEF GraphRows
  <2> QED
    BY <2>1 DEF Held, Pad
<1> HIDE DEF b
<1>3. Stray(rows, b) = {}
  <2>1. CASE DecodeGraph(rows)
    BY <1>1, <2>1 DEF Stray
  <2>2. CASE ~DecodeGraph(rows) /\ VerifyGraph(rows)
    BY <1>2, <2>2 DEF Stray
  <2>3. CASE ~DecodeGraph(rows) /\ ~VerifyGraph(rows)
    BY <2>3 DEF Stray
  <2> QED
    BY <2>1, <2>2, <2>3
<1> QED
  BY <1>3 DEF b

\* The forward pass of a round, and what it leaves of a row.
Passed(now, rows, given, old) == Forward(now, rows, given, GraphRows(rows, given, old))
Left(now, rows, given, i) ==
    IF i \in SpecRows(rows) THEN VerifyWrites(now, rows[i], TRUE)
    ELSE OneWrites(now, rows, given, i, TRUE)
Unused(rows, g) == \A i \in DOMAIN rows : rows[i].g # g

LEMMA ForwardOwn ==
    ASSUME NEW rows, Batch(rows), Apart(rows), NEW given, NEW old, NEW now,
           NEW g \in DOMAIN now, NEW c \in Columns
    PROVE  /\ Unused(rows, g) => Passed(now, rows, given, old)[g][c] = now[g][c]
           /\ \A i \in DOMAIN rows : rows[i].g = g =>
                Passed(now, rows, given, old)[g][c] = Left(now, rows, given, i)[c]
<1> DEFINE next  == Forward(now, rows, given, GraphRows(rows, given, old))
           own(h) == IF \E i \in DOMAIN rows : rows[i].g = h
                     THEN RowWrites(now, rows, given, CHOOSE i \in DOMAIN rows : rows[i].g = h)
                     ELSE now[h]
<1>1. next = [h \in DOMAIN now |-> [x \in Columns |-> own(h)[x]]]
  <2>1. Stray(rows, GraphRows(rows, given, old)) = {}
    BY NoStray
  <2> QED
    BY <2>1 DEF Forward
<1>2. DOMAIN next = DOMAIN now /\ next[g] = [x \in Columns |-> own(g)[x]]
  BY <1>1
<1> HIDE DEF next
<1>3. ASSUME Unused(rows, g) PROVE own(g) = now[g]
  BY <1>3 DEF Unused
<1>4. ASSUME NEW i \in DOMAIN rows, rows[i].g = g
      PROVE  own(g) = Left(now, rows, given, i)
  <2> DEFINE j == CHOOSE j \in DOMAIN rows : rows[j].g = g
  <2>1. j \in DOMAIN rows /\ rows[j].g = g
    BY <1>4
  <2>2. own(g) = RowWrites(now, rows, given, j)
    BY <1>4
  <2> HIDE DEF j, own
  <2>3. j = i
    BY <1>4, <2>1 DEF Apart
  <2>4. own(g) = RowWrites(now, rows, given, i)
    BY <2>2, <2>3
  <2>5. RowWrites(now, rows, given, i) = Left(now, rows, given, i)
    BY RowWritesOwn DEF Left
  <2> QED
    BY <2>4, <2>5
<1> HIDE DEF own
<1>5. next[g][c] = own(g)[c]
  BY <1>2
<1> QED
  BY <1>3, <1>4, <1>5 DEF Passed, next

-----------------------------------------------------------------------------
(* What a row leaves, from the state it is given.                          *)

\* Where a verified row goes on: from the state after the k tokens accepted in
\* its last round and from the window before them.
LEMMA VerifiedStart ==
    ASSUME NEW now, NEW w, NEW n \in Nat, NEW k \in 0 .. K, w.sel = k + 1,
           now[w.g][k].s = After(w.r, n), now[w.g][0].w = After(w.r, n - k)
    PROVE  VerifyStart(now, w) = Both(After(w.r, n))
<1>1. K \in Nat /\ k \in Nat
  BY GdnAssumption
<1>2. w.sel - 1 = k
  BY <1>1
<1>3. Shift(After(w.r, n - k), k) = After(w.r, n)
  <2>1. (n - k) + k = n
    BY <1>1
  <2> QED
    BY <2>1 DEF Shift, After
<1> QED
  BY <1>2, <1>3 DEF VerifyStart, Both

\* What it leaves: a state after each of its tokens, and the window after one.
LEMMA VerifiedRow ==
    ASSUME NEW now, NEW w, NEW n \in Nat, NEW k \in 0 .. K,
           w.sel = k + 1, w.draft \in 0 .. K,
           now[w.g][k].s = After(w.r, n), now[w.g][0].w = After(w.r, n - k)
    PROVE  /\ VerifyWrites(now, w, TRUE)[0] = Both(After(w.r, n + 1))
           /\ \A c \in 0 .. w.draft :
                VerifyWrites(now, w, TRUE)[c].s = After(w.r, n + c + 1)
<1>1. K \in Nat /\ k \in Nat
  BY GdnAssumption
<1>4. VerifyStart(now, w) = Both(After(w.r, n))
  BY VerifiedStart
<1>5. \A m : Advance(After(w.r, n), w.r, m, TRUE) = After(w.r, n + m)
  BY DEF Advance, After
<1>6. ASSUME NEW c \in 0 .. w.draft
      PROVE  /\ VerifyWrites(now, w, TRUE)[c].s = After(w.r, n + c + 1)
             /\ c = 0 => VerifyWrites(now, w, TRUE)[c] = Both(After(w.r, n + 1))
  <2>1. c \in Columns /\ ~(c > w.draft) /\ c \in Nat
    BY <1>1 DEF Columns
  <2>2. VerifyWrites(now, w, TRUE)[c] =
            [s |-> Advance(After(w.r, n), w.r, c + 1, TRUE),
             w |-> IF c = 0 THEN Advance(After(w.r, n), w.r, 1, TRUE) ELSE now[w.g][c].w]
    BY <1>4, <2>1 DEF VerifyWrites, Both
  <2>3. n + (c + 1) = n + c + 1 /\ (c = 0 => n + c + 1 = n + 1)
    BY <2>1
  <2>4. Advance(After(w.r, n), w.r, c + 1, TRUE) = After(w.r, n + c + 1)
    BY <1>5, <2>3
  <2>5. Advance(After(w.r, n), w.r, 1, TRUE) = After(w.r, n + 1)
    BY <1>5
  <2> DEFINE far  == Advance(After(w.r, n), w.r, c + 1, TRUE)
             near == Advance(After(w.r, n), w.r, 1, TRUE)
             left == VerifyWrites(now, w, TRUE)[c]
  <2> HIDE DEF far, near, left
  <2>6. left = [s |-> far, w |-> IF c = 0 THEN near ELSE now[w.g][c].w]
    BY <2>2 DEF far, near, left
  <2>7. far = After(w.r, n + c + 1) /\ near = After(w.r, n + 1)
    BY <2>4, <2>5 DEF far, near
  <2>8. left.s = After(w.r, n + c + 1)
    BY <2>6, <2>7
  <2>9. c = 0 => left = Both(After(w.r, n + 1))
    BY <2>3, <2>6, <2>7 DEF Both
  <2> QED
    BY <2>8, <2>9 DEF left
<1>7. 0 \in 0 .. w.draft
  BY <1>1
<1> QED
  BY <1>6, <1>7

\* Any other row advances its slot by its tokens, in place.
LEMMA PlainRow ==
    ASSUME NEW now, NEW rows, NEW given, NEW i, NEW n, NEW m,
           OneColumn(rows, given, i) = 0, 0 \in DOMAIN now[rows[i].g], rows[i].tok = m,
           OneStart(now, rows, given, i) = Both(After(rows[i].r, n))
    PROVE  OneWrites(now, rows, given, i, TRUE)[0] = Both(After(rows[i].r, n + m))
<1>1. Advance(After(rows[i].r, n), rows[i].r, m, TRUE) = After(rows[i].r, n + m)
  BY DEF Advance, After
<1>2. OneEnd(Both(After(rows[i].r, n)), rows[i], TRUE) = Both(After(rows[i].r, n + m))
  BY <1>1 DEF OneEnd, Both
<1> QED
  BY <1>2 DEF OneWrites

LEMMA BothFacts == \A st : Both(st).s = st /\ Both(st).w = st
BY DEF Both

\* The rows moved are rows of the batch, and g an owner with all its slots.
Movable(rows, moving, now, g) ==
    /\ moving \subseteq DOMAIN rows /\ Apart(rows)
    /\ g \in DOMAIN now /\ DOMAIN now[g] = Columns

LEMMA RolloverOwn ==
    ASSUME NEW rows, NEW moving, NEW now, NEW g, Movable(rows, moving, now, g)
    PROVE  LET next == Rollover(now, rows, moving)
           IN  /\ DOMAIN next = DOMAIN now /\ DOMAIN next[g] = Columns
               /\ (\A i \in moving : rows[i].g # g) => next[g] = now[g]
               /\ \A i \in moving : rows[i].g = g =>
                    next[g] = [now[g] EXCEPT ![0] = VerifyStart(now, rows[i])]
<1> DEFINE next   == Rollover(now, rows, moving)
           the(h) == CHOOSE i \in moving : rows[i].g = h
<1>0. /\ moving \subseteq DOMAIN rows /\ Apart(rows)
      /\ g \in DOMAIN now /\ DOMAIN now[g] = Columns
  BY DEF Movable
<1>1. /\ DOMAIN next = DOMAIN now
      /\ next[g] = IF \E i \in moving : rows[i].g = g
                   THEN [now[g] EXCEPT ![0] = VerifyStart(now, rows[the(g)])] ELSE now[g]
  BY <1>0 DEF Rollover
<1>2. ASSUME NEW i \in moving, rows[i].g = g PROVE the(g) = i
  <2>1. the(g) \in moving /\ rows[the(g)].g = g
    BY <1>2
  <2> HIDE DEF the
  <2> QED
    BY <1>0, <1>2, <2>1 DEF Apart
<1> HIDE DEF next, the
<1>3. ASSUME NEW i \in moving, rows[i].g = g
      PROVE  next[g] = [now[g] EXCEPT ![0] = VerifyStart(now, rows[i])]
  BY <1>1, <1>2, <1>3
<1>4. (\A i \in moving : rows[i].g # g) => next[g] = now[g]
  BY <1>1
<1>5. DOMAIN next[g] = Columns
  BY <1>0, <1>1
<1> QED
  BY <1>1, <1>3, <1>4, <1>5 DEF next

-----------------------------------------------------------------------------
(* The inductive invariant, on top of that of the counts.                  *)

\* The accepted count the host will have for a row.
Due(i) == IF i \in DOMAIN accDue THEN accDue[i] ELSE acc[i]

\* Each running request owns one set of slots, and nobody else does.
Owned ==
    /\ took \in [Req -> 0 .. K]
    /\ owner \in [Groups -> live \union {"none"}]
    /\ \A g, h \in Groups : owner[g] = owner[h] /\ owner[g] # "none" => g = h
    /\ \A r \in live : \E g \in Groups : owner[g] = r
    /\ DOMAIN slot = Groups /\ \A g \in Groups : DOMAIN slot[g] = Columns

Unstarted == \A r \in todo : true[r] = 0 /\ took[r] = 0 /\ prevIdx[r] = 0

FirstChunk ==
    pc # "schedule" => \A r \in Scheduled : true[r] = 0 => so.tok[r] >= 2

\* Between rounds the host has, or will have, the accepted count of each row
\* where the next round looks for it.
AcceptedKept ==
    Between =>
        IF Async
        THEN /\ accDue # <<>> => DOMAIN batch \subseteq DOMAIN accDue
             /\ \A r \in live :
                /\ prevIdx[r] > 0 =>
                    /\ Due(prevIdx[r]) = took[r] + 1
                    /\ batch = <<>> \/ (prevIdx[r] \in DOMAIN batch /\ batch[prevIdx[r]] = r)
                /\ InBatch(r) /\ took[r] > 0 => prevIdx[r] > 0
             /\ ~Mapped => /\ \A i \in DOMAIN batch : Due(i) = 1
                           /\ \A i \in DOMAIN accDue : accDue[i] = 1
        ELSE accDue = <<>> /\ \A i \in DOMAIN batch : acc[i] = took[batch[i]] + 1

\* ... and after the rows have moved it still looks there.
ToAccept(i) ==
    IF Async /\ Mapped THEN (IF PrevPos(i) = 0 THEN 1 ELSE Due(PrevPos(i))) ELSE Due(i)
AcceptedDue ==
    pc = "prepare" =>
        \A i \in DOMAIN batch : batch[i] \notin torn => ToAccept(i) = took[batch[i]] + 1

\* The forward pass of the round is done.
Ran == pc = "sample" \/ (pc = "correct" /\ ~align)

Selected ==
    pc \in {"launch", "correct"} /\ ~Ran =>
        \A i \in DOMAIN batch : batch[i] \notin torn => sel[i] = took[batch[i]] + 1

NotTorn == ~Between => \A r \in Scheduled \ torn : took[r] = 0 \/ so.draft[r] > 0

\* The slots of r hold the state after its computed tokens, in the column of
\* the last accepted one, and the window before the accepted ones.
Holds(r) ==
    LET mine == slot[GroupOf(r)]
    IN  IF took[r] = 0 THEN mine[0] = Both(After(r, true[r]))
        ELSE mine[took[r]].s = After(r, true[r]) /\ mine[0].w = After(r, true[r] - took[r])

\* The round started from the right state, and left one for any count that
\* may be accepted.
Computed(r) ==
    LET mine == slot[GroupOf(r)]
    IN  /\ start[r] = Both(After(r, true[r]))
        /\ IF so.draft[r] = 0 THEN mine[0] = Both(After(r, true[r] + so.tok[r]))
           ELSE /\ mine[0] = Both(After(r, true[r] + 1))
                /\ \A c \in 0 .. so.draft[r] : mine[c].s = After(r, true[r] + c + 1)

States ==
    \A r \in live \ torn :
        IF Ran /\ r \in Scheduled THEN Computed(r) ELSE true[r] > 0 => Holds(r)

\* No copy is under way in a mode that makes none.
NoCopy == ~Async => accDue = <<>>

SInv == /\ Owned /\ Unstarted /\ FirstChunk /\ NoCopy /\ AcceptedKept /\ AcceptedDue
        /\ Selected /\ NotTorn /\ States

(* A row whose request did not sample in the last round has, once prepared,*)
(* the count 1; when no request did, all counts are 1, those under way too.*)
Running == pc \in {"launch", "correct", "sample"}
Unsampled ==
    Async =>
        IF Running
        THEN accDue = <<>> /\ \A i \in DOMAIN batch : PrevPos(i) = 0 => acc[i] = 1
        ELSE ~Mapped => /\ \A i \in DOMAIN batch : acc[i] = 1
                        /\ \A i \in DOMAIN accDue : accDue[i] = 1

LEMMA InitStates == Init => SInv
<1> SUFFICES ASSUME Init PROVE SInv
  OBVIOUS
<1>1. /\ live = {} /\ todo = Req /\ pc = "schedule" /\ batch = <<>> /\ accDue = <<>>
      /\ true = Zeros /\ took = Zeros /\ prevIdx = Zeros
      /\ owner = [g \in Groups |-> "none"]
      /\ slot = [g \in Groups |-> [c \in Columns |-> Both(Lost)]]
  BY DEF Init
<1>2. DOMAIN batch = {} /\ DOMAIN accDue = {}
  <2>1. batch = <<>> /\ accDue = <<>>
    BY <1>1
  <2> QED
    BY <2>1
<1>3. K \in Nat
  BY GdnAssumption
<1>4. Owned
  BY <1>1, <1>3 DEF Owned, Zeros
<1>5. Unstarted
  BY <1>1 DEF Unstarted, Zeros
<1>6. AcceptedKept
  <2>1. CASE Async
    BY <1>1, <1>2, <2>1 DEF AcceptedKept
  <2>2. CASE ~Async
    BY <1>1, <1>2, <2>2 DEF AcceptedKept
  <2> QED
    BY <2>1, <2>2
<1>7. FirstChunk /\ AcceptedDue /\ Selected /\ NotTorn
  BY <1>1 DEF FirstChunk, AcceptedDue, Selected, NotTorn, Between
<1>8. States
  BY <1>1 DEF States
<1>9. NoCopy
  BY <1>1 DEF NoCopy
<1> QED
  BY <1>4, <1>5, <1>6, <1>7, <1>8, <1>9 DEF SInv

\* A running request's slots, by their owner.
LEMMA GroupFacts ==
    ASSUME NEW own, NEW r, NEW g \in Groups, own[g] = r,
           \A h \in Groups : own[h] = r => h = g
    PROVE  (CHOOSE h \in Groups : own[h] = r) = g
OBVIOUS

LEMMA OwnerFacts ==
    ASSUME Owned, Types
    PROVE  /\ \A r \in live : GroupOf(r) \in Groups /\ owner[GroupOf(r)] = r
           /\ \A q, r \in live : GroupOf(q) = GroupOf(r) => q = r
<1>1. \A r \in live : GroupOf(r) \in Groups /\ owner[GroupOf(r)] = r
  <2> SUFFICES ASSUME NEW r \in live PROVE GroupOf(r) \in Groups /\ owner[GroupOf(r)] = r
    OBVIOUS
  <2>1. \E g \in Groups : owner[g] = r
    BY DEF Owned
  <2> QED
    BY <2>1 DEF GroupOf
<1>2. \A q, r \in live : GroupOf(q) = GroupOf(r) => q = r
  BY <1>1
<1> QED
  BY <1>1, <1>2

-----------------------------------------------------------------------------
(* Each step.                                                              *)

LEMMA AtLeastTwo ==
    ASSUME NEW a \in Nat, a >= 2, NEW n \in Nat
    PROVE  Min({a, Max({n, 2})}) >= 2
<1> DEFINE b == Max({n, 2})
<1>1. n \in Int /\ 2 \in Int /\ a \in Int
  OBVIOUS
<1>2. b \in {n, 2} /\ b >= 2
  BY <1>1, MaxPair
<1>3. b \in Int
  BY <1>1, <1>2
<1> HIDE DEF b
<1>4. Min({a, b}) \in {a, b}
  BY <1>1, <1>3, MinPair
<1>5. Min({a, b}) >= 2
  BY <1>2, <1>4
<1> QED
  BY <1>5 DEF b

LEMMA FirstGrant ==
    ASSUME Types, NEW r \in Req, NEW n \in 1 .. Chunk, true[r] = 0
    PROVE  Grant(r, n) >= 2 /\ ~Some(r)
<1>1. Prompt[r] \in Nat /\ Prompt[r] >= 2
  BY Bounds
<1>2. n \in Nat
  BY Bounds
<1>3. Min({Prompt[r], Max({n, 2})}) >= 2
  BY <1>1, <1>2, AtLeastTwo
<1>4. Grant(r, n) = Min({Prompt[r], Max({n, 2})})
  <2>1. true[r] < Prompt[r] /\ Prompt[r] - true[r] = Prompt[r]
    BY <1>1
  <2> QED
    BY <2>1 DEF Grant
<1>5. ~Some(r)
  BY <1>1 DEF Some
<1> QED
  BY <1>3, <1>4, <1>5

LEMMA ScheduleStates == IInv /\ SInv /\ Schedule => SInv'
<1> SUFFICES ASSUME IInv, SInv, Schedule PROVE SInv'
  OBVIOUS
<1>1. /\ pc = "schedule" /\ pc' = "update"
      /\ UNCHANGED <<mode, align, true, batch, prevIdx, slot, took, torn, acc, accDue>>
  BY DEF Schedule, copies
<1>2. PICK gone \in SUBSET {r \in live : Some(r)}, come \in SUBSET todo :
        /\ Cardinality(come) <= 1
        /\ LET run  == (live \ gone) \union come
               kept == [g \in Groups |-> IF owner[g] \in gone THEN "none" ELSE owner[g]]
           IN  \E n \in 1 .. Chunk, skip \in SUBSET (live \ gone) :
                /\ so' = SchedulerOutput(run \ skip, n)
                /\ live' = run
                /\ IF come = {} THEN owner' = kept
                   ELSE \E r \in come, g \in {g \in Groups : kept[g] = "none"} :
                            owner' = [kept EXCEPT ![g] = r]
        /\ todo' = todo \ come
  BY DEF Schedule
<1> DEFINE run  == (live \ gone) \union come
           kept == [g \in Groups |-> IF owner[g] \in gone THEN "none" ELSE owner[g]]
<1>3. PICK n \in 1 .. Chunk, skip \in SUBSET (live \ gone) :
        /\ so' = SchedulerOutput(run \ skip, n)
        /\ live' = run
        /\ IF come = {} THEN owner' = kept
           ELSE \E r \in come, g \in {g \in Groups : kept[g] = "none"} :
                    owner' = [kept EXCEPT ![g] = r]
  BY <1>2
<1>4. /\ Types /\ live \subseteq Req /\ todo \subseteq Req \ live /\ "none" \notin Req
      /\ come \subseteq todo /\ Owned
  BY SpecRoundAssumption DEF IInv, SInv, Types
<1>5. /\ kept \in [Groups -> (live \ gone) \union {"none"}]
      /\ \A g, h \in Groups : kept[g] = kept[h] /\ kept[g] # "none" => g = h
      /\ \A r \in live \ gone : \E g \in Groups : kept[g] = r
      /\ \A r \in live \ gone, g \in Groups : kept[g] = r <=> owner[g] = r
  <2>1. owner \in [Groups -> live \union {"none"}]
    BY <1>4 DEF Owned
  <2>2. \A r \in live \ gone, g \in Groups : kept[g] = r <=> owner[g] = r
    BY <1>4
  <2>3. \A g, h \in Groups : kept[g] = kept[h] /\ kept[g] # "none" => g = h
    BY <1>4 DEF Owned
  <2>4. \A r \in live \ gone : \E g \in Groups : kept[g] = r
    BY <1>4, <2>2 DEF Owned
  <2>5. kept \in [Groups -> (live \ gone) \union {"none"}]
    BY <1>4, <2>1
  <2> QED
    BY <2>2, <2>3, <2>4, <2>5
<1> HIDE DEF kept
<1>6. /\ owner' \in [Groups -> live' \union {"none"}]
      /\ \A g, h \in Groups : owner'[g] = owner'[h] /\ owner'[g] # "none" => g = h
      /\ \A r \in live' : \E g \in Groups : owner'[g] = r
      /\ \A r \in live \ gone, g \in Groups : owner'[g] = r <=> owner[g] = r
  <2>1. CASE come = {}
    <3>1. owner' = kept /\ live' = live \ gone
      BY <1>3, <2>1
    <3> QED
      BY <1>5, <3>1
  <2>2. CASE come # {}
    <3>1. PICK r \in come, g \in {g \in Groups : kept[g] = "none"} :
                owner' = [kept EXCEPT ![g] = r]
      BY <1>3, <2>2
    <3>2. come = {r}
      <4>1. IsFiniteSet(come)
        <5>1. come \in SUBSET Req
          BY <1>4
        <5> QED
          BY <5>1, Bounds, FS_Subset
      <4>2. Cardinality(come) \in Nat /\ Cardinality(come) # 0
        BY <4>1, <2>2, FS_CardinalityType, FS_EmptySet
      <4>3. Cardinality(come) = 1
        BY <1>2, <4>2
      <4>4. PICK x : come = {x}
        BY <4>1, <4>3, FS_Singleton
      <4> QED
        BY <4>4
    <3>3. r \notin live /\ r # "none" /\ live' = (live \ gone) \union {r}
      BY <1>3, <1>4, <3>2
    <3>4. /\ owner'[g] = r
          /\ \A h \in Groups : h # g => owner'[h] = kept[h]
      BY <1>5, <3>1
    <3>5. owner' \in [Groups -> live' \union {"none"}]
      BY <1>5, <3>1, <3>3
    <3>6. ASSUME NEW h \in Groups, h # g PROVE owner'[h] # r /\ owner'[h] = kept[h]
      BY <1>5, <3>3, <3>4, <3>6
    <3>7. \A h, k \in Groups : owner'[h] = owner'[k] /\ owner'[h] # "none" => h = k
      BY <1>5, <3>4, <3>6
    <3>8. \A x \in live \ gone, h \in Groups : owner'[h] = x <=> owner[h] = x
      <4> SUFFICES ASSUME NEW x \in live \ gone, NEW h \in Groups
                   PROVE  owner'[h] = x <=> owner[h] = x
        OBVIOUS
      <4>1. CASE h = g
        <5>1. kept[h] = "none" /\ x # "none" /\ x # r /\ owner'[h] = r
          BY <1>4, <3>1, <3>3, <3>4, <4>1
        <5> QED
          BY <1>5, <5>1
      <4>2. CASE h # g
        BY <1>5, <3>4, <4>2
      <4> QED
        BY <4>1, <4>2
    <3>9. \A x \in live' : \E h \in Groups : owner'[h] = x
      <4> SUFFICES ASSUME NEW x \in live' PROVE \E h \in Groups : owner'[h] = x
        OBVIOUS
      <4>1. CASE x = r
        BY <3>4, <4>1
      <4>2. CASE x \in live \ gone
        BY <1>5, <3>8, <4>2
      <4> QED
        BY <3>3, <4>1, <4>2
    <3> QED
      BY <3>5, <3>7, <3>8, <3>9
  <2> QED
    BY <2>1, <2>2
<1>7. Owned'
  BY <1>1, <1>4, <1>6 DEF Owned
<1>8. Unstarted'
  BY <1>1, <1>2 DEF SInv, Unstarted
<1>9. FirstChunk'
  <2> SUFFICES ASSUME NEW r \in Req, so'.tok[r] > 0, true[r] = 0 PROVE so'.tok[r] >= 2
    BY <1>1 DEF FirstChunk, Scheduled
  <2>1. so'.tok[r] = IF r \in run \ skip THEN Grant(r, n) ELSE 0
    <3>1. so'.tok = [x \in Req |-> IF x \in run \ skip THEN Grant(x, n) ELSE 0]
      BY <1>3 DEF SchedulerOutput
    <3> QED
      BY <3>1
  <2>2. so'.tok[r] = Grant(r, n)
    <3>1. CASE r \in run \ skip
      BY <2>1, <3>1
    <3>2. CASE r \notin run \ skip
      <4>1. so'.tok[r] = 0
        BY <2>1, <3>2
      <4> QED
        BY <4>1
    <3> QED
      BY <3>1, <3>2
  <2> QED
    BY <1>4, <2>2, FirstGrant
<1>10. \A r \in come : true[r] = 0 /\ took[r] = 0 /\ prevIdx[r] = 0
  BY <1>4 DEF SInv, Unstarted
<1>11. AcceptedKept'
  <2>1. Between /\ Between' /\ AcceptedKept
    BY <1>1 DEF SInv, Between
  <2>2. Async' = Async /\ Mapped' = Mapped /\ \A i : Due(i)' = Due(i) /\ InBatch(i)' = InBatch(i)
    BY <1>1 DEF Async, Mapped, Due, InBatch
  <2>3. CASE ~Async
    BY <1>1, <2>1, <2>2, <2>3 DEF AcceptedKept
  <2>4. CASE Async
    <3>1. /\ accDue # <<>> => DOMAIN batch \subseteq DOMAIN accDue
          /\ ~Mapped => /\ \A i \in DOMAIN batch : Due(i) = 1
                        /\ \A i \in DOMAIN accDue : accDue[i] = 1
          /\ \A r \in live :
                /\ prevIdx[r] > 0 =>
                    /\ Due(prevIdx[r]) = took[r] + 1
                    /\ batch = <<>> \/ (prevIdx[r] \in DOMAIN batch /\ batch[prevIdx[r]] = r)
                /\ InBatch(r) /\ took[r] > 0 => prevIdx[r] > 0
      BY <2>1, <2>4 DEF AcceptedKept
    <3>2. \A r \in live' : r \in live \/ r \in come
      BY <1>3
    <3> QED
      BY <1>1, <1>10, <2>2, <2>4, <3>1, <3>2 DEF AcceptedKept
  <2> QED
    BY <2>3, <2>4
<1>12. AcceptedDue' /\ Selected' /\ NotTorn'
  BY <1>1 DEF AcceptedDue, Selected, NotTorn, Between
<1>13. States'
  <2> SUFFICES ASSUME NEW r \in live', r \notin torn, true[r] > 0 PROVE Holds(r)'
    BY <1>1 DEF States, Ran
  <2>1. r \in live \ gone
    BY <1>3, <1>10
  <2>2. Holds(r)
    BY <1>1, <2>1 DEF SInv, States, Ran
  <2>3. GroupOf(r)' = GroupOf(r)
    <3>1. \A g \in Groups : owner'[g] = r <=> owner[g] = r
      BY <1>6, <2>1
    <3>2. GroupOf(r) \in Groups /\ owner[GroupOf(r)] = r
      BY <1>4, <2>1, OwnerFacts
    <3>3. \A h \in Groups : owner'[h] = r => h = GroupOf(r)
      BY <1>4, <2>1, <3>1, <3>2 DEF Owned
    <3>4. owner'[GroupOf(r)] = r
      BY <3>1, <3>2
    <3>5. (CHOOSE g \in Groups : owner'[g] = r) = GroupOf(r)
      BY <3>2, <3>3, <3>4, GroupFacts
    <3> QED
      BY <3>5 DEF GroupOf
  <2> QED
    BY <1>1, <2>2, <2>3 DEF Holds
<1>c. NoCopy'
  BY <1>1 DEF SInv, NoCopy, Async
<1> QED
  BY <1>7, <1>8, <1>9, <1>11, <1>12, <1>13, <1>c DEF SInv

LEMMA UpdateStatesOwn == IInv /\ SInv /\ Unsampled /\ UpdateStates => SInv'
<1> SUFFICES ASSUME IInv, SInv, Unsampled, UpdateStates PROVE SInv'
  OBVIOUS
<1>1. /\ pc = "update"
      /\ pc' = IF Scheduled = {} THEN "schedule" ELSE "prepare"
      /\ UNCHANGED <<mode, align, live, todo, so, prevIdx, owner, slot, start, accDue>>
      /\ true' = [r \in Req |-> Stay(true, r)] /\ took' = [r \in Req |-> Stay(took, r)]
  BY DEF UpdateStates
<1>2. /\ Types /\ Scheduled \subseteq Req /\ IsFiniteSet(Scheduled) /\ Scheduled \subseteq live
      /\ live \subseteq Req /\ todo \subseteq Req \ live
  BY <1>1, ScheduledFacts DEF IInv, Granted, Types
<1>3. Scheduled' = Scheduled
  BY <1>1 DEF Scheduled
<1>4. PICK new \in Orders({r \in Scheduled : ~InBatch(r)}) :
        /\ batch' \in Reordered(Condense(new))
        /\ acc' = [i \in Rows |-> IF i \notin DOMAIN batch' THEN acc[i]
                                  ELSE IF InBatch(batch'[i]) THEN acc[RowOf(batch'[i])] ELSE 1]
        /\ torn' = (torn \cap live)
                     \union {r \in Scheduled : Torn(r) \/ Displaced(batch', r)}
  BY DEF UpdateStates
<1> DEFINE n == Cardinality(Scheduled)
<1>5. /\ batch \in Seq(Req) /\ IsInjective(batch)
      /\ batch' \in Seq(Req) /\ Len(batch') = n /\ ToSet(batch') = Scheduled /\ n \in Nat
  BY <1>2, <1>4, ReorderArranges, FS_CardinalityType DEF Types
<1>6. DOMAIN batch' = 1 .. n
  BY <1>5
<1>7. ASSUME NEW r \in live PROVE true'[r] = true[r] /\ took'[r] = took[r]
  BY <1>1, <1>2 DEF Stay
<1>8. ASSUME NEW r \in Req \ live PROVE true'[r] = 0 /\ took'[r] = 0
  BY <1>1 DEF Stay
<1>9. DOMAIN batch = 1 .. Len(batch) /\ Len(batch) \in Nat /\ DOMAIN batch \subseteq Rows
      /\ DOMAIN batch' \subseteq Rows
  <2>1. DOMAIN batch = 1 .. Len(batch) /\ Len(batch) \in Nat
    BY <1>5
  <2>2. Len(batch) <= MaxRows /\ Len(batch') <= MaxRows
    <3>1. Types'
      BY UpdateInv DEF IInv
    <3> QED
      BY <1>2, <3>1 DEF Types
  <2> QED
    BY <1>5, <1>6, <2>1, <2>2, Bounds
<1>10. Async' = Async /\ Mapped' = Mapped
  BY <1>1 DEF Async, Mapped
<1>11. Owned'
  <2>1. took' \in [Req -> 0 .. K]
    <3>1. took \in [Req -> 0 .. K] /\ 0 \in 0 .. K
      BY GdnAssumption DEF SInv, Owned
    <3>2. \A r \in Req : Stay(took, r) \in 0 .. K
      BY <3>1 DEF Stay
    <3> QED
      BY <1>1, <3>2
  <2> QED
    BY <1>1, <2>1 DEF SInv, Owned
<1>12. Unstarted'
  BY <1>1, <1>2, <1>8 DEF SInv, Unstarted
<1>13. FirstChunk'
  BY <1>1, <1>2, <1>3, <1>7 DEF SInv, FirstChunk
<1>14. Selected'
  BY <1>1 DEF Selected
<1>15. NotTorn'
  <2>1. \A r \in Scheduled : r \notin torn' => ~Torn(r)
    BY <1>4
  <2>2. \A r \in Scheduled : ~Torn(r) => took[r] = 0 \/ so.draft[r] > 0
    <3>1. \A r \in Scheduled : took[r] \in Nat /\ so.draft[r] \in Nat
      BY <1>2, ScheduledFacts DEF SInv, Owned
    <3> QED
      BY <3>1 DEF Torn
  <2> QED
    BY <1>1, <1>2, <1>3, <1>7, <2>1, <2>2 DEF NotTorn
<1>16. States'
  <2> SUFFICES ASSUME NEW r \in live, r \notin torn', true[r] > 0 PROVE Holds(r)'
    BY <1>1, <1>7 DEF States, Ran
  <2>1. r \notin torn
    BY <1>4
  <2>2. Holds(r)
    BY <1>1, <2>1 DEF SInv, States, Ran
  <2>3. GroupOf(r)' = GroupOf(r) /\ slot' = slot /\ true'[r] = true[r] /\ took'[r] = took[r]
    BY <1>1, <1>7 DEF GroupOf
  <2> QED
    BY <2>2, <2>3 DEF Holds
<1>17. AcceptedKept /\ Between
  BY <1>1 DEF SInv, Between
<1>18. AcceptedKept'
  <2> SUFFICES ASSUME Scheduled = {} PROVE AcceptedKept'
    BY <1>1 DEF AcceptedKept, Between
  <2>1. batch' = <<>>
    <3>1. n = 0
      BY FS_EmptySet
    <3> QED
      BY <1>5, <3>1
  <2>2. DOMAIN batch' = {} /\ \A r \in Req : ~InBatch(r)'
    <3>1. DOMAIN batch' = {}
      BY <2>1
    <3> QED
      BY <3>1 DEF InBatch, ToSet
  <2>3. \A i \in Rows : Due(i)' = Due(i)
    BY <1>1, <1>4, <2>2 DEF Due
  <2>4. CASE ~Async
    BY <1>1, <1>10, <1>17, <2>2, <2>4 DEF AcceptedKept
  <2>5. CASE Async
    <3>1. ASSUME NEW r \in live, prevIdx[r] > 0
          PROVE  Due(prevIdx[r])' = took'[r] + 1
      <4>1. prevIdx[r] \in Rows
        <5>1. prevIdx[r] \in 0 .. MaxRows
          BY <1>2 DEF Types
        <5> QED
          BY <3>1, <5>1, Bounds
      <4>2. Due(prevIdx[r]) = took[r] + 1
        BY <1>17, <2>5, <3>1 DEF AcceptedKept
      <4>3. Due(prevIdx[r])' = Due(prevIdx[r])
        BY <1>1, <2>3, <4>1 DEF Due
      <4> QED
        BY <1>7, <4>2, <4>3
    <3>2. ~Mapped => \A i \in DOMAIN accDue : accDue[i] = 1
      BY <1>17, <2>5 DEF AcceptedKept
    <3>3. \A r \in live : ~InBatch(r)'
      BY <1>2, <2>2
    <3> QED
      BY <1>1, <1>10, <2>1, <2>2, <2>5, <3>1, <3>2, <3>3 DEF AcceptedKept
  <2> QED
    BY <2>4, <2>5
<1>19. AcceptedDue'
  <2> SUFFICES ASSUME NEW i \in 1 .. n, batch'[i] \notin torn'
               PROVE  ToAccept(i)' = took'[batch'[i]] + 1
    BY <1>6 DEF AcceptedDue
  <2> DEFINE r == batch'[i]
             p == prevIdx[r]
  <2>1. /\ r \in Scheduled /\ r \in live /\ i \in Rows
        /\ took'[r] = took[r] /\ took[r] \in Nat
    <3>1. r \in Scheduled
      BY <1>5, <1>6 DEF ToSet
    <3>2. took \in [Req -> 0 .. K]
      BY DEF SInv, Owned
    <3> QED
      BY <1>2, <1>6, <1>7, <1>9, <3>1, <3>2
  <2>2. ~InBatch(r) => took[r] = 0
    <3>1. ~Torn(r)
      BY <1>4, <2>1
    <3> QED
      BY <2>1, <3>1 DEF Torn
  <2>3. ASSUME InBatch(r) PROVE RowOf(r) \in DOMAIN batch /\ batch[RowOf(r)] = r
    <3>1. \E j \in DOMAIN batch : batch[j] = r
      BY <2>3 DEF InBatch, ToSet
    <3> QED
      BY <3>1 DEF RowOf
  <2>4. ASSUME NEW j \in Rows
        PROVE  acc'[j] = IF j \notin 1 .. n THEN acc[j]
                         ELSE IF InBatch(batch'[j]) THEN acc[RowOf(batch'[j])] ELSE 1
    BY <1>4, <1>6
  <2>5. PrevPos(i)' = p
    BY <1>1 DEF PrevPos
  <2>6. p \in 0 .. MaxRows /\ (p # 0 => p \in Rows)
    <3>1. p \in 0 .. MaxRows
      BY <1>2, <2>1 DEF Types
    <3> QED
      BY <3>1, Bounds
  <2>7. ASSUME Async, p = 0 PROVE took[r] = 0
    <3>1. InBatch(r) /\ took[r] > 0 => p > 0
      BY <1>17, <2>1, <2>7 DEF AcceptedKept
    <3> QED
      BY <2>1, <2>2, <2>7, <3>1
  <2> HIDE DEF r, p, n
  <2>8. CASE ~Async
    <3>1. accDue = <<>> /\ \A j \in DOMAIN batch : acc[j] = took[batch[j]] + 1
      BY <1>17, <2>8 DEF AcceptedKept
    <3>2. DOMAIN accDue = {}
      BY <3>1
    <3>3. ToAccept(i)' = acc'[i]
      BY <1>1, <1>10, <2>8, <3>2 DEF ToAccept, Due
    <3>4. CASE InBatch(r)
      <4>1. acc'[i] = acc[RowOf(r)]
        BY <2>1, <2>4, <3>4 DEF r
      <4> QED
        BY <2>1, <2>3, <3>1, <3>3, <3>4, <4>1 DEF r
    <3>5. CASE ~InBatch(r)
      <4>1. acc'[i] = 1
        BY <2>1, <2>4, <3>5 DEF r
      <4> QED
        BY <2>1, <2>2, <3>3, <3>5, <4>1 DEF r
    <3> QED
      BY <3>4, <3>5
  <2>9. CASE Async /\ Mapped /\ p = 0
    <3>1. ToAccept(i)' = 1
      BY <1>10, <2>5, <2>9 DEF ToAccept
    <3> QED
      BY <2>1, <2>7, <2>9, <3>1 DEF r
  <2>10. CASE Async /\ Mapped /\ p # 0
    <3>1. p \in Rows /\ p > 0
      BY <2>6, <2>10
    <3>2. /\ Due(p) = took[r] + 1
          /\ batch = <<>> \/ (p \in DOMAIN batch /\ batch[p] = r)
      BY <1>17, <2>1, <2>10, <3>1 DEF AcceptedKept, p
    <3>3. ToAccept(i)' = IF p \in DOMAIN accDue THEN accDue[p] ELSE acc'[p]
      BY <1>1, <1>10, <2>5, <2>10 DEF ToAccept, Due
    <3>4. CASE p \in DOMAIN accDue
      BY <2>1, <3>2, <3>3, <3>4 DEF Due, r
    <3>5. CASE p \notin DOMAIN accDue
      <4>1. acc[p] = took[r] + 1 /\ ToAccept(i)' = acc'[p]
        BY <3>2, <3>3, <3>5 DEF Due
      <4>2. acc'[p] = acc[p]
        <5>1. CASE p \notin 1 .. n
          BY <2>4, <3>1, <5>1
        <5>2. CASE p \in 1 .. n /\ batch = <<>>
          <6>1. batch = <<>>
            BY <5>2
          <6>2. DOMAIN batch = {}
            BY <6>1
          <6>3. \A q : ~InBatch(q)
            BY <6>2 DEF InBatch, ToSet
          <6>4. took[r] = 0 /\ acc'[p] = 1
            BY <2>2, <2>4, <3>1, <5>2, <6>3
          <6> QED
            BY <4>1, <6>4
        <5>3. CASE p \in 1 .. n /\ batch # <<>>
          <6>1. p \in DOMAIN batch /\ batch[p] = r /\ p <= n
            BY <1>5, <3>2, <5>3
          <6>2. InBatch(r)
            BY <6>1 DEF InBatch, ToSet
          <6>3. batch'[p] = r
            <7>1. ~Displaced(batch', r)
              BY <1>4, <2>1 DEF r
            <7> QED
              BY <1>6, <2>10, <3>5, <5>3, <6>2, <7>1 DEF Displaced, p
          <6>4. RowOf(r) = p
            BY <1>5, <2>3, <6>1, <6>2 DEF IsInjective
          <6> QED
            BY <2>4, <3>1, <5>3, <6>2, <6>3, <6>4
        <5> QED
          BY <5>1, <5>2, <5>3
      <4> QED
        BY <2>1, <4>1, <4>2 DEF r
    <3> QED
      BY <3>4, <3>5
  <2>11. CASE Async /\ ~Mapped
    <3>1. p = 0 /\ took[r] = 0
      <4>1. p = 0
        BY <1>2, <2>1, <2>6, <2>11 DEF Mapped, p
      <4> QED
        BY <2>7, <2>11, <4>1
    <3>2. /\ \A j \in DOMAIN batch : acc[j] = 1
          /\ \A j \in DOMAIN accDue : accDue[j] = 1
      BY <1>1, <2>11 DEF Unsampled, Running
    <3>3. ToAccept(i)' = IF i \in DOMAIN accDue THEN accDue[i] ELSE acc'[i]
      BY <1>1, <1>10, <2>11 DEF ToAccept, Due
    <3>4. acc'[i] = 1
      BY <2>1, <2>3, <2>4, <3>2 DEF r
    <3> QED
      BY <2>1, <3>1, <3>2, <3>3, <3>4 DEF r
  <2> QED
    BY <2>8, <2>9, <2>10, <2>11
<1>c. NoCopy'
  BY <1>1 DEF SInv, NoCopy, Async
<1> QED
  BY <1>11, <1>12, <1>13, <1>14, <1>15, <1>16, <1>18, <1>19, <1>c DEF SInv

LEMMA LandStates == IInv /\ SInv /\ LandAccepted => SInv'
<1> SUFFICES ASSUME IInv, SInv, LandAccepted PROVE SInv'
  OBVIOUS
<1>1. /\ accDue # <<>> /\ pc # "schedule" /\ accDue' = <<>>
      /\ acc' = [i \in Rows |-> IF i \in DOMAIN accDue THEN accDue[i] ELSE acc[i]]
      /\ UNCHANGED <<mode, align, live, todo, true, prevIdx, so, pc, batch, sel, owner, slot,
                     start, took, torn>>
  BY DEF LandAccepted, counts, device
<1>2. Types /\ DOMAIN accDue' = {}
  <2>1. accDue' = <<>>
    BY <1>1
  <2> QED
    BY <2>1 DEF IInv
<1>3. /\ Scheduled' = Scheduled /\ Async' = Async /\ Mapped' = Mapped /\ Ran' = Ran
      /\ \A r \in Req : InBatch(r)' = InBatch(r) /\ GroupOf(r)' = GroupOf(r)
  BY <1>1 DEF Scheduled, Async, Mapped, InBatch, Ran, GroupOf
<1>4. \A i \in Rows : Due(i)' = Due(i)
  BY <1>1, <1>2 DEF Due
<1>5. DOMAIN batch \subseteq Rows /\ \A r \in Req : prevIdx[r] > 0 => prevIdx[r] \in Rows
  <2>1. DOMAIN batch = 1 .. Len(batch) /\ Len(batch) \in Nat /\ Len(batch) <= MaxRows
    <3>1. batch \in Seq(Req) /\ Len(batch) <= MaxRows
      BY <1>2 DEF Types
    <3> QED
      BY <3>1
  <2>2. \A r \in Req : prevIdx[r] \in 0 .. MaxRows
    BY <1>2 DEF Types
  <2> QED
    BY <2>1, <2>2, Bounds
<1>6. Owned' /\ Unstarted' /\ FirstChunk'
  BY <1>1, <1>3 DEF SInv, Owned, Unstarted, FirstChunk
<1>7. Selected' /\ NotTorn'
  BY <1>1, <1>3 DEF SInv, Selected, NotTorn, Between
<1>8. AcceptedKept'
  <2> SUFFICES ASSUME Between PROVE AcceptedKept'
    BY <1>1 DEF AcceptedKept, Between
  <2>1. Async
    BY <1>1 DEF SInv, AcceptedKept
  <2>2. /\ \A r \in live :
                /\ prevIdx[r] > 0 =>
                    /\ Due(prevIdx[r]) = took[r] + 1
                    /\ batch = <<>> \/ (prevIdx[r] \in DOMAIN batch /\ batch[prevIdx[r]] = r)
                /\ InBatch(r) /\ took[r] > 0 => prevIdx[r] > 0
        /\ ~Mapped => \A i \in DOMAIN batch : Due(i) = 1
    BY <2>1 DEF SInv, AcceptedKept
  <2>3. \A r \in live : prevIdx[r] > 0 => Due(prevIdx[r])' = Due(prevIdx[r])
    <3> SUFFICES ASSUME NEW r \in live, prevIdx[r] > 0
                 PROVE  Due(prevIdx[r])' = Due(prevIdx[r])
      OBVIOUS
    <3>1. prevIdx[r] \in Rows
      BY <1>2, <1>5 DEF Types
    <3> QED
      BY <1>1, <1>4, <3>1 DEF Due
  <2>4. live \subseteq Req
    BY <1>2 DEF Types
  <2> QED
    BY <1>1, <1>2, <1>3, <1>4, <1>5, <2>1, <2>2, <2>3, <2>4 DEF AcceptedKept
<1>9. AcceptedDue'
  <2> SUFFICES ASSUME pc = "prepare", NEW i \in DOMAIN batch, batch[i] \notin torn
               PROVE  ToAccept(i)' = took[batch[i]] + 1
    BY <1>1 DEF AcceptedDue
  <2>1. ToAccept(i) = took[batch[i]] + 1
    BY DEF SInv, AcceptedDue
  <2>2. PrevPos(i)' = PrevPos(i)
    BY <1>1 DEF PrevPos
  <2>3. i \in Rows /\ batch[i] \in Req /\ PrevPos(i) \in 0 .. MaxRows
    BY <1>2, <1>5 DEF Types, PrevPos
  <2>4. PrevPos(i) # 0 => PrevPos(i) \in Rows
    BY <2>3, Bounds
  <2>5. PrevPos(i) # 0 => Due(PrevPos(i))' = Due(PrevPos(i))
    BY <1>1, <1>4, <2>2, <2>4 DEF Due
  <2>6. Due(i)' = Due(i)
    BY <1>4, <2>3
  <2> QED
    BY <1>3, <2>1, <2>2, <2>5, <2>6 DEF ToAccept
<1>10. States'
  BY <1>1, <1>2, <1>3 DEF SInv, States, Computed, Holds, Types
<1>c. NoCopy'
  BY <1>1 DEF NoCopy
<1> QED
  BY <1>6, <1>7, <1>8, <1>9, <1>10, <1>c DEF SInv

LEMMA PrepareStates == IInv /\ SInv /\ Prepare => SInv'
<1> SUFFICES ASSUME IInv, SInv, Prepare PROVE SInv'
  OBVIOUS
<1>1. /\ pc = "prepare" /\ pc' = IF align /\ deferred # {} THEN "correct" ELSE "launch"
      /\ accDue = <<>>
      /\ sel' = [i \in Rows |-> IF i \in DOMAIN batch THEN Accepted(i) ELSE 1]
      /\ UNCHANGED <<mode, align, live, todo, true, prevIdx, so, batch, owner, slot, start, took,
                     torn>>
  BY DEF Prepare, counts
<1>2. Types /\ DOMAIN batch \subseteq Rows
  BY <1>1, RowFacts DEF Between
<1>3. ~Ran /\ ~Ran' /\ ~Between /\ ~Between'
  BY <1>1 DEF Ran, Between
<1>4. Scheduled' = Scheduled /\ \A r \in Req : GroupOf(r)' = GroupOf(r)
  BY <1>1 DEF Scheduled, GroupOf
<1>5. Owned' /\ Unstarted' /\ FirstChunk'
  BY <1>1, <1>4 DEF SInv, Owned, Unstarted, FirstChunk
<1>6. AcceptedKept' /\ AcceptedDue'
  BY <1>1, <1>3 DEF AcceptedKept, AcceptedDue
<1>7. NotTorn'
  BY <1>1, <1>3, <1>4 DEF SInv, NotTorn
<1>8. Selected'
  <2> SUFFICES ASSUME NEW i \in DOMAIN batch, batch[i] \notin torn
               PROVE  sel'[i] = took[batch[i]] + 1
    BY <1>1 DEF Selected
  <2>1. ToAccept(i) = took[batch[i]] + 1
    BY <1>1 DEF SInv, AcceptedDue
  <2>2. DOMAIN accDue = {}
    <3>1. accDue = <<>>
      BY <1>1
    <3> QED
      BY <3>1
  <2>3. \A j : Due(j) = acc[j]
    BY <2>2 DEF Due
  <2>4. Accepted(i) = ToAccept(i)
    BY <2>3 DEF Accepted, ToAccept
  <2> QED
    BY <1>1, <1>2, <2>1, <2>4
<1>9. States'
  BY <1>1, <1>2, <1>3, <1>4 DEF SInv, States, Holds, Types
<1>c. NoCopy'
  BY <1>1 DEF Prepare, NoCopy
<1> QED
  BY <1>5, <1>6, <1>7, <1>8, <1>9, <1>c DEF SInv

LEMMA CorrectStates == IInv /\ SInv /\ Correct => SInv'
<1> SUFFICES ASSUME IInv, SInv, Correct PROVE SInv'
  OBVIOUS
<1>1. /\ pc = "correct" /\ pc' = IF align THEN "launch" ELSE "sample"
      /\ UNCHANGED <<mode, align, live, todo, true, prevIdx, so, batch, sel, owner, slot, start,
                     acc, accDue, took, torn>>
  BY DEF Correct, device, copies
<1>2. Types /\ Ran' = Ran /\ ~Between /\ ~Between' /\ (pc' = "launch" => ~Ran)
  BY <1>1 DEF IInv, Ran, Between
<1>3. Scheduled' = Scheduled /\ \A r \in Req : GroupOf(r)' = GroupOf(r)
  BY <1>1 DEF Scheduled, GroupOf
<1>4. Owned' /\ Unstarted' /\ FirstChunk'
  BY <1>1, <1>3 DEF SInv, Owned, Unstarted, FirstChunk
<1>5. AcceptedKept' /\ AcceptedDue'
  BY <1>1, <1>2 DEF AcceptedKept, AcceptedDue
<1>6. NotTorn'
  BY <1>1, <1>2, <1>3 DEF SInv, NotTorn
<1>7. Selected'
  BY <1>1, <1>2 DEF SInv, Selected
<1>8. States'
  BY <1>1, <1>2, <1>3 DEF SInv, States, Computed, Holds, Types
<1>c. NoCopy'
  BY <1>1 DEF SInv, NoCopy, Async
<1> QED
  BY <1>4, <1>5, <1>6, <1>7, <1>8, <1>c DEF SInv

LEMMA StutterStates == IInv /\ SInv /\ UNCHANGED vars => SInv'
<1> SUFFICES ASSUME IInv, SInv, UNCHANGED vars PROVE SInv'
  OBVIOUS
<1>1. UNCHANGED <<mode, align, live, todo, true, prevIdx, so, pc, batch, sel, owner, slot, start,
                  acc, accDue, took, torn>>
  BY DEF vars, counts, device, copies
<1>2. /\ Scheduled' = Scheduled /\ Async' = Async /\ Mapped' = Mapped /\ Ran' = Ran
      /\ Between' = Between
  BY <1>1 DEF Scheduled, Async, Mapped, Ran, Between
<1>3. \A r : InBatch(r)' = InBatch(r) /\ GroupOf(r)' = GroupOf(r) /\ Due(r)' = Due(r)
             /\ PrevPos(r)' = PrevPos(r)
  BY <1>1 DEF InBatch, GroupOf, Due, PrevPos
<1>4. Owned' /\ Unstarted' /\ FirstChunk' /\ NotTorn' /\ Selected'
  BY <1>1, <1>2 DEF SInv, Owned, Unstarted, FirstChunk, NotTorn, Selected
<1>5. AcceptedKept'
  BY <1>1, <1>2, <1>3 DEF SInv, AcceptedKept, Due
<1>6. AcceptedDue'
  BY <1>1, <1>2, <1>3 DEF SInv, AcceptedDue, ToAccept, Due
<1>7. States'
  BY <1>1, <1>2, <1>3 DEF SInv, States, Computed, Holds
<1>c. NoCopy'
  BY <1>1 DEF SInv, NoCopy, Async
<1> QED
  BY <1>4, <1>5, <1>6, <1>7, <1>c DEF SInv

LEMMA SampleStates == IInv /\ SInv /\ Sample => SInv'
<1> SUFFICES ASSUME IInv, SInv, Sample PROVE SInv'
  OBVIOUS
<1>1. /\ pc = "sample" /\ pc' = "schedule" /\ prevIdx' = Placed
      /\ UNCHANGED <<mode, align, live, todo, batch, owner, slot, torn>>
  BY DEF Sample
<1>2. PICK a \in [Scheduled -> 0 .. K] :
        /\ \A r \in Scheduled : a[r] <= so.draft[r]
        /\ true' = [r \in Req |-> IF r \in Scheduled
                       THEN true[r] + so.tok[r] - (so.draft[r] - a[r]) ELSE true[r]]
        /\ took' = [r \in Req |-> IF r \in Scheduled THEN a[r] ELSE took[r]]
        /\ CopyAccepted(a)
  BY DEF Sample
<1>3. /\ Types /\ Scheduled \subseteq Req /\ DOMAIN batch \subseteq Rows
      /\ \A i \in DOMAIN batch : batch[i] \in Scheduled
      /\ \A r \in Scheduled : RowOf(r) \in DOMAIN batch /\ batch[RowOf(r)] = r
  BY <1>1, RowFacts DEF Between
<1>4. /\ Scheduled \subseteq live /\ live \subseteq Req /\ todo \subseteq Req \ live
      /\ \A r \in Req : InBatch(r) => r \in Scheduled
  BY <1>1 DEF IInv, Types, Granted, HostSide, Between, InBatch
<1>5. ASSUME NEW r \in Scheduled
      PROVE  /\ true[r] \in Nat /\ so.tok[r] \in Nat /\ so.draft[r] \in Nat /\ a[r] \in Nat
             /\ a[r] \in 0 .. K /\ a[r] <= so.draft[r]
             /\ so.draft[r] > 0 => so.tok[r] = so.draft[r] + 1 /\ r \notin discard
             /\ true'[r] = true[r] + so.tok[r] - (so.draft[r] - a[r]) /\ took'[r] = a[r]
  <2>1. true[r] \in 0 .. MaxLen
    BY <1>3 DEF Types
  <2>2. so.tok[r] \in Nat \ {0} /\ so.draft[r] \in Nat
    BY <1>3, ScheduledFacts
  <2>3. a[r] \in 0 .. K /\ a[r] <= so.draft[r]
    BY <1>2
  <2>4. MaxLen \in Nat /\ K \in Nat
    BY Bounds
  <2>5. so.draft[r] > 0 => so.tok[r] = so.draft[r] + 1 /\ r \notin discard
    BY <1>1 DEF IInv, Granted, Launched
  <2>6. true'[r] = true[r] + so.tok[r] - (so.draft[r] - a[r]) /\ took'[r] = a[r]
    BY <1>2, <1>3
  <2>7. true[r] \in Nat /\ a[r] \in Nat
    BY <2>1, <2>3, <2>4
  <2> QED
    BY <2>2, <2>3, <2>5, <2>6, <2>7
<1>6. ASSUME NEW r \in Req, r \notin Scheduled PROVE true'[r] = true[r] /\ took'[r] = took[r]
  BY <1>2, <1>6
<1>7. Async' = Async /\ \A r \in Req : InBatch(r)' = InBatch(r) /\ GroupOf(r)' = GroupOf(r)
  BY <1>1 DEF Async, InBatch, GroupOf
<1>8. Ran /\ ~Ran' /\ Between'
  BY <1>1 DEF Ran, Between
<1>9. Owned'
  <2>1. took \in [Req -> 0 .. K]
    BY DEF SInv, Owned
  <2>2. took' \in [Req -> 0 .. K]
    BY <1>2, <2>1
  <2> QED
    BY <1>1, <2>2 DEF SInv, Owned
<1>10. Unstarted'
  <2> SUFFICES ASSUME NEW r \in todo PROVE true'[r] = 0 /\ took'[r] = 0 /\ prevIdx'[r] = 0
    BY <1>1 DEF Unstarted
  <2>1. r \in Req /\ r \notin Scheduled
    BY <1>4
  <2> QED
    BY <1>1, <1>6, <2>1 DEF SInv, Unstarted, Placed
<1>11. FirstChunk' /\ AcceptedDue' /\ Selected' /\ NotTorn'
  BY <1>1, <1>8 DEF FirstChunk, AcceptedDue, Selected, NotTorn
<1>12. NoCopy'
  BY <1>2, <1>7 DEF SInv, NoCopy, CopyAccepted
<1>13. DOMAIN Flat(a) = DOMAIN batch /\ \A i \in DOMAIN batch : Flat(a)[i] = a[batch[i]] + 1
  BY DEF Flat
<1>14. ASSUME ~Async PROVE AcceptedKept'
  <2>1. acc' = [i \in Rows |-> IF i \in DOMAIN batch THEN Flat(a)[i] ELSE acc[i]]
    BY <1>2, <1>14 DEF CopyAccepted
  <2>2. \A i \in DOMAIN batch : acc'[i] = Flat(a)[i]
    BY <1>3, <2>1
  <2>3. \A i \in DOMAIN batch : acc'[i] = took'[batch[i]] + 1
    BY <1>3, <1>5, <1>13, <2>2
  <2>4. accDue' = <<>>
    BY <1>7, <1>12, <1>14 DEF NoCopy
  <2> QED
    BY <1>1, <1>7, <1>14, <2>3, <2>4 DEF AcceptedKept
<1>15. ASSUME Async PROVE AcceptedKept'
  <2>1. accDue' = Flat(a)
    BY <1>2, <1>15 DEF CopyAccepted
  <2>2. DOMAIN accDue' = DOMAIN batch /\ \A i \in DOMAIN batch : Due(i)' = a[batch[i]] + 1
    BY <1>13, <2>1 DEF Due
  <2>3. ASSUME NEW r \in live, prevIdx'[r] > 0
        PROVE  /\ prevIdx'[r] \in DOMAIN batch /\ batch[prevIdx'[r]] = r
               /\ Due(prevIdx[r])' = took'[r] + 1
    <3>1. r \in Scheduled \ discard /\ prevIdx'[r] = RowOf(r)
      BY <1>1, <1>4, <2>3 DEF Placed
    <3>2. RowOf(r) \in DOMAIN batch /\ batch[RowOf(r)] = r
      BY <1>3, <3>1
    <3> DEFINE p == prevIdx'[r]
    <3>3. p \in DOMAIN batch /\ batch[p] = r
      BY <3>1, <3>2
    <3>4. Due(prevIdx[r])' = IF p \in DOMAIN accDue' THEN accDue'[p] ELSE acc'[p]
      BY DEF Due
    <3> HIDE DEF p
    <3>5. Due(prevIdx[r])' = a[r] + 1
      BY <1>13, <2>1, <2>2, <3>3, <3>4
    <3>6. took'[r] = a[r]
      BY <1>5, <3>1
    <3> QED
      BY <3>3, <3>5, <3>6 DEF p
  <2>4. ASSUME NEW r \in Scheduled, r \notin discard PROVE prevIdx'[r] > 0
    <3>1. prevIdx'[r] = RowOf(r)
      BY <1>1, <1>3, <1>15, <2>4 DEF Placed
    <3>2. RowOf(r) \in 1 .. MaxRows
      BY <1>3, Bounds
    <3> QED
      BY <3>1, <3>2, Bounds
  <2>5. ASSUME NEW r \in live, InBatch(r), took'[r] > 0 PROVE prevIdx'[r] > 0
    <3>1. r \in Scheduled
      BY <1>4, <2>5
    <3>2. so.draft[r] > 0
      BY <1>5, <2>5, <3>1
    <3> QED
      BY <1>5, <2>4, <3>1, <3>2
  <2>6. ASSUME ~Mapped', NEW i \in DOMAIN batch PROVE a[batch[i]] + 1 = 1
    <3>1. batch[i] \in Scheduled /\ ~(prevIdx'[batch[i]] > 0)
      BY <1>3, <2>6 DEF Mapped
    <3>2. batch[i] \in discard
      BY <2>4, <3>1
    <3>3. ~(so.draft[batch[i]] > 0)
      BY <1>5, <3>1, <3>2
    <3> QED
      BY <1>5, <3>1, <3>3
  <2>7. ~Mapped' => /\ \A i \in DOMAIN batch' : Due(i)' = 1
                    /\ \A i \in DOMAIN accDue' : accDue'[i] = 1
    BY <1>1, <1>13, <2>1, <2>2, <2>6
  <2>8. \A r \in live' :
            /\ prevIdx'[r] > 0 =>
                /\ Due(prevIdx[r])' = took'[r] + 1
                /\ batch' = <<>> \/ (prevIdx'[r] \in DOMAIN batch' /\ batch'[prevIdx'[r]] = r)
            /\ InBatch(r)' /\ took'[r] > 0 => prevIdx'[r] > 0
    BY <1>1, <1>4, <1>7, <2>3, <2>5
  <2> QED
    BY <1>1, <1>7, <1>15, <2>2, <2>7, <2>8 DEF AcceptedKept
<1>16. States'
  <2> SUFFICES ASSUME NEW r \in live, r \notin torn, true'[r] > 0 PROVE Holds(r)'
    BY <1>1, <1>8 DEF States
  <2>1. r \in Req /\ GroupOf(r)' = GroupOf(r)
    BY <1>4, <1>7
  <2> DEFINE mine == slot[GroupOf(r)]
  <2>2. Holds(r)' <=> IF took'[r] = 0 THEN mine[0] = Both(After(r, true'[r]))
                      ELSE /\ mine[took'[r]].s = After(r, true'[r])
                           /\ mine[0].w = After(r, true'[r] - took'[r])
    BY <1>1, <2>1 DEF Holds
  <2>3. CASE r \notin Scheduled
    <3>1. Holds(r)
      BY <1>6, <2>1, <2>3 DEF SInv, States
    <3> QED
      BY <1>6, <2>1, <2>2, <2>3, <3>1 DEF Holds
  <2>4. CASE r \in Scheduled
    <3>1. Computed(r)
      BY <1>8, <2>4 DEF SInv, States
    <3>2. /\ true[r] \in Nat /\ so.tok[r] \in Nat /\ so.draft[r] \in Nat /\ a[r] \in Nat
          /\ a[r] <= so.draft[r]
          /\ so.draft[r] > 0 => so.tok[r] = so.draft[r] + 1
          /\ true'[r] = true[r] + so.tok[r] - (so.draft[r] - a[r]) /\ took'[r] = a[r]
      BY <1>5, <2>4
    <3>3. CASE so.draft[r] = 0
      <4>1. mine[0] = Both(After(r, true[r] + so.tok[r]))
        BY <3>1, <3>3 DEF Computed
      <4>2. took'[r] = 0 /\ true'[r] = true[r] + so.tok[r]
        BY <3>2, <3>3
      <4> QED
        BY <2>2, <4>1, <4>2
    <3>4. CASE so.draft[r] # 0
      <4>1. /\ mine[0] = Both(After(r, true[r] + 1))
            /\ \A c \in 0 .. so.draft[r] : mine[c].s = After(r, true[r] + c + 1)
        BY <3>1, <3>4 DEF Computed
      <4>2. true'[r] = true[r] + a[r] + 1 /\ took'[r] = a[r] /\ true'[r] - a[r] = true[r] + 1
        BY <3>2, <3>4
      <4>3. a[r] = 0 => true'[r] = true[r] + 1
        BY <3>2, <4>2
      <4>4. a[r] \in 0 .. so.draft[r]
        BY <3>2
      <4>5. mine[a[r]].s = After(r, true'[r])
        <5>1. mine[a[r]].s = After(r, true[r] + a[r] + 1)
          <6>1. \A c \in 0 .. so.draft[r] : mine[c].s = After(r, true[r] + c + 1)
            BY <4>1
          <6> HIDE DEF mine
          <6> QED
            BY <4>4, <6>1
        <5> QED
          BY <4>2, <5>1
      <4>6. mine[0].w = After(r, true[r] + 1)
        <5>1. mine[0] = Both(After(r, true[r] + 1))
          BY <4>1
        <5> QED
          BY <5>1, BothFacts
      <4>7. CASE a[r] = 0
        BY <2>2, <4>1, <4>2, <4>3, <4>7
      <4>8. CASE a[r] # 0
        BY <2>2, <4>2, <4>5, <4>6, <4>8
      <4> QED
        BY <4>7, <4>8
    <3> QED
      BY <3>3, <3>4
  <2> QED
    BY <2>3, <2>4
<1> QED
  BY <1>9, <1>10, <1>11, <1>12, <1>14, <1>15, <1>16 DEF SInv

-----------------------------------------------------------------------------
(* The launch.                                                             *)

\* The rows of the round, those entering a block with their count reset.
LaunchRows(moving) ==
    [i \in DOMAIN BatchRows |->
        IF i \in moving THEN [BatchRows[i] EXCEPT !.sel = 1] ELSE BatchRows[i]]
DraftOf(r) == IF so.draft[r] > 0 THEN so.draft[r] ELSE -1

LEMMA RowFields ==
    ASSUME NEW r, NEW g, NEW ctx, NEW tok, NEW draft, NEW s
    PROVE  /\ Row(r, g, ctx, tok, draft, s).r = r
           /\ Row(r, g, ctx, tok, draft, s).g = g
           /\ Row(r, g, ctx, tok, draft, s).ctx = ctx
           /\ Row(r, g, ctx, tok, draft, s).tok = tok
           /\ Row(r, g, ctx, tok, draft, s).draft = draft
           /\ Row(r, g, ctx, tok, draft, s).sel = s
BY DEF Row

LEMMA RowReset ==
    ASSUME NEW r, NEW g, NEW ctx, NEW tok, NEW draft, NEW s
    PROVE  [Row(r, g, ctx, tok, draft, s) EXCEPT !.sel = 1] = Row(r, g, ctx, tok, draft, 1)
BY DEF Row

LEMMA LaunchRow ==
    ASSUME IInv, pc = "launch", NEW moving, NEW i \in DOMAIN batch
    PROVE  LaunchRows(moving)[i] =
                Row(batch[i], GroupOf(batch[i]), true[batch[i]], so.tok[batch[i]],
                    DraftOf(batch[i]), IF i \in moving THEN 1 ELSE sel[i])
<1> DEFINE r == batch[i]
           d == IF Given /\ so.draft[r] > 0 /\ cpu[r] >= Prompt[r] THEN so.draft[r] ELSE -1
<1>1. r \in Scheduled /\ r \in Req /\ Types
  BY RowFacts DEF Between
<1>2. gpu[i] = true[r]
  BY DEF IInv, Launched, CountsExact
<1>3. BatchRows[i] = Row(r, GroupOf(r), gpu[i], so.tok[r], d, sel[i])
  BY DEF BatchRows
<1>4. DOMAIN BatchRows = DOMAIN batch
  BY DEF BatchRows
<1>5. so.draft[r] > 0 => cpu[r] >= Prompt[r]
  <2> SUFFICES ASSUME so.draft[r] > 0 PROVE cpu[r] >= Prompt[r]
    OBVIOUS
  <2>1. true[r] >= Prompt[r]
    BY <1>1 DEF IInv, Granted
  <2>2. true[r] \in Nat /\ Prompt[r] \in Nat
    <3>1. true[r] \in 0 .. MaxLen
      BY <1>1 DEF Types
    <3> QED
      BY <1>1, <3>1, Bounds
  <2>3. HostSide /\ ~Between
    BY DEF IInv, Between
  <2>4. CASE \A e \in deferred : e[1] # r
    BY <1>1, <2>1, <2>3, <2>4 DEF HostSide
  <2>5. ASSUME NEW e \in deferred, e[1] = r PROVE cpu[r] >= Prompt[r]
    <3>1. /\ valid[prevIdx[r]] \in 1 .. e[2] + 1 /\ e[2] \in Nat
          /\ cpu[r] = true[r] + e[2] + 1 - valid[prevIdx[r]]
      BY <2>3, <2>5 DEF HostSide
    <3> QED
      BY <2>1, <2>2, <3>1
  <2> QED
    BY <2>4, <2>5
<1>6. d = DraftOf(r)
  <2>1. so.draft[r] > 0 => Given
    BY <1>1 DEF Given
  <2> QED
    BY <1>5, <2>1 DEF DraftOf
<1> HIDE DEF d
<1>7. BatchRows[i] = Row(r, GroupOf(r), true[r], so.tok[r], DraftOf(r), sel[i])
  BY <1>2, <1>3, <1>6
<1>8. CASE i \in moving
  <2>1. LaunchRows(moving)[i] = [BatchRows[i] EXCEPT !.sel = 1]
    BY <1>4, <1>8 DEF LaunchRows
  <2> HIDE DEF r
  <2>2. LaunchRows(moving)[i] = Row(r, GroupOf(r), true[r], so.tok[r], DraftOf(r), 1)
    BY <1>7, <2>1, RowReset
  <2> QED
    BY <1>8, <2>2 DEF r
<1>9. CASE i \notin moving
  <2>1. LaunchRows(moving)[i] = BatchRows[i]
    BY <1>4, <1>9 DEF LaunchRows
  <2> QED
    BY <1>7, <1>9, <2>1
<1> QED
  BY <1>8, <1>9

\* The same by field.
LEMMA LaunchFields ==
    ASSUME IInv, pc = "launch", NEW moving, NEW i \in DOMAIN batch
    PROVE  LET w == LaunchRows(moving)[i]
               r == batch[i]
           IN  /\ w.r = r /\ w.g = GroupOf(r) /\ w.ctx = true[r] /\ w.tok = so.tok[r]
               /\ w.draft = DraftOf(r) /\ w.sel = IF i \in moving THEN 1 ELSE sel[i]
<1> DEFINE r == batch[i]
           s == IF i \in moving THEN 1 ELSE sel[i]
           w == LaunchRows(moving)[i]
<1>1. w = Row(r, GroupOf(r), true[r], so.tok[r], DraftOf(r), s)
  BY LaunchRow
<1> HIDE DEF r, s, w
<1>2. /\ w.r = r /\ w.g = GroupOf(r) /\ w.ctx = true[r] /\ w.tok = so.tok[r]
      /\ w.draft = DraftOf(r) /\ w.sel = s
  BY <1>1, RowFields
<1> QED
  BY <1>2 DEF r, s, w

LEMMA LaunchBatch ==
    ASSUME IInv, SInv, pc = "launch", NEW moving
    PROVE  LET rows == LaunchRows(moving)
           IN  /\ DOMAIN rows = DOMAIN batch /\ Batch(rows) /\ Apart(rows)
               /\ SpecRows(rows) = {i \in DOMAIN batch : so.draft[batch[i]] > 0}
<1> DEFINE rows == LaunchRows(moving)
<1>1. DOMAIN rows = DOMAIN batch
  BY DEF LaunchRows, BatchRows
<1>2. /\ Types /\ \A i \in DOMAIN batch : batch[i] \in Scheduled /\ batch[i] \in Req
      /\ Owned /\ Scheduled \subseteq live
  BY RowFacts DEF IInv, SInv, Granted, Between
<1>3. \A i \in DOMAIN batch :
        /\ rows[i].g = GroupOf(batch[i]) /\ rows[i].tok = so.tok[batch[i]]
        /\ rows[i].draft = DraftOf(batch[i])
  BY LaunchFields
<1> HIDE DEF rows
<1>4. Apart(rows)
  <2> SUFFICES ASSUME NEW i \in DOMAIN batch, NEW j \in DOMAIN batch, rows[i].g = rows[j].g
               PROVE  i = j
    BY <1>1 DEF Apart
  <2>1. GroupOf(batch[i]) = GroupOf(batch[j])
    BY <1>3
  <2>2. batch[i] = batch[j]
    BY <1>2, <2>1, OwnerFacts
  <2>3. IsInjective(batch)
    BY <1>2 DEF Types
  <2> QED
    BY <2>2, <2>3 DEF IsInjective
<1>5. Batch(rows)
  <2>1. DOMAIN batch = 1 .. Len(batch) /\ Len(batch) \in Nat
    <3>1. batch \in Seq(Req)
      BY <1>2 DEF Types
    <3> QED
      BY <3>1
  <2>2. \A i \in DOMAIN batch : rows[i].tok \in Nat
    BY <1>2, <1>3, ScheduledFacts
  <2>3. Sized(rows, 1 .. Len(batch))
    BY <2>1, <2>2 DEF Sized
  <2> QED
    BY <1>1, <2>1, <2>3 DEF Batch
<1>6. SpecRows(rows) = {i \in DOMAIN batch : so.draft[batch[i]] > 0}
  <2>1. \A i \in DOMAIN batch : so.draft[batch[i]] \in Nat
    BY <1>2, ScheduledFacts
  <2>2. \A i \in DOMAIN batch :
            /\ rows[i].draft >= 0 <=> so.draft[batch[i]] > 0
            /\ rows[i].draft >= 0 => rows[i].draft # 0
    BY <1>3, <2>1 DEF DraftOf
  <2>3. {i \in DOMAIN rows : rows[i].draft >= 0} =
            {i \in DOMAIN batch : so.draft[batch[i]] > 0}
    BY <1>1, <2>2
  <2> QED
    BY <1>1, <2>2, <2>3 DEF SpecRows
<1> QED
  BY <1>1, <1>4, <1>5, <1>6 DEF rows

\* A count of one selects the first column.
LEMMA FirstColumn ==
    ASSUME NEW rows, NEW given, NEW i, rows[i].sel = 1
    PROVE  OneColumn(rows, given, i) = 0
<1> DEFINE z == 1 - 1
           b == Min({z, K})
<1>1. z = 0 /\ z \in Int /\ K \in Int /\ K >= 0 /\ 0 \in Int
  BY GdnAssumption
<1>2. SelectColumn(1) = Max({0, b})
  BY DEF SelectColumn
<1>3. b = Min({z, K})
  OBVIOUS
<1> HIDE DEF z, b
<1>4. b \in {z, K} /\ b <= z /\ b <= K
  BY <1>1, <1>3, MinPair
<1>5. b = 0
  BY <1>1, <1>4
<1>6. Max({0, b}) \in {0, b}
  BY <1>1, <1>5, MaxPair
<1>7. SelectColumn(1) = 0
  BY <1>2, <1>5, <1>6
<1> QED
  BY <1>7 DEF OneColumn

\* What Holds says, whether or not drafts were accepted.
LEMMA HeldParts ==
    ASSUME NEW r \in Req, true[r] \in Nat, Holds(r)
    PROVE  LET mine == slot[GroupOf(r)]
           IN  /\ mine[took[r]].s = After(r, true[r])
               /\ mine[0].w = After(r, true[r] - took[r])
               /\ took[r] = 0 => mine[0] = Both(After(r, true[r]))
<1>1. CASE took[r] = 0
  <2>1. slot[GroupOf(r)][0] = Both(After(r, true[r]))
    BY <1>1 DEF Holds
  <2>2. true[r] - took[r] = true[r]
    BY <1>1
  <2> QED
    BY <1>1, <2>1, <2>2, BothFacts
<1>2. CASE took[r] # 0
  BY <1>2 DEF Holds
<1> QED
  BY <1>1, <1>2

\* The slots of a row of the round when the kernels run: after the copies of
\* align mode, the selector the row has is the one its slots need.
LEMMA EnteredRow ==
    ASSUME IInv, SInv, pc = "launch",
           NEW moving \in SUBSET {i \in DOMAIN batch : gpu[i] > 0},
           NEW i \in DOMAIN batch, batch[i] \notin torn
    PROVE  LET r == batch[i]
               k == IF i \in moving THEN 0 ELSE took[r]
               mine == Rollover(slot, BatchRows, moving)[GroupOf(r)]
           IN  /\ LaunchRows(moving)[i].sel = k + 1 /\ k \in 0 .. K
               /\ DOMAIN mine = Columns
               /\ true[r] > 0 => /\ mine[k].s = After(r, true[r])
                                 /\ mine[0].w = After(r, true[r] - k)
                                 /\ k = 0 => mine[0] = Both(After(r, true[r]))
<1> DEFINE r == batch[i]
           k == IF i \in moving THEN 0 ELSE took[r]
           g == GroupOf(r)
           mine == Rollover(slot, BatchRows, moving)[g]
<1>1. /\ r \in Scheduled /\ r \in Req /\ Types /\ Owned /\ r \in live
      /\ took[r] \in 0 .. K /\ K \in Nat
  BY RowFacts, GdnAssumption DEF IInv, SInv, Owned, Granted, Between
<1>2. true[r] \in Nat
  <2>1. true[r] \in 0 .. MaxLen
    BY <1>1 DEF Types
  <2> QED
    BY <2>1, Bounds
<1>3. sel[i] = took[r] + 1
  BY DEF SInv, Selected, Ran
<1>4. LaunchRows(moving)[i].sel = IF i \in moving THEN 1 ELSE sel[i]
  BY LaunchFields
<1>5. g \in Groups /\ DOMAIN slot = Groups /\ DOMAIN slot[g] = Columns
  BY <1>1, OwnerFacts DEF Owned
<1>6. true[r] > 0 => Holds(r)
  BY <1>1 DEF SInv, States, Ran
<1>7. BatchRows = LaunchRows({})
  BY DEF LaunchRows, BatchRows
<1>8. /\ DOMAIN BatchRows = DOMAIN batch /\ Apart(BatchRows)
  BY <1>7, LaunchBatch
<1>9. BatchRows[i].r = r /\ BatchRows[i].g = g /\ BatchRows[i].sel = sel[i]
  BY <1>7, LaunchFields
<1>10. gpu[i] = true[r]
  BY DEF IInv, Launched, CountsExact
<1>11. moving \in SUBSET DOMAIN BatchRows
  BY <1>8
<1> HIDE DEF r, g, mine
<1>12. /\ DOMAIN mine = Columns
       /\ (\A j \in moving : BatchRows[j].g # g) => mine = slot[g]
       /\ \A j \in moving : BatchRows[j].g = g =>
                mine = [slot[g] EXCEPT ![0] = VerifyStart(slot, BatchRows[j])]
  <2>1. Movable(BatchRows, moving, slot, g)
    BY <1>5, <1>8, <1>11 DEF Movable
  <2>2. DOMAIN mine = Columns
    BY <2>1, RolloverOwn DEF mine
  <2>3. (\A j \in moving : BatchRows[j].g # g) => mine = slot[g]
    BY <2>1, RolloverOwn DEF mine
  <2>4. \A j \in moving : BatchRows[j].g = g =>
                mine = [slot[g] EXCEPT ![0] = VerifyStart(slot, BatchRows[j])]
    BY <2>1, RolloverOwn DEF mine
  <2> QED
    BY <2>2, <2>3, <2>4
<1>13. CASE i \in moving
  <2>1. true[r] > 0
    BY <1>10, <1>13
  <2>2. /\ slot[g][took[r]].s = After(r, true[r])
        /\ slot[g][0].w = After(r, true[r] - took[r])
    BY <1>1, <1>2, <1>6, <2>1, HeldParts DEF g
  <2>3. VerifyStart(slot, BatchRows[i]) = Both(After(r, true[r]))
    <3> DEFINE w == BatchRows[i]
    <3>1. w.r = r /\ w.g = g /\ w.sel = took[r] + 1
      BY <1>3, <1>9
    <3> HIDE DEF w
    <3>2. slot[w.g][took[r]].s = After(w.r, true[r]) /\ slot[w.g][0].w = After(w.r, true[r] - took[r])
      BY <2>2, <3>1
    <3>3. VerifyStart(slot, w) = Both(After(w.r, true[r]))
      BY <1>1, <1>2, <3>1, <3>2, VerifiedStart
    <3> QED
      BY <3>1, <3>3 DEF w
  <2>4. mine = [slot[g] EXCEPT ![0] = Both(After(r, true[r]))]
    BY <1>9, <1>12, <1>13, <2>3
  <2>5. 0 \in Columns
    BY <1>1 DEF Columns
  <2>6. mine[0] = Both(After(r, true[r]))
    BY <1>5, <2>4, <2>5
  <2>7. mine[0].s = After(r, true[r]) /\ mine[0].w = After(r, true[r])
    BY <2>6, BothFacts
  <2>8. k = 0 /\ true[r] - 0 = true[r] /\ k \in 0 .. K /\ k + 1 = 1
    BY <1>1, <1>2, <1>13
  <2> QED
    BY <1>4, <1>12, <1>13, <2>6, <2>7, <2>8 DEF r, g, mine
<1>14. CASE i \notin moving
  <2>1. \A j \in moving : BatchRows[j].g # g
    <3> SUFFICES ASSUME NEW j \in moving, BatchRows[j].g = g PROVE FALSE
      OBVIOUS
    <3>1. j \in DOMAIN BatchRows /\ i \in DOMAIN BatchRows /\ i # j
      BY <1>8, <1>11, <1>14
    <3> QED
      BY <1>8, <1>9, <3>1 DEF Apart
  <2>2. mine = slot[g]
    BY <1>12, <2>1
  <2>3. k = took[r]
    BY <1>14
  <2>4. true[r] > 0 => /\ slot[g][took[r]].s = After(r, true[r])
                       /\ slot[g][0].w = After(r, true[r] - took[r])
                       /\ took[r] = 0 => slot[g][0] = Both(After(r, true[r]))
    BY <1>1, <1>2, <1>6, HeldParts DEF g
  <2> HIDE DEF k
  <2>5. LaunchRows(moving)[i].sel = k + 1 /\ k \in 0 .. K
    BY <1>1, <1>3, <1>4, <1>14, <2>3
  <2> QED
    BY <1>12, <2>2, <2>3, <2>4, <2>5 DEF r, g, mine, k
<1> QED
  BY <1>13, <1>14

\* A row of the round starts from its request's state, and leaves one.
LEMMA LaunchedRow ==
    ASSUME IInv, SInv, pc = "launch",
           NEW moving \in SUBSET {i \in DOMAIN batch : gpu[i] > 0},
           NEW i \in DOMAIN batch, batch[i] \notin torn
    PROVE  LET r    == batch[i]
               rows == LaunchRows(moving)
               now  == Rollover(slot, BatchRows, moving)
               new  == IF i \in SpecRows(rows) THEN VerifyWrites(now, rows[i], TRUE)
                       ELSE OneWrites(now, rows, Given, i, TRUE)
           IN  /\ InitialState(now, rows, Given, i) = Both(After(r, true[r]))
               /\ so.draft[r] = 0 => new[0] = Both(After(r, true[r] + so.tok[r]))
               /\ so.draft[r] # 0 =>
                    /\ new[0] = Both(After(r, true[r] + 1))
                    /\ \A c \in 0 .. so.draft[r] : new[c].s = After(r, true[r] + c + 1)
<1> DEFINE r    == batch[i]
           rows == LaunchRows(moving)
           now  == Rollover(slot, BatchRows, moving)
           w    == rows[i]
           k    == IF i \in moving THEN 0 ELSE took[r]
           mine == now[GroupOf(r)]
<1>1. /\ r \in Scheduled /\ r \in Req /\ Types /\ K \in Nat
      /\ so.draft[r] \in Nat /\ so.tok[r] \in Nat
  BY RowFacts, ScheduledFacts, GdnAssumption DEF Between
<1>2. true[r] \in Nat
  <2>1. true[r] \in 0 .. MaxLen
    BY <1>1 DEF Types
  <2> QED
    BY <2>1, Bounds
<1>3. /\ so.draft[r] <= K /\ (so.draft[r] > 0 => true[r] >= Prompt[r])
      /\ Prompt[r] > 0 /\ (true[r] = 0 => so.tok[r] >= 2)
      /\ took[r] = 0 \/ so.draft[r] > 0
  <2>1. so.draft[r] <= K /\ (so.draft[r] > 0 => true[r] >= Prompt[r])
    BY <1>1 DEF IInv, Granted
  <2>2. Prompt[r] > 0
    BY <1>1, Bounds
  <2>3. true[r] = 0 => so.tok[r] >= 2
    BY <1>1 DEF SInv, FirstChunk
  <2>4. took[r] = 0 \/ so.draft[r] > 0
    BY <1>1 DEF SInv, NotTorn, Between
  <2> QED
    BY <2>1, <2>2, <2>3, <2>4
<1>4. /\ w.r = r /\ w.g = GroupOf(r) /\ w.ctx = true[r] /\ w.tok = so.tok[r]
      /\ w.draft = DraftOf(r)
  BY LaunchFields
<1>5. /\ DOMAIN rows = DOMAIN batch
      /\ SpecRows(rows) = {j \in DOMAIN batch : so.draft[batch[j]] > 0}
  BY LaunchBatch
<1>6. /\ w.sel = k + 1 /\ k \in 0 .. K /\ DOMAIN mine = Columns
      /\ true[r] > 0 => /\ mine[k].s = After(r, true[r])
                        /\ mine[0].w = After(r, true[r] - k)
                        /\ k = 0 => mine[0] = Both(After(r, true[r]))
  BY EnteredRow
<1>7. ASSUME so.draft[r] = 0 PROVE k = 0
  <2>1. ~(so.draft[r] > 0)
    BY <1>7
  <2> QED
    BY <1>3, <2>1
<1> HIDE DEF r, rows, now, w, k
<1>8. CASE so.draft[r] > 0
  <2>1. i \in SpecRows(rows)
    BY <1>5, <1>8 DEF r
  <2>2. true[r] > 0
    <3>1. Prompt[r] \in Nat
      BY <1>1, Bounds
    <3> QED
      BY <1>2, <1>3, <1>8, <3>1
  <2>3. w.draft = so.draft[r] /\ w.draft \in 0 .. K
    BY <1>1, <1>3, <1>4, <1>8 DEF DraftOf
  <2>4. now[w.g][k].s = After(w.r, true[r]) /\ now[w.g][0].w = After(w.r, true[r] - k)
    BY <1>4, <1>6, <2>2
  <2>5. w.sel = k + 1 /\ k \in 0 .. K
    BY <1>6
  <2>6. VerifyStart(now, w) = Both(After(w.r, true[r]))
    BY <1>2, <2>4, <2>5, VerifiedStart
  <2>7. VerifyWrites(now, w, TRUE)[0] = Both(After(w.r, true[r] + 1))
    BY <1>2, <2>3, <2>4, <2>5, VerifiedRow
  <2>8. \A c \in 0 .. w.draft : VerifyWrites(now, w, TRUE)[c].s = After(w.r, true[r] + c + 1)
    BY <1>2, <2>3, <2>4, <2>5, VerifiedRow
  <2>9. InitialState(now, rows, Given, i) = VerifyStart(now, w)
    BY <2>1 DEF InitialState, w
  <2> DEFINE left == VerifyWrites(now, w, TRUE)
  <2> HIDE DEF left
  <2>10. /\ left[0] = Both(After(r, true[r] + 1))
         /\ \A c \in 0 .. so.draft[r] : left[c].s = After(r, true[r] + c + 1)
    BY <1>4, <2>3, <2>7, <2>8 DEF left
  <2>11. (IF i \in SpecRows(rows) THEN VerifyWrites(now, rows[i], TRUE)
          ELSE OneWrites(now, rows, Given, i, TRUE)) = left
    BY <2>1 DEF left, w
  <2>12. so.draft[r] # 0
    BY <1>8
  <2> QED
    BY <1>4, <2>6, <2>9, <2>10, <2>11, <2>12 DEF r, rows, now
<1>9. CASE so.draft[r] = 0
  <2>1. i \notin SpecRows(rows) /\ i \in DOMAIN rows
    BY <1>5, <1>9 DEF r
  <2>2. k = 0 /\ w.sel = 1
    <3>1. k = 0 /\ w.sel = k + 1
      BY <1>6, <1>7, <1>9
    <3> QED
      BY <3>1
  <2>3. OneColumn(rows, Given, i) = 0
    BY <2>2, FirstColumn DEF w
  <2>4. OneStart(now, rows, Given, i) = Both(After(r, true[r]))
    <3>1. CASE true[r] = 0
      <4>1. Prefills(rows) # {}
        <5>1. w.tok > 1
          BY <1>1, <1>3, <1>4, <3>1
        <5> QED
          BY <2>1, <5>1 DEF Prefills, w
      <4> QED
        BY <1>4, <3>1, <4>1 DEF OneStart, w
    <3>2. CASE true[r] # 0
      <4>1. true[r] > 0
        BY <1>2, <3>2
      <4>2. mine[0] = Both(After(r, true[r]))
        BY <1>6, <2>2, <4>1
      <4>3. w.ctx # 0
        BY <1>4, <3>2
      <4> QED
        BY <1>4, <2>3, <4>2, <4>3 DEF OneStart, w
    <3> QED
      BY <3>1, <3>2
  <2>5. 0 \in DOMAIN now[rows[i].g]
    <3>1. 0 \in Columns
      BY <1>1 DEF Columns
    <3> QED
      BY <1>4, <1>6, <3>1 DEF w
  <2>6. rows[i].tok = so.tok[r] /\ rows[i].r = r
    BY <1>4 DEF w
  <2>7. OneStart(now, rows, Given, i) = Both(After(rows[i].r, true[r]))
    BY <2>4, <2>6
  <2>8. OneWrites(now, rows, Given, i, TRUE)[0] = Both(After(rows[i].r, true[r] + so.tok[r]))
    BY <2>3, <2>5, <2>6, <2>7, PlainRow
  <2> DEFINE left == OneWrites(now, rows, Given, i, TRUE)
  <2> HIDE DEF left
  <2>9. left[0] = Both(After(r, true[r] + so.tok[r]))
    BY <2>6, <2>8 DEF left
  <2>10. (IF i \in SpecRows(rows) THEN VerifyWrites(now, rows[i], TRUE)
          ELSE OneWrites(now, rows, Given, i, TRUE)) = left
    BY <2>1 DEF left
  <2>11. InitialState(now, rows, Given, i) = Both(After(r, true[r]))
    BY <2>1, <2>4 DEF InitialState
  <2> QED
    BY <1>9, <2>9, <2>10, <2>11 DEF r, rows, now
<1> QED
  BY <1>1, <1>8, <1>9

LEMMA LaunchStates == IInv /\ SInv /\ Launch => SInv'
<1> SUFFICES ASSUME IInv, SInv, Launch PROVE SInv'
  OBVIOUS
<1>1. /\ pc = "launch" /\ pc' = IF deferred # {} THEN "correct" ELSE "sample"
      /\ UNCHANGED <<mode, align, live, todo, true, prevIdx, so, batch, owner, accDue, took,
                     torn>>
  BY DEF Launch, counts
<1>2. PICK moving \in SUBSET {i \in DOMAIN batch : gpu[i] > 0} :
        /\ slot' = Forward(Rollover(slot, BatchRows, moving), LaunchRows(moving), Given,
                           GraphRows(LaunchRows(moving), Given, buf))
        /\ start' = [r \in Req |->
                IF r \in Scheduled
                THEN InitialState(Rollover(slot, BatchRows, moving), LaunchRows(moving), Given,
                                  RowOf(r))
                ELSE start[r]]
  BY DEF Launch, LaunchRows
<1> DEFINE rows == LaunchRows(moving)
           now  == Rollover(slot, BatchRows, moving)
<1>3. /\ Types /\ Scheduled \subseteq Req /\ Owned /\ Scheduled \subseteq live /\ live \subseteq Req
      /\ \A i \in DOMAIN batch : batch[i] \in Scheduled
      /\ \A r \in Scheduled : RowOf(r) \in DOMAIN batch /\ batch[RowOf(r)] = r
  <2>1. /\ Types /\ Scheduled \subseteq Req
        /\ \A i \in DOMAIN batch : batch[i] \in Scheduled
        /\ \A r \in Scheduled : RowOf(r) \in DOMAIN batch /\ batch[RowOf(r)] = r
    BY <1>1, RowFacts DEF Between
  <2> QED
    BY <1>1, <2>1 DEF IInv, SInv, Granted, Types
<1>4. ~Ran /\ Ran' /\ ~Between /\ ~Between'
  <2>1. align => deferred = {}
    BY <1>1 DEF IInv, HostSide, Between
  <2> QED
    BY <1>1, <2>1 DEF Ran, Between
<1>5. Scheduled' = Scheduled /\ \A r \in Req : GroupOf(r)' = GroupOf(r)
  BY <1>1 DEF Scheduled, GroupOf
<1>6. /\ DOMAIN rows = DOMAIN batch /\ Batch(rows) /\ Apart(rows)
      /\ \A i \in DOMAIN batch : rows[i].g = GroupOf(batch[i])
  BY <1>1, LaunchBatch, LaunchFields
<1>7. /\ DOMAIN BatchRows = DOMAIN batch /\ Apart(BatchRows)
      /\ \A i \in DOMAIN batch : BatchRows[i].g = GroupOf(batch[i])
  <2>1. BatchRows = LaunchRows({})
    BY DEF LaunchRows, BatchRows
  <2> QED
    BY <1>1, <2>1, LaunchBatch, LaunchFields
<1>8. DOMAIN now = Groups /\ DOMAIN slot = Groups /\ \A g \in Groups : DOMAIN slot[g] = Columns
  BY <1>3 DEF Owned, Rollover
<1> HIDE DEF rows, now
<1>9. DOMAIN slot' = Groups /\ \A g \in Groups : DOMAIN slot'[g] = Columns
  <2>1. slot' = Forward(now, rows, Given, GraphRows(rows, Given, buf))
    BY <1>2 DEF now, rows
  <2> QED
    BY <1>8, <2>1 DEF Forward
<1>10. Owned'
  BY <1>1, <1>3, <1>9 DEF Owned
<1>11. Unstarted' /\ FirstChunk' /\ NoCopy'
  BY <1>1, <1>5 DEF SInv, Unstarted, FirstChunk, NoCopy, Async
<1>12. AcceptedKept' /\ AcceptedDue' /\ Selected'
  BY <1>1, <1>4 DEF AcceptedKept, AcceptedDue, Selected
<1>13. NotTorn'
  BY <1>1, <1>4, <1>5 DEF SInv, NotTorn
<1>14. ASSUME NEW r \in Scheduled, r \notin torn PROVE Computed(r)'
  <2> DEFINE i   == RowOf(r)
             g   == GroupOf(r)
             new == Left(now, rows, Given, i)
  <2>1. i \in DOMAIN batch /\ batch[i] = r /\ r \in Req /\ r \in live
    BY <1>3, <1>14
  <2>2. g \in Groups /\ g \in DOMAIN now
    BY <1>3, <1>8, <2>1, OwnerFacts
  <2>3. slot' = Passed(now, rows, Given, buf)
    BY <1>2 DEF now, rows, Passed
  <2>4. start'[r] = InitialState(now, rows, Given, i)
    BY <1>2, <1>14, <2>1 DEF now, rows
  <2> HIDE DEF i
  <2>5. rows[i].g = g /\ i \in DOMAIN rows
    BY <1>6, <2>1
  <2>6. /\ InitialState(now, rows, Given, i) = Both(After(r, true[r]))
        /\ so.draft[r] = 0 => new[0] = Both(After(r, true[r] + so.tok[r]))
        /\ so.draft[r] # 0 =>
             /\ new[0] = Both(After(r, true[r] + 1))
             /\ \A c \in 0 .. so.draft[r] : new[c].s = After(r, true[r] + c + 1)
    BY <1>1, <1>14, <2>1, LaunchedRow DEF now, rows, Left
  <2> HIDE DEF g
  <2>7. \A c \in Columns : slot'[g][c] = new[c]
    <3> SUFFICES ASSUME NEW c \in Columns PROVE slot'[g][c] = new[c]
      OBVIOUS
    <3>1. rows[i].g \in DOMAIN now
      BY <2>2, <2>5
    <3>2. Passed(now, rows, Given, buf)[rows[i].g][c] = Left(now, rows, Given, i)[c]
      BY <1>6, <2>5, <3>1, ForwardOwn
    <3> QED
      BY <2>3, <2>5, <3>2
  <2> HIDE DEF new
  <2>8. 0 \in Columns /\ \A c \in 0 .. so.draft[r] : c \in Columns
    <3>1. so.draft[r] \in Nat /\ so.draft[r] <= K /\ K \in Nat
      BY <1>1, <1>3, <1>14, ScheduledFacts, GdnAssumption DEF IInv, Granted
    <3> QED
      BY <3>1 DEF Columns
  <2>9. slot'[g][0] = new[0] /\ \A c \in 0 .. so.draft[r] : slot'[g][c] = new[c]
    BY <2>7, <2>8
  <2>10. GroupOf(r)' = g
    BY <1>5, <2>1 DEF g
  <2>11. start'[r] = Both(After(r, true[r]))
    BY <2>4, <2>6
  <2>12. CASE so.draft[r] = 0
    <3>1. slot'[g][0] = Both(After(r, true[r] + so.tok[r]))
      BY <2>6, <2>9, <2>12
    <3> QED
      BY <1>1, <2>10, <2>11, <2>12, <3>1 DEF Computed
  <2>13. CASE so.draft[r] # 0
    <3>1. /\ slot'[g][0] = Both(After(r, true[r] + 1))
          /\ \A c \in 0 .. so.draft[r] : slot'[g][c].s = After(r, true[r] + c + 1)
      BY <2>6, <2>9, <2>13
    <3> QED
      BY <1>1, <2>10, <2>11, <2>13, <3>1 DEF Computed
  <2> QED
    BY <2>12, <2>13
<1>15. ASSUME NEW r \in live, r \notin Scheduled, r \notin torn, true[r] > 0
       PROVE  Holds(r)'
  <2> DEFINE g == GroupOf(r)
  <2>1. Holds(r)
    BY <1>4, <1>15 DEF SInv, States
  <2>2. g \in Groups /\ g \in DOMAIN now /\ r \in Req
    BY <1>3, <1>8, <1>15, OwnerFacts
  <2>3. \A j \in DOMAIN batch : GroupOf(batch[j]) # g
    <3> SUFFICES ASSUME NEW j \in DOMAIN batch, GroupOf(batch[j]) = g PROVE FALSE
      OBVIOUS
    <3>1. batch[j] \in Scheduled /\ batch[j] \in live
      BY <1>3
    <3>2. batch[j] = r
      BY <1>3, <1>15, <3>1, OwnerFacts
    <3> QED
      BY <1>15, <3>1, <3>2
  <2>4. slot' = Passed(now, rows, Given, buf)
    BY <1>2 DEF now, rows, Passed
  <2> HIDE DEF g
  <2>5. Unused(rows, g)
    BY <1>6, <2>3 DEF Unused
  <2>6. \A c \in Columns : slot'[g][c] = now[g][c]
    <3> SUFFICES ASSUME NEW c \in Columns PROVE slot'[g][c] = now[g][c]
      OBVIOUS
    <3>1. Passed(now, rows, Given, buf)[g][c] = now[g][c]
      BY <1>6, <2>2, <2>5, ForwardOwn
    <3> QED
      BY <2>4, <3>1
  <2>7. \A j \in moving : BatchRows[j].g # g
    BY <1>7, <2>3
  <2>8. Movable(BatchRows, moving, slot, g)
    BY <1>7, <1>8, <2>2 DEF Movable
  <2>9. now[g] = slot[g]
    BY <2>7, <2>8, RolloverOwn DEF now
  <2>10. 0 \in Columns /\ took[r] \in Columns
    BY <1>3, <2>2, GdnAssumption DEF Owned, Columns
  <2>11. slot'[g][0] = slot[g][0] /\ slot'[g][took[r]] = slot[g][took[r]]
    BY <2>6, <2>9, <2>10
  <2>12. GroupOf(r)' = g
    BY <1>5, <2>2 DEF g
  <2> QED
    BY <1>1, <2>1, <2>11, <2>12 DEF Holds, g
<1>16. States'
  <2> SUFFICES ASSUME NEW r \in live, r \notin torn
               PROVE  IF r \in Scheduled THEN Computed(r)' ELSE true[r] > 0 => Holds(r)'
    BY <1>1, <1>4, <1>5 DEF States
  <2> QED
    BY <1>14, <1>15
<1> QED
  BY <1>10, <1>11, <1>12, <1>13, <1>16 DEF SInv

-----------------------------------------------------------------------------
(* The theorem.                                                            *)

LEMMA StepStates == IInv /\ SInv /\ Unsampled /\ [Next]_vars => SInv'
<1> SUFFICES ASSUME IInv, SInv, Unsampled, [Next]_vars PROVE SInv'
  OBVIOUS
<1>1. CASE Schedule
  BY <1>1, ScheduleStates
<1>2. CASE UpdateStates
  BY <1>2, UpdateStatesOwn
<1>3. CASE Prepare
  BY <1>3, PrepareStates
<1>4. CASE Launch
  BY <1>4, LaunchStates
<1>5. CASE Correct
  BY <1>5, CorrectStates
<1>6. CASE Sample
  BY <1>6, SampleStates
<1>7. CASE LandAccepted
  BY <1>7, LandStates
<1>8. CASE UNCHANGED vars
  BY <1>8, StutterStates
<1> QED
  BY <1>1, <1>2, <1>3, <1>4, <1>5, <1>6, <1>7, <1>8 DEF Next

-----------------------------------------------------------------------------
(* The tokens the rows of a round are fed.                                 *)

\* Where the device finds what it sampled for a request that is running.
Remembered ==
    \A r \in live : Async /\ prevIdx[r] > 0 =>
        /\ prevIdx[r] \in DOMAIN last /\ last[prevIdx[r]] = <<r, true[r]>>
        /\ true[r] >= Prompt[r]

\* A decoding request that kept its row has such a place.
Gathered ==
    Between => \A r \in live : Async /\ InBatch(r) /\ true[r] >= Prompt[r] => prevIdx[r] > 0

\* A round is one token of a request and its drafts, or prompt tokens; drafts
\* are sent for requests only that have some on the device.
Drafted ==
    pc # "schedule" =>
        \A r \in Scheduled :
            /\ true[r] >= Prompt[r] => so.tok[r] = so.draft[r] + 1
            /\ true[r] < Prompt[r] => true[r] + so.tok[r] <= Prompt[r] /\ so.draft[r] = 0
            /\ so.draft[r] > 0 => fits /\ (Async => prevIdx[r] > 0)

\* The requests that sample are those whose prompt ends in this round, if not
\* before.
Sampling ==
    pc \in {"launch", "correct", "sample"} =>
        \A r \in Scheduled : r \notin discard <=> true[r] + so.tok[r] >= Prompt[r]

FInv == Remembered /\ Gathered /\ Drafted /\ Sampling

LEMMA InitFed == Init => FInv
  BY DEF Init, FInv, Remembered, Gathered, Drafted, Sampling

LEMMA ScheduleFed == IInv /\ SInv /\ FInv /\ Schedule => FInv'
<1> SUFFICES ASSUME IInv, SInv, FInv, Schedule PROVE FInv'
  OBVIOUS
<1>1. /\ pc = "schedule" /\ pc' = "update"
      /\ UNCHANGED <<mode, true, fits, batch, prevIdx, last>>
  BY DEF Schedule
<1>2. PICK gone \in SUBSET {r \in live : Some(r)}, come \in SUBSET todo :
        \E n \in 1 .. Chunk, skip \in SUBSET (live \ gone) :
            /\ so' = SchedulerOutput(((live \ gone) \union come) \ skip, n)
            /\ live' = (live \ gone) \union come
  BY DEF Schedule
<1>3. PICK n \in 1 .. Chunk, skip \in SUBSET (live \ gone) :
            /\ so' = SchedulerOutput(((live \ gone) \union come) \ skip, n)
            /\ live' = (live \ gone) \union come
  BY <1>2
<1>4. ASSUME NEW r \in Req
      PROVE  /\ so'.tok[r] = IF r \in live' \ skip THEN Grant(r, n) ELSE 0
             /\ so'.draft[r] = IF so'.tok[r] > 0 /\ Some(r) THEN so'.tok[r] - 1 ELSE 0
  BY <1>3 DEF SchedulerOutput
<1>5. Types /\ live \subseteq Req /\ todo \subseteq Req
  BY DEF IInv, Types
<1>6. ASSUME NEW r \in live', r \notin live PROVE true[r] = 0 /\ prevIdx[r] = 0 /\ r \in Req
  BY <1>2, <1>3, <1>5, <1>6 DEF SInv, Unstarted
<1>7. ASSUME NEW r \in Req
      PROVE  /\ true[r] \in Nat /\ Prompt[r] \in Nat /\ 2 <= Prompt[r]
             /\ InBatch(r)' = InBatch(r)
  BY <1>1, <1>5, Bounds DEF Types, InBatch
<1>8. Async' = Async
  BY <1>1 DEF Async
<1>9. Remembered'
  BY <1>1, <1>6, <1>8 DEF FInv, Remembered
<1>10. Gathered'
  <2> SUFFICES ASSUME NEW r \in live', Async, InBatch(r), true[r] >= Prompt[r], r \in Req
               PROVE  prevIdx[r] > 0
    BY <1>1, <1>5, <1>6, <1>7, <1>8 DEF Gathered
  <2>1. r \in live
    BY <1>6, <1>7
  <2> QED
    BY <1>1, <2>1 DEF FInv, Gathered, Between
<1>11. ASSUME NEW r \in Scheduled'
       PROVE  /\ true[r] >= Prompt[r] => so'.tok[r] = so'.draft[r] + 1
              /\ true[r] < Prompt[r] => true[r] + so'.tok[r] <= Prompt[r] /\ so'.draft[r] = 0
              /\ so'.draft[r] > 0 => fits /\ (Async => prevIdx[r] > 0)
  <2>1. r \in Req /\ so'.tok[r] > 0
    BY DEF Scheduled
  <2>2. r \in live' /\ so'.tok[r] = Grant(r, n)
    BY <1>4, <2>1
  <2>3. /\ Grant(r, n) \in Int
        /\ true[r] < Prompt[r] => Grant(r, n) <= Prompt[r] - true[r]
    BY <1>5, <2>1, GrantBounds
  <2>4. CASE true[r] < Prompt[r]
    <3>1. ~Some(r)
      BY <1>7, <2>1, <2>4 DEF Some
    <3> QED
      BY <1>4, <1>7, <2>1, <2>2, <2>3, <2>4, <3>1
  <2>5. CASE true[r] >= Prompt[r]
    <3>1. r \in live /\ Some(r)
      BY <1>6, <1>7, <2>1, <2>2, <2>5 DEF Some
    <3>2. so'.draft[r] = so'.tok[r] - 1
      BY <1>4, <2>1, <3>1
    <3>3. ASSUME so'.draft[r] > 0 PROVE Offered(r) # 0
      <4>1. Grant(r, n) > 1
        BY <2>2, <2>3, <3>2, <3>3
      <4> DEFINE a == 1 + Offered(r)
                 b == MaxLen - 1 - Sent(r)
      <4>2. a \in Int /\ b \in Int
        <5>1. Sent(r) \in Nat
          BY <1>5, <2>1, GrantBounds
        <5>2. Offered(r) \in {K, 0}
          BY DEF Offered
        <5> QED
          BY <5>1, <5>2, Bounds
      <4>3. Grant(r, n) = Min({a, b})
        <5>1. ~(true[r] < Prompt[r])
          BY <1>7, <2>1, <2>5
        <5> QED
          BY <5>1 DEF Grant
      <4>4. a = 1 + Offered(r)
        OBVIOUS
      <4> HIDE DEF a, b
      <4>5. Grant(r, n) <= a
        BY <4>2, <4>3, MinPair
      <4> QED
        BY <2>3, <4>1, <4>2, <4>4, <4>5
    <3>4. ASSUME so'.draft[r] > 0 PROVE fits /\ (Async => prevIdx[r] > 0)
      <4>1. fits /\ (Async => InBatch(r))
        BY <3>3, <3>4 DEF Offered, InBatch
      <4> QED
        BY <1>1, <2>5, <3>1, <4>1 DEF FInv, Gathered, Between
    <3>5. so'.tok[r] \in Int
      BY <2>2, <2>3
    <3> QED
      BY <1>7, <2>1, <2>5, <3>2, <3>4, <3>5
  <2> QED
    BY <1>7, <2>1, <2>4, <2>5
<1>12. Drafted'
  BY <1>1, <1>8, <1>11 DEF Drafted
<1>13. Sampling'
  BY <1>1 DEF Sampling
<1> QED
  BY <1>9, <1>10, <1>12, <1>13 DEF FInv

LEMMA UpdateFed == IInv /\ FInv /\ UpdateStates => FInv'
<1> SUFFICES ASSUME IInv, FInv, UpdateStates PROVE FInv'
  OBVIOUS
<1>1. /\ pc = "update"
      /\ pc' = IF Scheduled = {} THEN "schedule" ELSE "prepare"
      /\ UNCHANGED <<mode, live, fits, so, prevIdx, last>>
      /\ true' = [r \in Req |-> Stay(true, r)]
  BY DEF UpdateStates
<1>2. Types /\ live \subseteq Req /\ Scheduled \subseteq live /\ Scheduled' = Scheduled
  BY <1>1 DEF IInv, Types, Granted, Scheduled
<1>3. \A r \in live : true'[r] = true[r]
  BY <1>1, <1>2 DEF Stay
<1>4. Async' = Async
  BY <1>1 DEF Async
<1>5. Remembered'
  BY <1>1, <1>3, <1>4 DEF FInv, Remembered
<1>6. Gathered'
  <2>1. PICK new \in Orders({r \in Scheduled : ~InBatch(r)}) :
            batch' \in Reordered(Condense(new))
    BY DEF UpdateStates
  <2>2. ToSet(batch') = Scheduled
    <3>1. IsFiniteSet(Scheduled) /\ Scheduled \subseteq Req
      BY <1>2, ScheduledFacts
    <3> QED
      BY <1>2, <2>1, <3>1, ReorderArranges DEF Types
  <2>3. Between' => \A r : ~InBatch(r)'
    BY <1>1, <2>2 DEF Between, InBatch
  <2> QED
    BY <2>3 DEF Gathered
<1>7. Drafted'
  BY <1>1, <1>2, <1>3, <1>4 DEF FInv, Drafted
<1>8. Sampling'
  BY <1>1 DEF Sampling
<1> QED
  BY <1>5, <1>6, <1>7, <1>8 DEF FInv

LEMMA PrepareFed == IInv /\ FInv /\ Prepare => FInv'
<1> SUFFICES ASSUME IInv, FInv, Prepare PROVE FInv'
  OBVIOUS
<1>1. /\ pc = "prepare" /\ pc' \in {"correct", "launch"}
      /\ UNCHANGED <<mode, live, true, fits, so, prevIdx, batch, last>>
      /\ discard' = {r \in Scheduled : cpu[r] + so.tok[r] < Prompt[r] + out[r]}
  BY DEF Prepare, counts
<1>2. Types /\ Scheduled \subseteq live /\ live \subseteq Req /\ Scheduled' = Scheduled
  BY <1>1 DEF IInv, Types, Granted, Scheduled
<1>3. Async' = Async
  BY <1>1 DEF Async
<1>4. Remembered' /\ Drafted'
  BY <1>1, <1>2, <1>3 DEF FInv, Remembered, Drafted
<1>5. Gathered'
  BY <1>1 DEF Gathered, Between
<1>6. ASSUME NEW r \in Scheduled
      PROVE  r \notin discard' <=> true[r] + so.tok[r] >= Prompt[r]
  <2>1. /\ true[r] \in Nat /\ cpu[r] \in Nat /\ out[r] \in Nat /\ Prompt[r] \in Nat
        /\ so.tok[r] \in Nat \ {0}
    <3>1. r \in Req /\ so.tok[r] \in Nat \ {0}
      BY <1>2, ScheduledFacts
    <3>2. true[r] \in 0 .. MaxLen /\ cpu[r] \in 0 .. MaxLen /\ out[r] \in Nat
      BY <1>2, <3>1 DEF Types
    <3> QED
      BY <3>1, <3>2, Bounds
  <2>2. r \in discard' <=> cpu[r] + so.tok[r] < Prompt[r] + out[r]
    BY <1>1
  <2>3. out[r] > 0 => Prompt[r] + out[r] <= cpu[r] + 1
    BY <1>1 DEF IInv, Prepared
  <2>4. CASE cpu[r] = true[r]
    BY <2>1, <2>2, <2>3, <2>4
  <2>5. CASE cpu[r] # true[r]
    <3>1. HostSide /\ ~Between
      BY <1>1 DEF IInv, Between
    <3>2. PICK d \in deferred : d[1] = r
      BY <2>5, <3>1 DEF HostSide
    <3>3. /\ prevIdx[r] > 0 /\ mode = "async" /\ d[2] \in Nat
          /\ valid[prevIdx[r]] \in 1 .. d[2] + 1
          /\ cpu[r] = true[r] + d[2] + 1 - valid[prevIdx[r]]
      BY <3>1, <3>2 DEF HostSide
    <3>4. true[r] >= Prompt[r] /\ cpu[r] >= true[r]
      <4>1. true[r] >= Prompt[r]
        BY <1>2, <3>3 DEF FInv, Remembered, Async
      <4> QED
        BY <2>1, <3>3, <4>1
    <3> QED
      BY <2>1, <2>2, <2>3, <3>4
  <2> QED
    BY <2>4, <2>5
<1>7. Sampling'
  BY <1>1, <1>2, <1>6 DEF Sampling
<1> QED
  BY <1>4, <1>5, <1>7 DEF FInv

\* The steps that move no request's counts.
LEMMA OtherFed ==
    ASSUME FInv, UNCHANGED <<mode, live, true, fits, so, prevIdx, batch, last, discard>>,
           \/ pc' = pc
           \/ pc \in {"launch", "correct"} /\ pc' \in {"launch", "correct", "sample"}
    PROVE  FInv'
<1>1. Scheduled' = Scheduled /\ Async' = Async /\ \A r : InBatch(r)' = InBatch(r)
  BY DEF Scheduled, Async, InBatch
<1>2. Remembered' /\ Drafted'
  BY <1>1 DEF FInv, Remembered, Drafted
<1>3. Gathered'
  BY <1>1 DEF FInv, Gathered, Between
<1>4. Sampling'
  BY <1>1 DEF FInv, Sampling
<1> QED
  BY <1>2, <1>3, <1>4 DEF FInv

LEMMA SampleFed == IInv /\ FInv /\ Sample => FInv'
<1> SUFFICES ASSUME IInv, FInv, Sample PROVE FInv'
  OBVIOUS
<1>1. /\ pc = "sample" /\ pc' = "schedule" /\ prevIdx' = Placed
      /\ UNCHANGED <<mode, live, batch>>
  BY DEF Sample
<1>2. PICK a \in [Scheduled -> 0 .. K] :
        /\ \A r \in Scheduled : a[r] <= so.draft[r]
        /\ true' = [r \in Req |-> IF r \in Scheduled
                       THEN true[r] + so.tok[r] - (so.draft[r] - a[r]) ELSE true[r]]
        /\ last' = IF Async THEN [i \in DOMAIN batch |-> NextToken(a, i)] ELSE last
  BY DEF Sample
<1>3. /\ Types /\ Scheduled \subseteq Req
      /\ \A r \in Scheduled : RowOf(r) \in DOMAIN batch /\ batch[RowOf(r)] = r
      /\ \A r \in Req : InBatch(r) => r \in Scheduled
  BY <1>1, RowFacts DEF IInv, HostSide, Between, InBatch
<1>4. live \subseteq Req /\ Async' = Async /\ \A r : InBatch(r)' = InBatch(r)
  BY <1>1, <1>3 DEF Types, Async, InBatch
<1>5. ASSUME NEW r \in Scheduled
      PROVE  /\ true'[r] = true[r] + so.tok[r] - (so.draft[r] - a[r])
             /\ r \notin discard <=> true'[r] >= Prompt[r]
  <2>1. /\ true[r] \in Nat /\ Prompt[r] \in Nat /\ a[r] \in Nat /\ a[r] <= so.draft[r]
        /\ so.tok[r] \in Nat \ {0} /\ so.draft[r] \in Nat
    <3>1. r \in Req /\ so.tok[r] \in Nat \ {0} /\ so.draft[r] \in Nat
      BY <1>3, ScheduledFacts
    <3>2. true[r] \in 0 .. MaxLen /\ a[r] \in 0 .. K /\ a[r] <= so.draft[r]
      BY <1>2, <1>3, <3>1 DEF Types
    <3> QED
      BY <3>1, <3>2, Bounds
  <2>2. true'[r] = true[r] + so.tok[r] - (so.draft[r] - a[r])
    BY <1>2, <1>3
  <2>3. /\ true[r] >= Prompt[r] => so.tok[r] = so.draft[r] + 1
        /\ true[r] < Prompt[r] => so.draft[r] = 0
        /\ r \notin discard <=> true[r] + so.tok[r] >= Prompt[r]
    BY <1>1 DEF FInv, Drafted, Sampling
  <2>4. CASE true[r] >= Prompt[r]
    <3>1. true'[r] = true[r] + 1 + a[r]
      BY <2>1, <2>2, <2>3, <2>4
    <3> QED
      BY <2>1, <2>2, <2>3, <2>4, <3>1
  <2>5. CASE true[r] < Prompt[r]
    <3>1. true'[r] = true[r] + so.tok[r]
      BY <2>1, <2>2, <2>3, <2>5
    <3> QED
      BY <2>2, <2>3, <3>1
  <2> QED
    BY <2>1, <2>4, <2>5
<1>6. Remembered'
  <2> SUFFICES ASSUME NEW r \in live, Async, prevIdx'[r] > 0
               PROVE  /\ prevIdx'[r] \in DOMAIN last' /\ last'[prevIdx'[r]] = <<r, true'[r]>>
                      /\ true'[r] >= Prompt[r]
    BY <1>1, <1>4 DEF Remembered
  <2>1. r \in Req /\ r \in Scheduled \ discard /\ prevIdx'[r] = RowOf(r)
    BY <1>1, <1>4 DEF Placed
  <2>2. RowOf(r) \in DOMAIN batch /\ batch[RowOf(r)] = r /\ true'[r] >= Prompt[r]
    BY <1>3, <1>5, <2>1
  <2>3. gpu[RowOf(r)] = true[r]
    BY <1>1, <2>2 DEF IInv, Launched, CountsExact
  <2>4. last'[RowOf(r)] = NextToken(a, RowOf(r)) /\ RowOf(r) \in DOMAIN last'
    BY <1>2, <2>2
  <2>5. NextToken(a, RowOf(r)) = <<r, true'[r]>>
    BY <1>5, <2>1, <2>2, <2>3 DEF NextToken
  <2> QED
    BY <2>1, <2>2, <2>4, <2>5
<1>7. Gathered'
  <2> SUFFICES ASSUME NEW r \in live, Async, InBatch(r), true'[r] >= Prompt[r]
               PROVE  prevIdx'[r] > 0
    BY <1>1, <1>4 DEF Gathered
  <2>1. r \in Req /\ r \in Scheduled \ discard
    BY <1>3, <1>4, <1>5
  <2>2. prevIdx'[r] = RowOf(r) /\ RowOf(r) \in DOMAIN batch
    BY <1>1, <1>3, <2>1 DEF Placed
  <2>3. DOMAIN batch = 1 .. Len(batch)
    BY <1>3 DEF Types
  <2> QED
    BY <2>2, <2>3
<1>8. Drafted' /\ Sampling'
  BY <1>1 DEF Drafted, Sampling
<1> QED
  BY <1>6, <1>7, <1>8 DEF FInv

LEMMA StepFed == IInv /\ SInv /\ FInv /\ [Next]_vars => FInv'
<1> SUFFICES ASSUME IInv, SInv, FInv, [Next]_vars PROVE FInv'
  OBVIOUS
<1>1. CASE Schedule
  BY <1>1, ScheduleFed
<1>2. CASE UpdateStates
  BY <1>2, UpdateFed
<1>3. CASE Prepare
  BY <1>3, PrepareFed
<1>4. CASE Launch
  <2>1. /\ pc = "launch" /\ pc' \in {"correct", "sample"}
        /\ UNCHANGED <<mode, live, true, fits, so, prevIdx, batch, last, discard>>
    BY <1>4 DEF Launch, counts
  <2> QED
    BY <2>1, OtherFed
<1>5. CASE Correct
  <2>1. /\ pc = "correct" /\ pc' \in {"launch", "sample"}
        /\ UNCHANGED <<mode, live, true, fits, so, prevIdx, batch, last, discard>>
    BY <1>5 DEF Correct, device
  <2> QED
    BY <2>1, OtherFed
<1>6. CASE Sample
  BY <1>6, SampleFed
<1>7. CASE LandAccepted
  <2>1. UNCHANGED <<mode, live, true, fits, so, prevIdx, batch, last, discard, pc>>
    BY <1>7 DEF LandAccepted, counts, device
  <2> QED
    BY <2>1, OtherFed
<1>8. CASE UNCHANGED vars
  <2>1. UNCHANGED <<mode, live, true, fits, so, prevIdx, batch, last, discard, pc>>
    BY <1>8 DEF vars, counts, device
  <2> QED
    BY <2>1, OtherFed
<1> QED
  BY <1>1, <1>2, <1>3, <1>4, <1>5, <1>6, <1>7, <1>8 DEF Next

-----------------------------------------------------------------------------
(* The counts of rows that did not sample, and the invariant as a whole.   *)

\* What a round leaves of rows that did not sample: they held partial prompts,
\* before this round as well, and a partial prompt accepts no drafts.
LEMMA SampleUnsampled == IInv /\ FInv /\ Unsampled /\ Sample => Unsampled'
<1> SUFFICES ASSUME IInv, FInv, Unsampled, Sample PROVE Unsampled'
  OBVIOUS
<1>1. pc = "sample" /\ pc' = "schedule" /\ prevIdx' = Placed /\ mode' = mode /\ batch' = batch
  BY DEF Sample
<1>2. PICK a \in [Scheduled -> 0 .. K] :
        (\A r \in Scheduled : a[r] <= so.draft[r]) /\ CopyAccepted(a)
  BY DEF Sample
<1>3. /\ Types /\ Scheduled \subseteq live /\ Scheduled \subseteq Req /\ DOMAIN batch \subseteq Rows
      /\ \A i \in DOMAIN batch : batch[i] \in Scheduled
      /\ \A r \in Scheduled : RowOf(r) \in DOMAIN batch
  BY <1>1, RowFacts DEF Between, IInv, Granted
<1>4. ASSUME Async, ~Mapped', NEW i \in DOMAIN batch PROVE acc[i] = 1 /\ a[batch[i]] = 0
  <2> DEFINE r == batch[i]
  <2>1. r \in Scheduled /\ r \in live /\ r \in Req /\ RowOf(r) > 0
    BY <1>3, Bounds
  <2>2. r \in discard
    <3>1. prevIdx'[r] = IF r \notin discard THEN RowOf(r) ELSE 0
      BY <1>1, <1>4, <2>1 DEF Placed
    <3>2. ~(prevIdx'[r] > 0)
      BY <1>4, <2>1 DEF Mapped
    <3> QED
      BY <2>1, <3>1, <3>2
  <2>3. /\ true[r] \in Nat /\ so.tok[r] \in Nat /\ so.draft[r] \in Nat /\ prevIdx[r] \in Nat
        /\ Prompt[r] \in Nat /\ a[r] \in Nat
    <3>1. true[r] \in 0 .. MaxLen /\ prevIdx[r] \in 0 .. MaxRows
      BY <1>3, <2>1 DEF Types
    <3>2. so.tok[r] \in Nat \ {0} /\ so.draft[r] \in Nat
      BY <1>3, <2>1, ScheduledFacts
    <3>3. Prompt[r] \in 2 .. MaxLen - 2 /\ a[r] \in 0 .. K
      BY <1>2, <2>1, SpecRoundAssumption
    <3> QED
      BY <3>1, <3>2, <3>3, Bounds
  <2>4. prevIdx[r] = 0
    <3>1. ~(true[r] + so.tok[r] >= Prompt[r])
      BY <1>1, <2>1, <2>2 DEF FInv, Sampling
    <3>2. prevIdx[r] > 0 => true[r] >= Prompt[r]
      BY <1>4, <2>1 DEF FInv, Remembered
    <3> QED
      BY <2>3, <3>1, <3>2
  <2>5. a[r] = 0
    <3>1. ~(so.draft[r] > 0)
      BY <1>1, <2>1, <2>2 DEF IInv, Launched
    <3>2. a[r] <= so.draft[r]
      BY <1>2, <2>1
    <3> QED
      BY <2>3, <3>1, <3>2
  <2>6. acc[i] = 1
    BY <1>1, <1>4, <2>4 DEF Unsampled, Running, PrevPos
  <2> QED
    BY <2>5, <2>6
<1>5. Async => acc' = acc /\ accDue' = [i \in DOMAIN batch |-> a[batch[i]] + 1]
  BY <1>2 DEF CopyAccepted, Flat
<1> QED
  BY <1>1, <1>4, <1>5 DEF Unsampled, Running, Async

LEMMA StepUnsampled == IInv /\ SInv /\ FInv /\ Unsampled /\ [Next]_vars => Unsampled'
<1> SUFFICES ASSUME IInv, SInv, FInv, Unsampled, [Next]_vars PROVE Unsampled'
  OBVIOUS
<1>1. Types /\ DOMAIN batch \subseteq Rows
  <2>1. batch \in Seq(Req) /\ Len(batch) <= MaxRows
    BY DEF IInv, Types
  <2>2. DOMAIN batch = 1 .. Len(batch) /\ Len(batch) \in Nat
    BY <2>1
  <2> QED
    BY <2>1, <2>2, Bounds DEF IInv
<1>2. CASE Schedule
  <2>1. /\ pc = "schedule" /\ pc' = "update"
        /\ UNCHANGED <<mode, batch, prevIdx, acc, accDue>>
    BY <1>2 DEF Schedule, copies
  <2> QED
    BY <2>1 DEF Unsampled, Running, Async, Mapped
<1>3. CASE UpdateStates
  <2>1. /\ pc = "update" /\ pc' \in {"schedule", "prepare"}
        /\ UNCHANGED <<mode, prevIdx, accDue>>
        /\ acc' = [i \in Rows |-> IF i \notin DOMAIN batch' THEN acc[i]
                                  ELSE IF InBatch(batch'[i]) THEN acc[RowOf(batch'[i])] ELSE 1]
    BY <1>3 DEF UpdateStates
  <2>2. DOMAIN batch' \subseteq Rows
    <3>1. batch' \in Seq(Req) /\ Len(batch') <= MaxRows
      BY <1>3, UpdateInv DEF IInv, Types
    <3>2. DOMAIN batch' = 1 .. Len(batch') /\ Len(batch') \in Nat
      BY <3>1
    <3> QED
      BY <3>1, <3>2, Bounds
  <2>3. ASSUME NEW r, InBatch(r) PROVE RowOf(r) \in DOMAIN batch
    <3>1. \E j \in DOMAIN batch : batch[j] = r
      BY <2>3 DEF InBatch, ToSet
    <3> QED
      BY <3>1 DEF RowOf
  <2>4. ASSUME Async, ~Mapped, NEW i \in DOMAIN batch' PROVE acc'[i] = 1
    <3>1. \A j \in DOMAIN batch : acc[j] = 1
      BY <2>1, <2>4 DEF Unsampled, Running
    <3> QED
      BY <2>1, <2>2, <2>3, <2>4, <3>1
  <2> QED
    BY <2>1, <2>4 DEF Unsampled, Running, Async, Mapped
<1>4. CASE Prepare
  <2>1. /\ pc = "prepare" /\ pc' \in {"correct", "launch"} /\ accDue = <<>>
        /\ UNCHANGED <<mode, batch, prevIdx, accDue>>
        /\ acc' = [i \in Rows |-> IF i \in DOMAIN batch THEN Accepted(i) ELSE acc[i]]
    BY <1>4 DEF Prepare, counts
  <2>2. ASSUME Async, NEW i \in DOMAIN batch, PrevPos(i) = 0 PROVE acc'[i] = 1
    <3>1. acc'[i] = Accepted(i)
      BY <1>1, <2>1, <2>2
    <3>2. ~Mapped => acc[i] = 1
      BY <2>1, <2>2 DEF Unsampled, Running
    <3> QED
      BY <2>2, <3>1, <3>2 DEF Accepted
  <2> QED
    BY <2>1, <2>2 DEF Unsampled, Running, Async, PrevPos
<1>5. CASE Launch
  <2>1. /\ pc = "launch" /\ pc' \in {"correct", "sample"}
        /\ UNCHANGED <<mode, batch, prevIdx, accDue>>
        /\ \E moving : acc' = [i \in Rows |-> IF i \in moving THEN 1 ELSE acc[i]]
    BY <1>5 DEF Launch, counts
  <2> QED
    BY <1>1, <2>1 DEF Unsampled, Running, Async, PrevPos
<1>6. CASE Correct
  <2>1. /\ pc = "correct" /\ pc' \in {"launch", "sample"}
        /\ UNCHANGED <<mode, batch, prevIdx, acc, accDue>>
    BY <1>6 DEF Correct, copies
  <2> QED
    BY <2>1 DEF Unsampled, Running, Async, PrevPos
<1>7. CASE Sample
  BY <1>7, SampleUnsampled
<1>8. CASE LandAccepted
  <2>1. /\ accDue # <<>> /\ accDue' = <<>>
        /\ UNCHANGED <<mode, pc, batch, prevIdx>>
        /\ acc' = [i \in Rows |-> IF i \in DOMAIN accDue THEN accDue[i] ELSE acc[i]]
    BY <1>8 DEF LandAccepted, counts
  <2>2. DOMAIN accDue' = {}
    BY <2>1
  <2> QED
    BY <1>1, <2>1, <2>2 DEF Unsampled, Running, Async, Mapped
<1>9. CASE UNCHANGED vars
  <2>1. UNCHANGED <<mode, pc, batch, prevIdx, acc, accDue>>
    BY <1>9 DEF vars, counts, copies
  <2> QED
    BY <2>1 DEF Unsampled, Running, Async, Mapped, PrevPos
<1> QED
  BY <1>2, <1>3, <1>4, <1>5, <1>6, <1>7, <1>8, <1>9 DEF Next

AllInv == IInv /\ SInv /\ FInv /\ Unsampled

LEMMA AllInvAlways == Spec => []AllInv
<1>1. Init => AllInv
  <2>1. Init => Unsampled
    <3> SUFFICES ASSUME Init PROVE Unsampled
      OBVIOUS
    <3>1. pc = "schedule" /\ batch = <<>> /\ accDue = <<>>
      BY DEF Init
    <3>2. DOMAIN batch = {} /\ DOMAIN accDue = {}
      BY <3>1
    <3> QED
      BY <3>1, <3>2 DEF Unsampled, Running
  <2> QED
    BY <2>1, InitInv, InitStates, InitFed DEF AllInv
<1>2. AllInv /\ [Next]_vars => AllInv'
  BY StepInv, StepStates, StepFed, StepUnsampled DEF AllInv
<1> QED
  BY <1>1, <1>2, PTL DEF Spec

\* Each row of a round starts from the recurrent state and the convolution
\* window after exactly its request's computed tokens, whatever was accepted
\* in its last round, whenever the host hears of it, and whoever joins, leaves,
\* is moved to another row, held the slots before or is replayed beside it
\* (GDNAttentionMetadataBuilder.build, the gated-delta-net cores,
\* _update_states, _prepare_inputs, preprocess_mamba); except after a round
\* without drafts, or a gap, that follows accepted drafts, and after an exchange
\* of rows with counts that had landed.
THEOREM StatesFollow == Spec => []StateCurrent
<1>1. IInv /\ SInv => StateCurrent
  <2> SUFFICES ASSUME IInv, SInv, pc = "sample", NEW r \in Scheduled \ torn
               PROVE  start[r] = Both(After(r, true[r]))
    BY DEF StateCurrent
  <2>1. Ran /\ r \in live
    BY DEF IInv, Granted, Ran
  <2>2. Computed(r)
    BY <2>1 DEF SInv, States
  <2> QED
    BY <2>2 DEF Computed
<1> QED
  BY <1>1, AllInvAlways, PTL DEF AllInv

-----------------------------------------------------------------------------
(* The places of the tokens.                                               *)

\* The rows of a round lie end to end.
LEMMA RowWidths ==
    ASSUME IInv, pc = "prepare"
    PROVE  /\ Len(batch) \in Nat /\ DOMAIN batch = 1 .. Len(batch)
           /\ Lengths(RowTokens) /\ Len(RowTokens) = Len(batch)
           /\ Lengths(RowDrafts) /\ Len(RowDrafts) = Len(batch)
           /\ Lengths(RowSampled) /\ Len(RowSampled) = Len(batch)
           /\ \A i \in 1 .. Len(batch) :
                /\ batch[i] \in Scheduled /\ batch[i] \in Req
                /\ RowTokens[i] = so.tok[batch[i]] /\ so.tok[batch[i]] \in Nat \ {0}
                /\ RowDrafts[i] = so.draft[batch[i]] /\ so.draft[batch[i]] \in Nat
                /\ RowSampled[i] = so.draft[batch[i]] + 1
<1>1. Types /\ Scheduled \subseteq Req /\ \A i \in DOMAIN batch : batch[i] \in Scheduled
  BY RowFacts DEF Between
<1>2. Len(batch) \in Nat /\ DOMAIN batch = 1 .. Len(batch)
  BY <1>1 DEF Types
<1>3. ASSUME NEW i \in 1 .. Len(batch)
      PROVE  /\ batch[i] \in Scheduled /\ batch[i] \in Req
             /\ so.tok[batch[i]] \in Nat \ {0} /\ so.draft[batch[i]] \in Nat
  BY <1>1, <1>2, ScheduledFacts
<1>4. RowTokens \in Seq(Nat) /\ Len(RowTokens) = Len(batch)
  BY <1>2, <1>3 DEF RowTokens
<1>5. RowDrafts \in Seq(Nat) /\ Len(RowDrafts) = Len(batch)
  BY <1>2, <1>3 DEF RowDrafts
<1>6. RowSampled \in Seq(Nat) /\ Len(RowSampled) = Len(batch)
  BY <1>2, <1>3 DEF RowSampled
<1>7. Lengths(RowTokens) /\ Lengths(RowDrafts) /\ Lengths(RowSampled)
  <2>1. \A s \in Seq(Nat) : Lengths(s)
    BY DEF Lengths
  <2> QED
    BY <1>4, <1>5, <1>6, <2>1
<1>8. \A i \in 1 .. Len(batch) :
        /\ RowTokens[i] = so.tok[batch[i]] /\ RowDrafts[i] = so.draft[batch[i]]
        /\ RowSampled[i] = so.draft[batch[i]] + 1
  BY <1>2 DEF RowTokens, RowDrafts, RowSampled
<1> QED
  BY <1>2, <1>3, <1>4, <1>5, <1>6, <1>7, <1>8

\* What a row has on the device, or else on the host.
LEMMA RowSource ==
    ASSUME IInv, FInv, pc = "prepare", NEW i \in DOMAIN batch
    PROVE  LET r == batch[i] IN
           /\ true[r] \in Nat
           /\ i \in Common =>
                /\ last[PrevPos(i)] = <<r, true[r]>> /\ so.tok[r] = so.draft[r] + 1
                /\ so.draft[r] > 0 => fits
           /\ i \notin Common => \A j \in 1 .. so.tok[r] :
                                    Host(r, cpu[r] + j - 1) = <<r, true[r] + j - 1>>
<1> DEFINE r == batch[i]
<1>1. /\ Types /\ r \in Scheduled /\ r \in Req /\ r \in live
      /\ so.tok[r] \in Nat \ {0} /\ so.draft[r] \in Nat
  BY RowFacts, ScheduledFacts DEF Between, IInv, Granted
<1>2. true[r] \in Nat /\ Prompt[r] \in Nat /\ prevIdx[r] \in Nat
  <2>1. true[r] \in 0 .. MaxLen /\ prevIdx[r] \in 0 .. MaxRows
    BY <1>1 DEF Types
  <2> QED
    BY <1>1, <2>1, Bounds
<1>3. /\ true[r] >= Prompt[r] => so.tok[r] = so.draft[r] + 1
      /\ true[r] < Prompt[r] => true[r] + so.tok[r] <= Prompt[r] /\ so.draft[r] = 0
      /\ so.draft[r] > 0 => fits /\ (Async => prevIdx[r] > 0)
  BY <1>1 DEF FInv, Drafted
<1>4. i \in Common <=> Async /\ prevIdx[r] > 0
  BY DEF Common, PrevPos
<1>5. ASSUME i \in Common
      PROVE  /\ last[PrevPos(i)] = <<r, true[r]>> /\ so.tok[r] = so.draft[r] + 1
             /\ so.draft[r] > 0 => fits
  <2>1. last[prevIdx[r]] = <<r, true[r]>> /\ true[r] >= Prompt[r]
    BY <1>1, <1>4, <1>5 DEF FInv, Remembered
  <2> QED
    BY <1>3, <2>1 DEF PrevPos
<1>6. ASSUME i \notin Common, NEW j \in 1 .. so.tok[r]
      PROVE  Host(r, cpu[r] + j - 1) = <<r, true[r] + j - 1>>
  <2>1. cpu[r] = true[r]
    <3>1. HostSide /\ ~Between
      BY DEF IInv, Between
    <3>2. \A d \in deferred : d[1] # r
      BY <1>4, <1>6, <3>1 DEF HostSide, Async
    <3> QED
      BY <1>1, <3>1, <3>2 DEF HostSide
  <2>2. CASE ~Async
    BY <2>1, <2>2 DEF Host
  <2>3. CASE true[r] < Prompt[r]
    <3>1. j \in Nat /\ true[r] + j - 1 < Prompt[r]
      BY <1>1, <1>2, <1>3, <2>3
    <3> QED
      BY <2>1, <3>1 DEF Host
  <2>4. CASE Async /\ true[r] >= Prompt[r]
    <3>1. prevIdx[r] = 0
      BY <1>2, <1>4, <1>6, <2>4
    <3>2. so.tok[r] = 1
      BY <1>1, <1>2, <1>3, <2>4, <3>1
    <3>3. j = 1 /\ cpu[r] + j - 1 = cpu[r]
      BY <1>2, <2>1, <3>2
    <3> QED
      BY <2>1, <3>1, <3>3 DEF Host
  <2> QED
    BY <1>2, <2>2, <2>3, <2>4
<1> QED
  BY <1>2, <1>5, <1>6

\* The host's ids are left out only if every row has its token on the device.
LEMMA HostNeeded ==
    ASSUME IInv, FInv, pc = "prepare",
           LET known == [i \in DOMAIN batch |-> IF i \in Common THEN RowDrafts[i] ELSE 0]
           IN  ~(Cardinality(Common) < AllTokens - Ends(known)[Len(batch)])
    PROVE  Common = DOMAIN batch
<1> DEFINE known == [i \in DOMAIN batch |-> IF i \in Common THEN RowDrafts[i] ELSE 0]
           N == Len(batch)
<1>1. /\ N \in Nat /\ DOMAIN batch = 1 .. N /\ Lengths(RowTokens) /\ Len(RowTokens) = N
      /\ \A i \in 1 .. N : /\ RowTokens[i] = so.tok[batch[i]] /\ so.tok[batch[i]] \in Nat \ {0}
                           /\ RowDrafts[i] = so.draft[batch[i]] /\ so.draft[batch[i]] \in Nat
  BY RowWidths
<1>2. Lengths(known) /\ Len(known) = N
  <2>1. known \in Seq(Nat) /\ Len(known) = N
    BY <1>1
  <2>2. \A i \in 1 .. N : known[i] \in Nat
    BY <1>1
  <2> QED
    BY <1>1, <2>1, <2>2 DEF Lengths
<1>3. ASSUME NEW i \in 1 .. N PROVE RowTokens[i] > known[i]
  <2>1. i \in Common => so.tok[batch[i]] = so.draft[batch[i]] + 1
    BY <1>1, RowSource
  <2>2. known[i] = IF i \in Common THEN so.draft[batch[i]] ELSE 0
    BY <1>1
  <2> QED
    BY <1>1, <2>1, <2>2
<1> HIDE DEF known
<1>4. /\ Ends(RowTokens)[0] = 0 /\ Ends(known)[0] = 0
      /\ Ends(RowTokens)[N] \in Nat /\ Ends(known)[N] \in Nat
  <2>1. N \in 0 .. N
    BY <1>1
  <2> QED
    BY <1>1, <1>2, <2>1, EndsFacts
<1>5. Ends(RowTokens)[N] - Ends(RowTokens)[0] >= Ends(known)[N] - Ends(known)[0] + (N - 0)
  <2>1. N \in 0 .. N /\ 0 \in 0 .. N /\ 0 <= N
    BY <1>1
  <2> QED
    BY <1>1, <1>2, <1>3, <2>1, EndsApart
<1>6. AllTokens - Ends(known)[N] >= N
  BY <1>1, <1>4, <1>5 DEF AllTokens
<1>7. IsFiniteSet(1 .. N) /\ Cardinality(1 .. N) = N /\ Common \subseteq 1 .. N
  <2>1. Common \subseteq DOMAIN batch
    BY DEF Common
  <2>2. IsFiniteSet(1 .. N) /\ Cardinality(1 .. N) = N
    BY <1>1, FromOne
  <2> QED
    BY <1>1, <2>1, <2>2
<1>8. Cardinality(Common) \in Nat /\ IsFiniteSet(Common)
  BY <1>7, FS_Subset, FS_CardinalityType
<1>9. ~(Cardinality(Common) < AllTokens - Ends(known)[N])
  BY DEF known
<1>10. AllTokens - Ends(known)[N] \in Int
  BY <1>4 DEF AllTokens
<1>11. Cardinality(Common) >= N
  BY <1>1, <1>6, <1>8, <1>9, <1>10
<1>12. Cardinality(Common) <= N /\ (Cardinality(Common) = N => Common = 1 .. N)
  <2>1. Common \in SUBSET (1 .. N)
    BY <1>7
  <2> QED
    BY <1>7, <2>1, FS_Subset
<1> QED
  BY <1>1, <1>8, <1>11, <1>12

\* The slice that is copied is one of rows of one token each.
LEMMA SliceIsRows ==
    ASSUME IInv, FInv, pc = "prepare",
           Max({0} \union {LastAt(i) : i \in Common}) = Cardinality(Common)
    PROVE  /\ Cardinality(Common) \in Nat /\ Common = 1 .. Cardinality(Common)
           /\ \A i \in Common : LastAt(i) = i /\ LastAt(i - 1) = i - 1
<1> DEFINE N == Len(batch)
           E == Ends(RowTokens)
           m == Cardinality(Common)
           S == {0} \union {LastAt(i) : i \in Common}
<1>1. /\ N \in Nat /\ DOMAIN batch = 1 .. N /\ Lengths(RowTokens) /\ Len(RowTokens) = N
      /\ \A i \in 1 .. N : RowTokens[i] > 0
  BY RowWidths
<1>2. IsFiniteSet(1 .. N) /\ Common \subseteq 1 .. N
  <2>1. Common \subseteq DOMAIN batch
    BY DEF Common
  <2> QED
    BY <1>1, <2>1, FromOne
<1>3. IsFiniteSet(Common) /\ m \in Nat
  BY <1>2, FS_Subset, FS_CardinalityType
<1>4. \A i \in 0 .. N : E[i] \in Nat
  BY <1>1, EndsFacts
<1>5. E[0] = 0
  BY <1>1, EndsFacts
<1>6. \A i, j \in 0 .. N : i <= j => E[j] >= E[i] + (j - i)
  BY <1>1, EndsStrict
<1>7. \A i : LastAt(i) = E[i]
  BY DEF LastAt
<1> HIDE DEF E, m
<1>8. \A i \in Common : E[i] <= m
  <2>1. Max(S) = m
    BY DEF m
  <2>2. S \in SUBSET Nat /\ S # {} /\ \A x \in S : x <= E[N]
    <3>1. ASSUME NEW i \in Common PROVE E[i] \in Nat /\ E[i] <= E[N]
      <4>1. i \in 0 .. N /\ N \in 0 .. N /\ i <= N
        BY <1>1, <1>2
      <4>2. E[i] \in Nat /\ E[N] \in Nat /\ E[N] >= E[i] + (N - i)
        BY <1>4, <1>6, <4>1
      <4> QED
        BY <4>1, <4>2
    <3>2. E[N] \in Nat
      BY <1>1, <1>4
    <3> QED
      BY <1>7, <3>1, <3>2
  <2> HIDE DEF S
  <2>3. \E x \in S : \A y \in S : y <= x
    <3>1. E[N] \in Nat
      BY <1>1, <1>4
    <3>2. S \in SUBSET (0 .. E[N])
      BY <2>2, <3>1
    <3> QED
      BY <2>2, <3>1, <3>2, GreatestExists
  <2>4. \A y \in S : y <= Max(S)
    <3>1. PICK x \in S : \A y \in S : y <= x
      BY <2>3
    <3>2. \A y \in S : x >= y
      BY <2>2, <3>1
    <3> QED
      BY <2>2, <3>2 DEF Max
  <2>5. \A i \in Common : E[i] \in S
    BY <1>7 DEF S
  <2> QED
    BY <2>1, <2>4, <2>5
<1>9. Common \subseteq 1 .. m
  <2> SUFFICES ASSUME NEW i \in Common PROVE i \in 1 .. m
    OBVIOUS
  <2>1. i \in 1 .. N /\ i \in 0 .. N /\ 0 \in 0 .. N /\ 0 <= i
    BY <1>1, <1>2
  <2>2. E[i] >= E[0] + (i - 0) /\ E[i] \in Nat /\ E[i] <= m
    BY <1>4, <1>6, <1>8, <2>1
  <2> QED
    BY <1>3, <1>5, <2>1, <2>2
<1>10. Common = 1 .. m
  <2>1. IsFiniteSet(1 .. m) /\ Cardinality(1 .. m) = m
    BY <1>3, FromOne
  <2>2. Common \in SUBSET (1 .. m)
    BY <1>9
  <2>3. Cardinality(Common) = m => Common = 1 .. m
    BY <2>1, <2>2, FS_Subset
  <2> QED
    BY <2>3 DEF m
<1>11. ASSUME NEW i \in Common PROVE E[i] = i /\ E[i - 1] = i - 1
  <2>1. /\ i \in 1 .. m /\ m \in Common /\ m \in 1 .. N
    BY <1>2, <1>3, <1>10
  <2>2. i \in 0 .. N /\ i - 1 \in 0 .. N /\ m \in 0 .. N /\ 0 \in 0 .. N /\ i <= m /\ 0 <= i - 1
        /\ i - 1 <= i
    BY <1>1, <1>2, <2>1
  <2>3. E[m] >= E[i] + (m - i) /\ E[i] >= E[i - 1] + (i - (i - 1)) /\ E[i - 1] >= E[0] + ((i - 1) - 0)
    BY <1>6, <2>2
  <2>4. E[m] <= m /\ E[m] \in Nat /\ E[i] \in Nat /\ E[i - 1] \in Nat
    BY <1>4, <1>8, <2>1, <2>2
  <2>5. i \in Nat /\ m \in Nat
    BY <1>3, <2>1
  <2>6. E[i] <= i
    BY <2>3, <2>4, <2>5
  <2>7. E[i - 1] >= i - 1
    BY <1>5, <2>3, <2>4, <2>5
  <2> QED
    BY <2>3, <2>4, <2>5, <2>6, <2>7
<1> QED
  BY <1>3, <1>7, <1>10, <1>11 DEF m

\* Each place of the round's input is fed its row's next token.
LEMMA InputAt ==
    ASSUME IInv, FInv, pc = "prepare", NEW i \in DOMAIN batch, NEW j \in 1 .. so.tok[batch[i]]
    PROVE  InputIds[Ends(RowTokens)[i - 1] + j] = <<batch[i], true[batch[i]] + j - 1>>
<1> DEFINE N == Len(batch)
           E == Ends(RowTokens)
           r == batch[i]
           x == E[i - 1] + j
           m == Cardinality(Common)
           known == [c \in DOMAIN batch |-> IF c \in Common THEN RowDrafts[c] ELSE 0]
           plain == AllTokens - Ends(known)[N]
           base == IF m < plain THEN HostIds ELSE [y \in 1 .. AllTokens |-> Blank]
           slice == /\ \A c \in Common : PrevPos(c) = LastAt(c)
                    /\ Max({0} \union {LastAt(c) : c \in Common}) = m
           mine(y) == {c \in Common : y \in SampledAt(c) .. LastAt(c)}
           fed == InputIds[x]
<1>1. /\ N \in Nat /\ DOMAIN batch = 1 .. N /\ Lengths(RowTokens) /\ Len(RowTokens) = N
      /\ \A c \in 1 .. N : /\ RowTokens[c] = so.tok[batch[c]] /\ so.tok[batch[c]] \in Nat \ {0}
                           /\ so.draft[batch[c]] \in Nat
  BY RowWidths
<1>2. /\ \A c \in 1 .. N : E[c] = E[c - 1] + so.tok[batch[c]]
      /\ \A c \in 0 .. N : E[c] \in Nat
  <2>1. /\ \A c \in 1 .. N : E[c] = E[c - 1] + RowTokens[c]
        /\ \A c \in 0 .. N : E[c] \in Nat
    BY <1>1, EndsFacts
  <2> HIDE DEF E
  <2> QED
    BY <1>1, <2>1
<1>3. \A c \in 1 .. N : \A o \in 1 .. so.tok[batch[c]] :
        E[c - 1] + o \in 1 .. E[N] /\ RowAt(RowTokens, E[c - 1] + o) = c
  BY <1>1, RowAtFacts
<1>4. i \in 1 .. N /\ i - 1 \in 0 .. N /\ j \in Nat /\ j >= 1 /\ E[i - 1] \in Nat
  BY <1>1, <1>2
<1>5. AllTokens = E[N] /\ \A c : LastAt(c) = E[c] /\ SampledAt(c) = E[c] - so.draft[batch[c]]
  BY DEF AllTokens, LastAt, SampledAt
<1>6. x \in 1 .. AllTokens /\ RowAt(RowTokens, x) = i /\ OffsetAt(RowTokens, x) = j /\ x \in Nat
  <2>1. x \in 1 .. E[N] /\ RowAt(RowTokens, x) = i
    BY <1>1, <1>3, <1>4
  <2>2. OffsetAt(RowTokens, x) = x - E[i - 1]
    BY <2>1 DEF OffsetAt
  <2>3. x - E[i - 1] = j
    BY <1>4
  <2> QED
    BY <1>4, <1>5, <2>1, <2>2, <2>3
<1>7. fed = IF slice /\ x <= m THEN OnDevice(x, 0)
            ELSE IF slice \/ mine(x) = {} THEN base[x]
            ELSE LET c == CHOOSE c \in mine(x) : TRUE
                 IN  OnDevice(PrevPos(c), x - SampledAt(c))
  <2> HIDE DEF x
  <2> QED
    BY <1>6 DEF InputIds
<1>8. \A c \in Common : /\ c \in 1 .. N /\ so.tok[batch[c]] = so.draft[batch[c]] + 1
                        /\ last[PrevPos(c)] = <<batch[c], true[batch[c]]>>
                        /\ so.draft[batch[c]] > 0 => fits
                        /\ SampledAt(c) = E[c - 1] + 1
  <2> SUFFICES ASSUME NEW c \in Common
               PROVE  /\ c \in 1 .. N /\ so.tok[batch[c]] = so.draft[batch[c]] + 1
                      /\ last[PrevPos(c)] = <<batch[c], true[batch[c]]>>
                      /\ so.draft[batch[c]] > 0 => fits
                      /\ SampledAt(c) = E[c - 1] + 1
    OBVIOUS
  <2>1. c \in DOMAIN batch /\ c \in 1 .. N
    BY <1>1 DEF Common
  <2>2. /\ so.tok[batch[c]] = so.draft[batch[c]] + 1
        /\ last[PrevPos(c)] = <<batch[c], true[batch[c]]>>
        /\ so.draft[batch[c]] > 0 => fits
    BY <2>1, RowSource
  <2>3. c - 1 \in 0 .. N /\ c \in 0 .. N
    BY <1>1, <2>1
  <2>4. /\ E[c] = E[c - 1] + so.tok[batch[c]] /\ E[c - 1] \in Nat
        /\ so.draft[batch[c]] \in Nat
    BY <1>1, <1>2, <2>1, <2>3
  <2>5. SampledAt(c) = E[c - 1] + 1
    BY <1>5, <2>2, <2>4
  <2> QED
    BY <2>1, <2>2, <2>5
<1> HIDE DEF E, x, m, known, slice, fed
<1>9. ASSUME NEW c \in mine(x) PROVE c = i
  <2>1. c \in Common /\ c \in 1 .. N /\ c - 1 \in 0 .. N /\ x \in SampledAt(c) .. LastAt(c)
    BY <1>1, <1>8
  <2>2. E[c - 1] \in Nat /\ E[c] = E[c - 1] + so.tok[batch[c]] /\ so.tok[batch[c]] \in Nat
    BY <1>1, <1>2, <2>1
  <2>3. x >= E[c - 1] + 1 /\ x <= E[c]
    BY <1>5, <1>6, <1>8, <2>1, <2>2
  <2>4. x - E[c - 1] \in 1 .. so.tok[batch[c]] /\ E[c - 1] + (x - E[c - 1]) = x
    BY <1>6, <2>2, <2>3
  <2> QED
    BY <1>3, <1>6, <2>1, <2>4
<1>10. ASSUME slice
       PROVE  /\ m \in Nat /\ Common = 1 .. m
              /\ \A c \in Common : E[c] = c /\ E[c - 1] = c - 1 /\ PrevPos(c) = c
  <2>1. Max({0} \union {LastAt(c) : c \in Common}) = Cardinality(Common)
    BY <1>10 DEF slice, m
  <2>2. /\ m \in Nat /\ Common = 1 .. m
        /\ \A c \in Common : LastAt(c) = c /\ LastAt(c - 1) = c - 1
    BY <2>1, SliceIsRows DEF m
  <2>3. \A c \in Common : PrevPos(c) = LastAt(c)
    BY <1>10 DEF slice
  <2> QED
    BY <1>5, <2>2, <2>3
<1>11. true[r] \in Nat
  BY RowSource
<1>12. CASE i \in Common
  <2>1. /\ last[PrevPos(i)] = <<r, true[r]>> /\ so.tok[r] = so.draft[r] + 1
        /\ so.draft[r] > 0 => fits
        /\ SampledAt(i) = E[i - 1] + 1 /\ so.draft[r] \in Nat
    BY <1>1, <1>4, <1>8, <1>12
  <2>2. j - 1 \in 0 .. so.draft[r] /\ j \in 1 .. so.draft[r] + 1
    BY <1>4, <2>1
  <2>3. OnDevice(PrevPos(i), j - 1) = <<r, true[r] + j - 1>>
    <3>1. Draft(PrevPos(i), j - 1) = <<r, true[r] + (j - 1)>>
      <4> DEFINE l == last[PrevPos(i)]
      <4>1. l[1] = r /\ l[2] = true[r]
        <5> DEFINE n == true[r]
        <5>1. l = <<r, n>>
          BY <2>1
        <5> HIDE DEF l, n, r
        <5>2. l[1] = r /\ l[2] = n
          BY <5>1
        <5> QED
          BY <5>2 DEF n
      <4>2. Draft(PrevPos(i), j - 1) = <<l[1], l[2] + (j - 1)>>
        BY DEF Draft
      <4> HIDE DEF l
      <4> QED
        BY <4>1, <4>2
    <3>2. true[r] + (j - 1) = true[r] + j - 1
      BY <1>4, <1>11
    <3>3. j - 1 = 0 \/ fits
      BY <2>1, <2>2
    <3> QED
      BY <3>1, <3>2, <3>3 DEF OnDevice
  <2>4. CASE slice
    <3>1. m \in Nat /\ i \in 1 .. m /\ E[i] = i /\ E[i - 1] = i - 1 /\ PrevPos(i) = i
      BY <1>10, <1>12, <2>4
    <3>2. E[i] = E[i - 1] + so.tok[r]
      BY <1>2, <1>4
    <3>3. so.tok[r] = 1 /\ j = 1
      BY <1>1, <1>4, <3>1, <3>2
    <3>4. x = i /\ x <= m /\ j - 1 = 0
      BY <1>4, <3>1, <3>3 DEF x
    <3>5. fed = OnDevice(x, 0)
      BY <1>7, <2>4, <3>4
    <3>6. fed = OnDevice(PrevPos(i), j - 1)
      BY <3>1, <3>4, <3>5
    <3> QED
      BY <2>3, <3>6 DEF fed, x, E
  <2>5. CASE ~slice
    <3>1. x \in SampledAt(i) .. LastAt(i)
      <4>1. E[i] = E[i - 1] + so.tok[r] /\ LastAt(i) = E[i] /\ E[i] \in Nat
        BY <1>2, <1>4, <1>5
      <4> DEFINE a == E[i - 1]
      <4>2. x = a + j /\ a \in Nat /\ SampledAt(i) = a + 1
        BY <1>4, <2>1 DEF x
      <4>3. LastAt(i) = a + (so.draft[r] + 1)
        BY <2>1, <4>1
      <4> DEFINE d == so.draft[r]
      <4>4. d \in Nat /\ j \in 1 .. d + 1 /\ LastAt(i) = a + (d + 1)
        BY <2>1, <2>2, <4>3
      <4> HIDE DEF a, d
      <4>5. a + j \in (a + 1) .. (a + (d + 1))
        BY <4>2, <4>4
      <4> QED
        BY <4>2, <4>4, <4>5
    <3>2. mine(x) # {} /\ \A c \in mine(x) : c = i
      BY <1>9, <1>12, <3>1
    <3>3. (CHOOSE c \in mine(x) : TRUE) = i
      BY <3>2
    <3>4. fed = OnDevice(PrevPos(i), x - SampledAt(i))
      BY <1>7, <2>5, <3>2, <3>3
    <3>5. x - SampledAt(i) = j - 1
      BY <1>4, <2>1 DEF x
    <3> QED
      BY <2>3, <3>4, <3>5 DEF fed, x, E
  <2> QED
    BY <2>4, <2>5
<1>13. CASE i \notin Common
  <2>1. mine(x) = {}
    BY <1>9, <1>13
  <2>2. ~(slice /\ x <= m)
    <3> SUFFICES ASSUME slice, x <= m PROVE FALSE
      OBVIOUS
    <3>1. x \in 1 .. m /\ m \in Nat /\ Common = 1 .. m
      BY <1>6, <1>10
    <3>2. E[x] = x /\ E[x - 1] = x - 1 /\ x \in 1 .. N
      BY <1>8, <1>10, <3>1
    <3>3. so.tok[batch[x]] = 1
      <4>1. E[x] = E[x - 1] + so.tok[batch[x]] /\ so.tok[batch[x]] \in Nat
        BY <1>1, <1>2, <3>2
      <4> QED
        BY <1>6, <3>2, <4>1
    <3>4. 1 \in 1 .. so.tok[batch[x]] /\ E[x - 1] + 1 = x
      BY <1>6, <3>2, <3>3
    <3>5. RowAt(RowTokens, x) = x
      BY <1>3, <3>2, <3>4
    <3> QED
      BY <1>6, <1>13, <3>1, <3>5
  <2>3. fed = base[x]
    BY <1>7, <2>1, <2>2
  <2>4. m < plain
    <3>1. Common # DOMAIN batch
      BY <1>13
    <3> QED
      BY <3>1, HostNeeded DEF m, known
  <2>5. fed = HostIds[x]
    BY <2>3, <2>4
  <2>6. HostIds[x] = Host(r, cpu[r] + j - 1)
    BY <1>6 DEF HostIds
  <2>7. Host(r, cpu[r] + j - 1) = <<r, true[r] + j - 1>>
    BY <1>13, RowSource
  <2> QED
    BY <2>5, <2>6, <2>7 DEF fed, x, E
<1> QED
  BY <1>12, <1>13

\* Each draft that is judged is the token the row is fed after the one whose
\* logits judge it.
LEMMA DraftAt ==
    ASSUME IInv, FInv, pc = "prepare", NEW i \in DOMAIN batch, NEW j \in 1 .. so.draft[batch[i]]
    PROVE  DraftIds[Ends(RowDrafts)[i - 1] + j] = <<batch[i], true[batch[i]] + j>>
<1> DEFINE N == Len(batch)
           E == Ends(RowTokens)
           D == Ends(RowDrafts)
           F == Ends(RowSampled)
           r == batch[i]
           x == D[i - 1] + j
           t == F[i - 1] + (j + 1)
<1>1. /\ N \in Nat /\ DOMAIN batch = 1 .. N
      /\ Lengths(RowTokens) /\ Len(RowTokens) = N
      /\ Lengths(RowDrafts) /\ Len(RowDrafts) = N
      /\ Lengths(RowSampled) /\ Len(RowSampled) = N
      /\ i \in 1 .. N /\ r \in Scheduled
      /\ RowTokens[i] = so.tok[r] /\ so.tok[r] \in Nat \ {0}
      /\ RowDrafts[i] = so.draft[r] /\ so.draft[r] \in Nat
      /\ RowSampled[i] = so.draft[r] + 1
  BY RowWidths
<1>2. i - 1 \in 0 .. N /\ j \in Nat /\ j >= 1 /\ j <= so.draft[r]
  BY <1>1
<1>3. E[i - 1] \in Nat /\ D[i - 1] \in Nat /\ F[i - 1] \in Nat /\ E[i] = E[i - 1] + so.tok[r]
  <2>1. E[i - 1] \in Nat /\ E[i] = E[i - 1] + RowTokens[i]
    BY <1>1, <1>2, EndsFacts
  <2>2. D[i - 1] \in Nat
    BY <1>1, <1>2, EndsFacts
  <2>3. F[i - 1] \in Nat
    BY <1>1, <1>2, EndsFacts
  <2> HIDE DEF E, D, F
  <2> QED
    BY <1>1, <2>1, <2>2, <2>3
<1>4. x \in 1 .. D[N] /\ RowAt(RowDrafts, x) = i
  BY <1>1, <1>2, RowAtFacts
<1>5. t \in 1 .. F[N] /\ RowAt(RowSampled, t) = i
  <2>1. j + 1 \in 1 .. RowSampled[i]
    BY <1>1, <1>2
  <2> QED
    BY <1>1, <2>1, RowAtFacts
<1>6. so.tok[r] = so.draft[r] + 1
  <2>1. so.draft[r] > 0
    BY <1>1, <1>2
  <2> QED
    BY <1>1, <2>1 DEF IInv, Granted
<1>7. TargetsAt[x] + 1 = t /\ x \in DOMAIN TargetsAt
  <2>1. TargetsAt[x] = F[i - 1] + OffsetAt(RowDrafts, x) /\ x \in DOMAIN TargetsAt
    <3> HIDE DEF x
    <3> QED
      BY <1>4 DEF TargetsAt
  <2>2. OffsetAt(RowDrafts, x) = x - D[i - 1]
    BY <1>4 DEF OffsetAt
  <2>3. x - D[i - 1] = j
    BY <1>2, <1>3
  <2> DEFINE a == F[i - 1]
  <2>4. TargetsAt[x] = a + j /\ t = a + (j + 1) /\ a \in Nat /\ x \in DOMAIN TargetsAt
    BY <1>3, <2>1, <2>2, <2>3
  <2> HIDE DEF a, x, t
  <2> QED
    BY <1>2, <2>4
<1>8. LogitsAt[t] = E[i - 1] + (j + 1)
  <2>1. LogitsAt[t] = SampledAt(i) + OffsetAt(RowSampled, t) - 1
    <3> HIDE DEF t
    <3> QED
      BY <1>5 DEF LogitsAt
  <2>2. OffsetAt(RowSampled, t) = t - F[i - 1]
    BY <1>5 DEF OffsetAt
  <2>3. t - F[i - 1] = j + 1
    BY <1>2, <1>3
  <2>4. SampledAt(i) = E[i] - so.draft[r]
    BY DEF SampledAt, LastAt
  <2> DEFINE a == E[i - 1]
             d == so.draft[r]
  <2>5. /\ a \in Nat /\ d \in Nat /\ SampledAt(i) = (a + (d + 1)) - d
        /\ LogitsAt[t] = SampledAt(i) + (j + 1) - 1
    BY <1>1, <1>3, <1>6, <2>1, <2>2, <2>3, <2>4
  <2> HIDE DEF a, d, t
  <2>6. LogitsAt[t] = a + (j + 1)
    BY <1>2, <2>5
  <2> QED
    BY <2>6 DEF a
<1>9. DraftIds[x] = InputIds[E[i - 1] + (j + 1)]
  <2> HIDE DEF x
  <2> QED
    BY <1>7, <1>8 DEF DraftIds
<1>10. j + 1 \in 1 .. so.tok[r]
  BY <1>1, <1>2, <1>6
<1>11. InputIds[E[i - 1] + (j + 1)] = <<r, true[r] + (j + 1) - 1>>
  <2> HIDE DEF E
  <2> DEFINE o == j + 1
  <2>1. o \in 1 .. so.tok[r]
    BY <1>10
  <2> HIDE DEF o
  <2>2. InputIds[E[i - 1] + o] = <<r, true[r] + o - 1>>
    BY <2>1, InputAt DEF E
  <2> QED
    BY <2>2 DEF o
<1>12. true[r] + (j + 1) - 1 = true[r] + j
  <2>1. true[r] \in Nat
    BY RowSource
  <2> DEFINE a == true[r]
  <2>2. a \in Nat /\ j \in Nat
    BY <1>2, <2>1
  <2> HIDE DEF a
  <2>3. a + (j + 1) - 1 = a + j
    BY <2>2
  <2> QED
    BY <2>3 DEF a
<1> QED
  BY <1>9, <1>11, <1>12

\* Every place of input_ids holds the token or the draft that follows the
\* tokens computed of its row's request, whoever joined, left or moved to
\* another row, whatever was accepted in the last round, and whether it comes
\* from the host, from the one slice or from the scatters; and the drafts that
\* are judged are those that were fed (_prepare_input_ids,
\* _calc_spec_decode_metadata).
THEOREM InputsAreExact == Spec => []InputsExact
<1>1. IInv /\ FInv => InputsExact
  <2> SUFFICES ASSUME IInv, FInv, pc = "prepare", NEW i \in DOMAIN batch
               PROVE  /\ \A j \in 1 .. so.tok[batch[i]] :
                            InputIds[Ends(RowTokens)[i - 1] + j] = <<batch[i], true[batch[i]] + j - 1>>
                      /\ \A j \in 1 .. so.draft[batch[i]] :
                            DraftIds[Ends(RowDrafts)[i - 1] + j] = <<batch[i], true[batch[i]] + j>>
    BY DEF InputsExact
  <2> QED
    BY InputAt, DraftAt
<1> QED
  BY <1>1, AllInvAlways, PTL DEF AllInv
=============================================================================
