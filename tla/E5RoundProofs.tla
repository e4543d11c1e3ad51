---------------------------- MODULE E5RoundProofs ----------------------------
(***************************************************************************)
(* What a round served from cached metadata may rely on, for any requests, *)
(* prompts, drafts, model length, token budget, batch size and block pool. *)
(***************************************************************************)
EXTENDS E5Round, RowsProofs, SequenceTheorems

(* The inductive invariant.                                                *)

Live == ToSet(running) \union ToSet(preempted) \union fresh

Fp == Seq(Req \X Int \X Nat)

SchedulerOutput == [tok : [Req -> Nat], spec : [Req -> Nat], new : SUBSET Req,
                    resumed : SUBSET Req, finished : SUBSET Req]

\* The variables' types.
Types ==
    /\ running \in Seq(Req) /\ preempted \in Seq(Req) /\ batch \in Seq(Req)
    /\ IsInjective(batch) /\ IsInjective(running) /\ IsInjective(preempted)
    /\ fresh \subseteq Req /\ finished \subseteq Req
    /\ known \in [Req -> 1..MaxLen] /\ computed \in [Req -> 0..(MaxLen - 1)]
    /\ drafted \in [Req -> {0, K}] /\ blocks \in [Req -> Nat]
    /\ so \in SchedulerOutput
    /\ pc \in {"schedule", "execute", "sample"}
    /\ stateIdx \in [Req -> NoState..Pool]
    /\ cache \in [fp : Fp, spec : BOOLEAN, of : Fp] /\ lastFp \in Fp /\ fpRounds \in 0..3
    /\ bargs \in Seq(Nat) /\ consts \in Seq(Nat)
    /\ align \in BOOLEAN
    /\ round \in [prep : {"fast", "full"}, md : {"cached", "built"}, uniform : BOOLEAN]
    /\ catchup \subseteq Req /\ moved \subseteq Req

\* A request is in one queue, holds blocks only while it runs, and is never
\* computed to its end.
Queues ==
    /\ ToSet(running) \cap ToSet(preempted) = {}
    /\ fresh \cap (ToSet(running) \union ToSet(preempted)) = {}
    /\ Len(running) <= MaxSeqs
    /\ \A r \in Req \ ToSet(running) : blocks[r] = 0
    /\ Total(blocks, ToSet(running)) <= Pool
    /\ \A r \in Live : computed[r] < known[r] /\ known[r] < MaxLen
    /\ \A r \in Live \ ToSet(running) : computed[r] = 0
    /\ \A r \in fresh : known[r] = Prompt[r]
    /\ \A r \in Req : known[r] >= Prompt[r]

\* A request that drafts has finished its prompt and knows one token more than
\* it has computed.
Decoding(r) == known[r] = computed[r] + 1 /\ computed[r] >= Prompt[r]
Drafting == \A r \in Req : drafted[r] = K => Decoding(r)

\* Blocks a verify round needs.
Verify(r) == Ceil(Least(MaxLen, known[r] + 2 * K))

\* What a round brings: see Want, Grant, Need.
Granted ==
    pc # "schedule" =>
        /\ Scheduled \subseteq ToSet(running)
        /\ \A r \in Scheduled :
             /\ computed[r] + so.tok[r] <= MaxLen - 1
             /\ so.spec[r] = Most(0, computed[r] + so.tok[r] - known[r])
             /\ so.spec[r] <= K
             /\ so.spec[r] > 0 => Decoding(r)
             /\ so.spec[r] = K => blocks[r] >= Verify(r)
        /\ \A r \in so.new \union so.resumed : so.spec[r] = 0

\* The first request of the queue is served, and whole unless it fills the
\* budget; and requests are served in order, one that joins apart.
InOrder ==
    pc # "schedule" =>
        /\ running # <<>> => LET r == running[1] IN
             /\ so.tok[r] > 0
             /\ so.tok[r] < Budget => computed[r] + so.tok[r] >= known[r]
        /\ \A i, j \in DOMAIN running :
             i < j /\ so.tok[running[j]] > 0 /\ running[j] \notin so.new \union so.resumed
                => so.tok[running[i]] > 0

Sampling ==
    pc = "sample" => ToSet(batch) = Scheduled /\ Scheduled # {}

\* The sole request of the last build that had the spec shape is gone, or is
\* still the first of the queue, which is never preempted, and is decoding.
LastBuild ==
    Len(lastFp) = 1 =>
        LET r == lastFp[1][1] IN
        \/ r \notin Live
        \/ /\ running # <<>> /\ running[1] = r
           /\ IF pc = "sample" THEN computed[r] + so.tok[r] >= known[r]
                               ELSE known[r] = computed[r] + 1

\* The requests of the capture, and the blocks they held.
Members == {cache.fp[i][1] : i \in DOMAIN cache.fp}
Held == [r \in Req |->
            IF r \in Members
            THEN cache.fp[CHOOSE i \in DOMAIN cache.fp : cache.fp[i][1] = r][3] ELSE 0]

\* Nothing has happened to the blocks of the capture: its requests are ahead
\* of all others in the queue and still fit together.
Intact ==
    /\ Members \subseteq ToSet(running)
    /\ \A i, j \in DOMAIN running : running[i] \in Members /\ running[j] \notin Members => i < j
    /\ \A r \in Members : blocks[r] <= Held[r] /\ Decoding(r)
    /\ Total(Held, Members) <= Pool
    /\ Members \cap moved = {}
    /\ pc # "sample" => Members \cap catchup = {}

\* Either that, or the capture can never be hit again: a request of it has
\* ended, or needs more blocks than it held.
Cached ==
    /\ cache.of = cache.fp
    /\ cache.fp # <<>> =>
        /\ cache.spec
        /\ \A i, j \in DOMAIN cache.fp : cache.fp[i][1] = cache.fp[j][1] => i = j
        /\ \/ \E r \in Members : r \notin Live
           \/ \E r \in Members : Verify(r) > Held[r]
           \/ Intact

IInv ==
    /\ Types /\ Queues /\ Drafting /\ Granted /\ InOrder /\ Sampling /\ LastBuild /\ Cached
    /\ ServedBlocksCurrent /\ CatchupNeverServed

-----------------------------------------------------------------------------
(* Arithmetic.                                                             *)

LEMMA Numbers ==
    /\ K \in Nat /\ K >= 1 /\ MaxLen \in Nat /\ Pool \in Nat /\ Budget \in Nat
    /\ MaxSeqs \in Nat /\ MaxSeqs >= 1 /\ BlockSize \in Nat /\ BlockSize >= 1
    /\ K1 = K + 1 /\ Budget > K1 /\ K1 \in Nat
    /\ \A r \in Req : Prompt[r] \in Nat /\ 1 <= Prompt[r] /\ Prompt[r] <= MaxLen - 1
<1>1. K1 \in Nat /\ K1 >= 1 /\ MaxSeqs \in Nat /\ MaxSeqs >= 1 /\ Budget \in Nat
      /\ Budget > K1 * MaxSeqs
  BY ConstantsAssumption DEF K1
<1>2. Budget > K1
  <2>1. K1 * MaxSeqs >= K1 * 1
    BY <1>1
  <2> QED
    BY <1>1, <2>1
<1> QED
  BY <1>1, <1>2, ConstantsAssumption DEF K1

\* A number of tokens needs so many blocks, within the pool for a request.
LEMMA CeilFacts ==
    /\ \A n \in Nat : Ceil(n) \in Nat
    /\ \A m, n \in Nat : m <= n => Ceil(m) <= Ceil(n)
    /\ \A n \in Nat : n <= MaxLen => Ceil(n) <= Pool
<1> DEFINE B == BlockSize
<1>1. B \in Nat /\ B >= 1 /\ Pool \in Nat /\ MaxLen \in Nat /\ Pool * B >= MaxLen
  BY ConstantsAssumption
<1>2. ASSUME NEW n \in Nat
      PROVE  /\ Ceil(n) \in Nat /\ B * Ceil(n) \in Nat
             /\ n <= B * Ceil(n) /\ B * Ceil(n) <= n + B - 1
  <2> DEFINE a == n + B - 1
             d == a \div B
             e == a % B
  <2>1. a \in Nat
    BY <1>1
  <2>2. d \in Nat /\ e \in Nat /\ a = B * d + e /\ e < B /\ B * d \in Nat
    BY <1>1, <2>1
  <2>3. Ceil(n) = d
    BY DEF Ceil
  <2>4. a = n + B - 1
    OBVIOUS
  <2> HIDE DEF a, d, e, B
  <2> DEFINE p == B * d
  <2>5. p \in Nat /\ a = p + e /\ e < B /\ e \in Nat /\ B \in Nat
    BY <1>1, <2>2
  <2> HIDE DEF p
  <2>6. n <= p /\ p <= n + B - 1
    BY <2>4, <2>5
  <2> QED
    BY <2>2, <2>3, <2>6 DEF p
<1>3. \A x, y \in Nat : B * x < B * y + B => x <= y
  <2> SUFFICES ASSUME NEW x \in Nat, NEW y \in Nat, B * x < B * y + B, x >= y + 1 PROVE FALSE
    OBVIOUS
  <2>1. B * x >= B * (y + 1)
    BY <1>1
  <2>2. B * (y + 1) = B * y + B
    BY <1>1
  <2> QED
    BY <1>1, <2>1, <2>2
<1>4. ASSUME NEW m \in Nat, NEW n \in Nat, m <= n PROVE Ceil(m) <= Ceil(n)
  <2> DEFINE x == Ceil(m)
             y == Ceil(n)
  <2>1. x \in Nat /\ y \in Nat /\ B * x \in Nat /\ B * y \in Nat
        /\ B * x <= m + B - 1 /\ n <= B * y
    BY <1>2
  <2> HIDE DEF x, y, B
  <2>2. B * x < B * y + B
    BY <1>1, <1>4, <2>1
  <2>3. x <= y
    BY <1>3, <2>1, <2>2
  <2> QED
    BY <2>3 DEF x, y
<1>5. ASSUME NEW n \in Nat, n <= MaxLen PROVE Ceil(n) <= Pool
  <2> DEFINE x == Ceil(n)
             y == Pool
  <2>1. x \in Nat /\ y \in Nat /\ B * x \in Nat /\ B * y \in Nat
        /\ B * x <= n + B - 1 /\ n <= B * y
    <3>1. Pool * B = B * Pool /\ B * Pool \in Nat
      BY <1>1
    <3> QED
      BY <1>1, <1>2, <1>5, <3>1
  <2> HIDE DEF x, y, B
  <2>2. B * x < B * y + B
    BY <1>1, <2>1
  <2>3. x <= y
    BY <1>3, <2>1, <2>2
  <2> QED
    BY <2>3 DEF x, y
<1> QED
  BY <1>2, <1>4, <1>5

-----------------------------------------------------------------------------
(* The queue.                                                              *)

LEMMA RunningFacts ==
    ASSUME Types, Queues, NEW r \in ToSet(running)
    PROVE  /\ r \in Req /\ r \in Live /\ known[r] \in Nat /\ computed[r] \in Nat
           /\ drafted[r] \in Nat /\ blocks[r] \in Nat /\ drafted[r] <= K
           /\ (drafted[r] > 0 => drafted[r] = K)
           /\ computed[r] < known[r] /\ known[r] < MaxLen
<1>1. r \in Req
  BY MembersFinite DEF Types
<1>2. r \in Live
  BY DEF Live
<1>3. known[r] \in 1 .. MaxLen /\ computed[r] \in 0 .. MaxLen - 1 /\ drafted[r] \in {0, K}
      /\ blocks[r] \in Nat
  BY <1>1 DEF Types
<1>4. computed[r] < known[r] /\ known[r] < MaxLen
  BY <1>2 DEF Queues
<1>5. /\ known[r] \in Nat /\ computed[r] \in Nat /\ drafted[r] \in Nat /\ drafted[r] <= K
      /\ (drafted[r] > 0 => drafted[r] = K)
  BY <1>3, Numbers
<1> QED
  BY <1>1, <1>2, <1>3, <1>4, <1>5

LEMMA WantFacts ==
    ASSUME Types, Queues, Drafting, NEW r \in ToSet(running)
    PROVE  /\ Want(r) \in Nat /\ Want(r) >= 1
           /\ computed[r] + Want(r) <= MaxLen - 1
           /\ known[r] <= computed[r] + Want(r)
           /\ computed[r] + Want(r) <= known[r] + drafted[r]
BY RunningFacts, Numbers DEF Want, Least

\* The requests ahead of the one at a place are those at the places before.
LEMMA AheadFacts ==
    ASSUME Types, NEW j \in DOMAIN running
    PROVE  /\ Ahead(running[j]) \in SUBSET ToSet(running)
           /\ IsFiniteSet(Ahead(running[j]))
           /\ \A i \in DOMAIN running : i < j <=> running[i] \in Ahead(running[j])
           /\ \A s \in Ahead(running[j]) : \E i \in DOMAIN running : i < j /\ running[i] = s
           /\ running[j] \notin Ahead(running[j])
<1>1. /\ \A a, b \in DOMAIN running : running[a] = running[b] => a = b
      /\ \A a \in DOMAIN running : a \in Nat
  BY PlacesFacts DEF Types, IsInjective
<1>2. \A s : s \in Ahead(running[j]) <=> \E i \in DOMAIN running : i < j /\ running[i] = s
  BY <1>1 DEF Ahead
<1>3. IsFiniteSet(ToSet(running))
  BY MembersFinite DEF Types
<1>4. Ahead(running[j]) \in SUBSET ToSet(running)
  BY <1>2 DEF ToSet
<1>5. IsFiniteSet(Ahead(running[j]))
  BY <1>3, <1>4, FS_Subset
<1>6. ~(j < j)
  BY <1>1
<1>7. running[j] \notin Ahead(running[j])
  BY <1>1, <1>2, <1>6
<1> QED
  BY <1>1, <1>2, <1>4, <1>5, <1>7

Wants == [s \in Req |-> Want(s)]
Grants == [s \in Req |-> Grant(s)]
Needs == [s \in Req |-> Need(s, Grant(s))]

LEMMA WantsCount ==
    ASSUME Types, Queues, Drafting
    PROVE  Counts(Wants, ToSet(running))
BY RunningFacts, WantFacts DEF Counts, Wants

\* A running request is given what it wants, or the rest of the budget.
LEMMA GrantFacts ==
    ASSUME Types, Queues, Drafting, NEW j \in DOMAIN running
    PROVE  LET r == running[j]
               t == Total(Wants, Ahead(r))
           IN  /\ r \in ToSet(running) /\ t \in Nat
               /\ Grant(r) \in Nat /\ Grant(r) <= Want(r)
               /\ Grant(r) > 0 <=> t < Budget
               /\ t = 0 => Grant(r) = Want(r) \/ Grant(r) = Budget
<1> DEFINE r == running[j]
           t == Total(Wants, Ahead(r))
<1>1. r \in ToSet(running)
  BY DEF ToSet
<1>2. t \in Nat
  <2>1. Counts(Wants, Ahead(r)) /\ IsFiniteSet(Ahead(r))
    BY AheadFacts, WantsCount DEF Counts
  <2> QED
    BY <2>1, TotalType
<1>3. Grant(r) = Least(Want(r), Most(0, Budget - t))
  BY <1>1 DEF Grant, Wants
<1>4. Want(r) \in Nat /\ Want(r) >= 1 /\ Budget \in Nat /\ Budget >= 1
  BY <1>1, WantFacts, Numbers
<1> HIDE DEF t, r
<1>5. /\ Grant(r) \in Nat /\ Grant(r) <= Want(r) /\ (Grant(r) > 0 <=> t < Budget)
      /\ t = 0 => Grant(r) = Want(r) \/ Grant(r) = Budget
  BY <1>2, <1>3, <1>4 DEF Least, Most
<1> QED
  BY <1>1, <1>2, <1>5 DEF t, r

\* A request is given tokens only if those ahead of it are.
LEMMA GrantInOrder ==
    ASSUME Types, Queues, Drafting,
           NEW i \in DOMAIN running, NEW j \in DOMAIN running, i < j, Grant(running[j]) > 0
    PROVE  Grant(running[i]) > 0
<1>1. Ahead(running[i]) \in SUBSET Ahead(running[j]) /\ IsFiniteSet(Ahead(running[j]))
  <2>1. \A a \in DOMAIN running : a \in Nat
    BY PlacesFacts DEF Types
  <2>2. \A a \in DOMAIN running : a < i => a < j
    BY <2>1
  <2> QED
    BY <2>2, AheadFacts
<1>2. Counts(Wants, Ahead(running[i])) /\ Counts(Wants, Ahead(running[j]))
  BY AheadFacts, WantsCount DEF Counts
<1>3. \A s \in Ahead(running[i]) : Wants[s] <= Wants[s]
  BY <1>2 DEF Counts
<1>4. Total(Wants, Ahead(running[i])) <= Total(Wants, Ahead(running[j]))
  BY <1>1, <1>2, <1>3, TotalMonotone
<1> DEFINE a == Total(Wants, Ahead(running[i]))
           b == Total(Wants, Ahead(running[j]))
<1>5. a \in Nat /\ b \in Nat /\ a <= b /\ b < Budget
  BY <1>4, GrantFacts
<1> HIDE DEF a, b
<1>6. a < Budget
  BY <1>5, Numbers
<1> QED
  BY <1>6, GrantFacts DEF a

\* The head of the queue has no one ahead of it.
LEMMA HeadGrant ==
    ASSUME Types, Queues, Drafting, running # <<>>
    PROVE  LET r == running[1]
           IN  /\ 1 \in DOMAIN running /\ r \in ToSet(running) /\ Ahead(r) = {}
               /\ Grant(r) > 0 /\ (Grant(r) < Budget => computed[r] + Grant(r) >= known[r])
<1> DEFINE r == running[1]
<1>1. 1 \in DOMAIN running /\ \A i \in DOMAIN running : i \in Nat /\ ~(i < 1)
  <2>1. \A i \in DOMAIN running : i \in Nat /\ i >= 1
    BY PlacesFacts DEF Types
  <2>2. 1 \in DOMAIN running
    BY PlacesFacts DEF Types
  <2> QED
    BY <2>1, <2>2
<1>2. Ahead(r) = {}
  BY <1>1, AheadFacts
<1>3. Total(Wants, Ahead(r)) = 0
  BY <1>2, TotalEmpty
<1>4. /\ r \in ToSet(running) /\ Grant(r) \in Nat /\ (Grant(r) > 0 <=> 0 < Budget)
      /\ (Grant(r) = Want(r) \/ Grant(r) = Budget)
  BY <1>1, <1>3, GrantFacts
<1>5. Budget \in Nat /\ Budget > 0
  BY Numbers
<1>6. known[r] <= computed[r] + Want(r)
  BY <1>4, WantFacts
<1>7. Grant(r) < Budget => computed[r] + Grant(r) >= known[r]
  <2>1. known[r] \in Nat /\ computed[r] \in Nat /\ Want(r) \in Nat
    BY <1>4, RunningFacts, WantFacts
  <2> QED
    BY <1>4, <1>5, <1>6, <2>1
<1> QED
  BY <1>1, <1>2, <1>4, <1>5, <1>7

\* Blocks a running request asks for.
LEMMA NeedFacts ==
    ASSUME Types, Queues, Drafting, NEW r \in ToSet(running)
    PROVE  LET c == Ceil(Least(MaxLen, computed[r] + Grant(r) + K))
           IN  /\ Grant(r) \in Nat /\ Grant(r) <= Want(r)
               /\ Need(r, Grant(r)) \in Nat /\ c \in Nat /\ c <= Pool
               /\ Need(r, Grant(r)) = blocks[r] \/ Need(r, Grant(r)) = c
               /\ Grant(r) > 0 => Need(r, Grant(r)) >= c
<1> DEFINE t == Grant(r)
           n == Least(MaxLen, computed[r] + t + K)
           c == Ceil(n)
<1>1. t \in Nat /\ t <= Want(r)
  <2>1. PICK j \in DOMAIN running : running[j] = r
    BY DEF ToSet
  <2> QED
    BY <2>1, GrantFacts
<1>2. computed[r] \in Nat /\ blocks[r] \in Nat /\ K \in Nat /\ MaxLen \in Nat
  BY RunningFacts, Numbers
<1> HIDE DEF t
<1>3. n \in Nat /\ n <= MaxLen
  BY <1>1, <1>2 DEF Least
<1>4. c \in Nat /\ c <= Pool
  BY <1>3, CeilFacts
<1>5. Need(r, t) = IF t = 0 THEN blocks[r] ELSE Most(blocks[r], c)
  BY DEF Need
<1> HIDE DEF c
<1>6. /\ Need(r, t) \in Nat /\ (Need(r, t) = blocks[r] \/ Need(r, t) = c)
      /\ t > 0 => Need(r, t) >= c
  BY <1>1, <1>2, <1>4, <1>5 DEF Most
<1> QED
  BY <1>1, <1>4, <1>6 DEF c, t

LEMMA NeedsCount ==
    ASSUME Types, Queues, Drafting
    PROVE  Counts(Needs, ToSet(running))
BY RunningFacts, NeedFacts DEF Counts, Needs

\* No running request holds more than the pool.
LEMMA BlocksFit ==
    ASSUME Types, Queues, NEW r \in ToSet(running)
    PROVE  blocks[r] <= Pool
<1>1. Counts(blocks, ToSet(running)) /\ IsFiniteSet(ToSet(running))
  BY RunningFacts, MembersFinite DEF Counts, Types
<1>2. {r} \in SUBSET ToSet(running) /\ Counts(blocks, {r}) /\ \A s \in {r} : blocks[s] <= blocks[s]
  BY <1>1 DEF Counts
<1>3. Total(blocks, {r}) <= Total(blocks, ToSet(running))
  BY <1>1, <1>2, TotalMonotone
<1>4. Total(blocks, {r}) = blocks[r]
  BY <1>1, TotalOne DEF Counts
<1>5. blocks[r] \in Nat /\ Total(blocks, ToSet(running)) \in Nat
  BY <1>1, TotalType DEF Counts
<1> QED
  BY <1>3, <1>4, <1>5, Numbers DEF Queues
-----------------------------------------------------------------------------
(* Preemption.                                                             *)

\* The requests that stay fit together, and the head of the queue is one.
LEMMA StayingFacts ==
    ASSUME Types, Queues, Drafting
    PROVE  /\ Staying \in SUBSET ToSet(running) /\ IsFiniteSet(Staying)
           /\ Total(Needs, Staying) <= Pool
           /\ running # <<>> => running[1] \in Staying
<1>1. Staying \in SUBSET ToSet(running) /\ IsFiniteSet(ToSet(running))
  BY MembersFinite DEF Staying, Types
<1>2. IsFiniteSet(Staying)
  BY <1>1, FS_Subset
<1>3. \A r \in Staying : Total(Needs, Ahead(r) \union {r}) <= Pool
  BY DEF Staying, Needed, Needs
<1>4. ASSUME Staying # {} PROVE Total(Needs, Staying) <= Pool
  <2> DEFINE o == Only(running, Staying)
             l == Len(o)
  <2>1. o \in Seq(Req) /\ ToSet(o) = ToSet(running) \cap Staying
    BY OnlyFacts DEF Types
  <2>2. ToSet(o) = Staying
    BY <1>1, <2>1
  <2>3. \A i, j \in DOMAIN o : i < j =>
            \E a, b \in DOMAIN running : a < b /\ o[i] = running[a] /\ o[j] = running[b]
    BY OnlyFacts DEF Types
  <2>4. l \in Nat /\ DOMAIN o = 1 .. l
    BY <2>1, PlacesFacts
  <2> HIDE DEF o, l
  <2>5. \A r \in Staying : \E i \in 1 .. l : o[i] = r
    BY <2>2, <2>4 DEF ToSet
  <2>6. l \in DOMAIN o /\ o[l] \in Staying
    <3>1. l \in 1 .. l
      BY <1>4, <2>4, <2>5
    <3> QED
      BY <2>2, <2>4, <3>1 DEF ToSet
  <2> DEFINE x == o[l]
             S == Ahead(x) \union {x}
  <2>7. PICK j \in DOMAIN running : running[j] = x
    BY <1>1, <2>6 DEF ToSet
  <2>8. Staying \in SUBSET S
    <3> SUFFICES ASSUME NEW r \in Staying, r # x PROVE r \in Ahead(x)
      OBVIOUS
    <3>1. PICK i \in 1 .. l : o[i] = r
      BY <2>5
    <3>2. i < l
      BY <2>4, <3>1
    <3>3. PICK a \in DOMAIN running, b \in DOMAIN running :
             a < b /\ r = running[a] /\ x = running[b]
      BY <2>3, <2>4, <2>6, <3>1, <3>2
    <3> QED
      BY <3>3, AheadFacts
  <2>9. IsFiniteSet(S) /\ Counts(Needs, S) /\ Counts(Needs, Staying)
    <3>1. Ahead(x) \in SUBSET ToSet(running) /\ IsFiniteSet(Ahead(x)) /\ x \in ToSet(running)
      BY <1>1, <2>6, <2>7, AheadFacts
    <3> QED
      BY <1>1, <3>1, FS_AddElement, NeedsCount DEF Counts
  <2>10. \A r \in Staying : Needs[r] <= Needs[r]
    BY <2>9 DEF Counts
  <2>11. Total(Needs, Staying) <= Total(Needs, S)
    BY <2>8, <2>9, <2>10, TotalMonotone
  <2>12. Total(Needs, S) <= Pool
    BY <1>3, <2>6
  <2>13. Total(Needs, Staying) \in Nat /\ Total(Needs, S) \in Nat
    BY <1>2, <2>9, TotalType
  <2> QED
    BY <2>11, <2>12, <2>13, Numbers
<1>5. Total(Needs, Staying) <= Pool
  BY <1>4, TotalEmpty, Numbers
<1>6. ASSUME running # <<>> PROVE running[1] \in Staying
  <2> DEFINE r == running[1]
  <2>1. r \in ToSet(running) /\ Ahead(r) \union {r} = {r}
    BY <1>6, HeadGrant
  <2>2. Need(r, Grant(r)) \in Nat /\ Need(r, Grant(r)) <= Pool
    BY <2>1, NeedFacts, BlocksFit
  <2>3. Needs[r] = Need(r, Grant(r))
    BY <2>1, RunningFacts DEF Needs
  <2>4. Total(Needs, {r}) = Needs[r]
    BY <2>2, <2>3, TotalOne
  <2> QED
    BY <2>1, <2>2, <2>3, <2>4 DEF Staying, Needed, Needs
<1> QED
  BY <1>1, <1>2, <1>5, <1>6

LEMMA HeldFacts ==
    ASSUME Types
    PROVE  /\ Members \in SUBSET Req /\ Counts(Held, Members)
           /\ (\A i, j \in DOMAIN cache.fp : cache.fp[i][1] = cache.fp[j][1] => i = j) =>
                \A i \in DOMAIN cache.fp : Held[cache.fp[i][1]] = cache.fp[i][3]
<1> DEFINE fp == cache.fp
<1>1. fp \in Seq(Req \X Int \X Nat)
  BY DEF Types, Fp
<1>2. \A i \in DOMAIN fp : fp[i] \in Req \X Int \X Nat
  BY <1>1, PlacesFacts
<1>3. \A i \in DOMAIN fp : fp[i][1] \in Req /\ fp[i][3] \in Nat
  BY <1>2
<1>4. Members \in SUBSET Req
  BY <1>3 DEF Members
<1>5. ASSUME NEW r \in Members
      PROVE  \E i \in DOMAIN fp : fp[i][1] = r /\ Held[r] = fp[i][3]
  <2> DEFINE c == CHOOSE i \in DOMAIN fp : fp[i][1] = r
  <2>1. \E i \in DOMAIN fp : fp[i][1] = r
    BY DEF Members
  <2>2. c \in DOMAIN fp /\ fp[c][1] = r
    BY <2>1
  <2>3. Held[r] = fp[c][3]
    BY <1>4 DEF Held
  <2> QED
    BY <2>2, <2>3
<1>6. Counts(Held, Members)
  BY <1>3, <1>5 DEF Counts
<1>7. ASSUME \A i, j \in DOMAIN fp : fp[i][1] = fp[j][1] => i = j, NEW i \in DOMAIN fp
      PROVE  Held[fp[i][1]] = fp[i][3]
  <2>1. fp[i][1] \in Members
    BY DEF Members
  <2> QED
    BY <1>5, <1>7, <2>1
<1> QED
  BY <1>4, <1>6, <1>7

\* While no request of the capture outgrows what it held, none is preempted.
LEMMA MembersStay ==
    ASSUME Types, Queues, Drafting, Intact, \A r \in Members : ~(Verify(r) > Held[r])
    PROVE  Members \in SUBSET Staying /\ \A r \in Members : Needs[r] <= Held[r]
<1>1. Members \in SUBSET ToSet(running) /\ Counts(Held, Members)
  BY HeldFacts DEF Intact
<1>2. ASSUME NEW r \in Members PROVE Needs[r] <= Held[r]
  <2> DEFINE t == Grant(r)
             a == Least(MaxLen, computed[r] + t + K)
             b == Least(MaxLen, known[r] + 2 * K)
  <2>1. /\ r \in ToSet(running) /\ r \in Req /\ Held[r] \in Nat /\ blocks[r] <= Held[r]
        /\ known[r] \in Nat /\ computed[r] \in Nat /\ drafted[r] \in Nat /\ drafted[r] <= K
    BY <1>1, RunningFacts DEF Intact, Counts
  <2>2. /\ t \in Nat /\ t <= Want(r) /\ Want(r) \in Nat
        /\ computed[r] + Want(r) <= known[r] + drafted[r]
        /\ Need(r, t) = blocks[r] \/ Need(r, t) = Ceil(a)
    BY <2>1, NeedFacts, WantFacts
  <2> HIDE DEF t
  <2>3. a \in Nat /\ b \in Nat /\ a <= b
    BY <2>1, <2>2, Numbers DEF Least
  <2>4. Ceil(a) <= Ceil(b) /\ Ceil(a) \in Nat /\ Ceil(b) \in Nat
    BY <2>3, CeilFacts
  <2>5. Ceil(b) <= Held[r]
    BY <2>1, <2>4 DEF Verify
  <2> HIDE DEF a, b
  <2>6. Need(r, t) <= Held[r]
    BY <2>1, <2>2, <2>4, <2>5
  <2> QED
    BY <2>1, <2>6 DEF Needs, t
<1>3. ASSUME NEW r \in Members PROVE r \in Staying
  <2> DEFINE S == Ahead(r) \union {r}
  <2>1. PICK j \in DOMAIN running : running[j] = r
    BY <1>1 DEF ToSet
  <2>2. S \in SUBSET Members
    <3> SUFFICES ASSUME NEW s \in Ahead(r) PROVE s \in Members
      OBVIOUS
    <3>1. PICK i \in DOMAIN running : i < j /\ running[i] = s
      BY <2>1, AheadFacts
    <3>2. i \in Nat /\ j \in Nat
      BY PlacesFacts DEF Types
    <3>3. s \notin Members => j < i
      BY <2>1, <3>1 DEF Intact
    <3> QED
      BY <3>1, <3>2, <3>3
  <2>3. IsFiniteSet(Members)
    BY <1>1, MembersFinite, FS_Subset DEF Types
  <2>4. Counts(Needs, S) /\ \A s \in S : Needs[s] <= Held[s]
    BY <1>1, <1>2, <2>2, NeedsCount DEF Counts
  <2>5. Total(Needs, S) <= Total(Held, Members)
    BY <1>1, <2>2, <2>3, <2>4, TotalMonotone
  <2>6. IsFiniteSet(S)
    BY <2>2, <2>3, FS_Subset
  <2>7. Total(Needs, S) \in Nat /\ Total(Held, Members) \in Nat
    BY <1>1, <2>3, <2>4, <2>6, TotalType
  <2>8. Total(Held, Members) <= Pool
    BY DEF Intact
  <2> HIDE DEF S
  <2>9. Total(Needs, S) <= Pool
    BY <2>5, <2>7, <2>8, Numbers
  <2> QED
    BY <1>1, <2>9 DEF S, Staying, Needed, Needs
<1> QED
  BY <1>2, <1>3
-----------------------------------------------------------------------------
(* The capture between two builds.                                         *)

\* Nothing but its requests can change what is known of a capture.
LEMMA CacheKept ==
    ASSUME Types, Cached, cache' = cache,
           \A r \in Members : r \notin Live => r \notin Live',
           \A r \in Members : Verify(r) > Held[r] => Verify(r)' > Held[r],
           Intact /\ (\A r \in Members : r \in Live /\ ~(Verify(r) > Held[r]))
                => Intact' \/ \E r \in Members : r \notin Live'
    PROVE  Cached'
<1>1. Members' = Members
  BY DEF Members
<1>2. Held' = Held
  BY <1>1 DEF Held
<1>3. CASE cache.fp = <<>>
  BY <1>3 DEF Cached
<1>4. CASE cache.fp # <<>>
  <2>1. /\ cache.of = cache.fp /\ cache.spec
        /\ \A i, j \in DOMAIN cache.fp : cache.fp[i][1] = cache.fp[j][1] => i = j
        /\ \/ \E r \in Members : r \notin Live
           \/ \E r \in Members : Verify(r) > Held[r]
           \/ Intact
    BY <1>4 DEF Cached
  <2>2. \/ \E r \in Members : r \notin Live'
        \/ \E r \in Members : Verify(r)' > Held[r]
        \/ Intact'
    BY <2>1
  <2>3. \/ \E r \in Members' : r \notin Live'
        \/ \E r \in Members' : Verify(r)' > Held'[r]
        \/ Intact'
    BY <1>1, <1>2, <2>2
  <2> QED
    BY <2>1, <2>3 DEF Cached
<1> QED
  BY <1>3, <1>4

\* Requests that leave the queue do not change the order of the others.
LEMMA OrderKept ==
    ASSUME Types, Intact, NEW S
    PROVE  \A i, j \in DOMAIN Only(running, S) :
              Only(running, S)[i] \in Members /\ Only(running, S)[j] \notin Members => i < j
<1> DEFINE o == Only(running, S)
<1>1. /\ o \in Seq(Req)
      /\ \A i, j \in DOMAIN o : i < j =>
            \E a, b \in DOMAIN running : a < b /\ o[i] = running[a] /\ o[j] = running[b]
  BY OnlyFacts DEF Types
<1>2. /\ \A i \in DOMAIN o : i \in Nat
      /\ \A i \in DOMAIN running : i \in Nat
  BY <1>1, PlacesFacts DEF Types
<1>3. \A a, b \in DOMAIN running : running[a] \in Members /\ running[b] \notin Members => a < b
  BY DEF Intact
<1> HIDE DEF o
<1>4. ASSUME NEW i \in DOMAIN o, NEW j \in DOMAIN o, o[i] \in Members, o[j] \notin Members
      PROVE  i < j
  <2>1. ~(j < i)
    <3>1. ASSUME j < i PROVE FALSE
      <4>1. PICK a \in DOMAIN running, b \in DOMAIN running :
               a < b /\ o[j] = running[a] /\ o[i] = running[b]
        BY <1>1, <3>1
      <4>2. b < a
        BY <1>3, <1>4, <4>1
      <4> QED
        BY <1>2, <4>1, <4>2
    <3> QED
      BY <3>1
  <2>2. i # j
    BY <1>4
  <2> QED
    BY <1>2, <2>1, <2>2
<1> QED
  BY <1>4 DEF o

-----------------------------------------------------------------------------
(* The scheduler's steps.                                                  *)

Scheduling ==
    /\ pc = "schedule" /\ finished' = {} /\ pc' = "execute"
    /\ UNCHANGED <<batch, stateIdx, cache, lastFp, fpRounds, bargs, consts, align, round,
                   catchup>>

LEMMA OutputFacts ==
    ASSUME Types, NEW tok \in [Req -> Nat], NEW new \in SUBSET Req, NEW resumed \in SUBSET Req
    PROVE  LET o == Output(tok, new, resumed)
           IN  /\ o \in SchedulerOutput
               /\ o.tok = tok /\ o.new = new /\ o.resumed = resumed
               /\ \A r \in Req : o.spec[r] = Most(0, computed[r] + tok[r] - known[r])
<1>1. ASSUME NEW r \in Req PROVE Most(0, computed[r] + tok[r] - known[r]) \in Nat
  <2>1. computed[r] \in 0 .. MaxLen - 1 /\ tok[r] \in Nat /\ known[r] \in 1 .. MaxLen
    BY DEF Types
  <2> QED
    BY <2>1, Numbers DEF Most
<1>2. finished \in SUBSET Req
  BY DEF Types
<1> QED
  BY <1>1, <1>2 DEF Output, SchedulerOutput

\* What a running request is given is a part of its prompt, or its last token
\* with its drafts, and then it has the blocks of a verify round.
LEMMA GivenFacts ==
    ASSUME Types, Queues, Drafting, NEW r \in ToSet(running), Grant(r) > 0
    PROVE  LET n == Most(0, computed[r] + Grant(r) - known[r])
           IN  /\ computed[r] + Grant(r) <= MaxLen - 1 /\ n <= K
               /\ n > 0 => Decoding(r)
               /\ n = K => Need(r, Grant(r)) >= Verify(r)
<1> DEFINE t == Grant(r)
           c == Least(MaxLen, computed[r] + t + K)
           d == Least(MaxLen, known[r] + 2 * K)
<1>1. /\ r \in Req /\ known[r] \in Nat /\ computed[r] \in Nat /\ drafted[r] \in Nat
      /\ drafted[r] <= K /\ (drafted[r] > 0 => drafted[r] = K)
  BY RunningFacts
<1>2. /\ t \in Nat /\ t <= Want(r) /\ Want(r) \in Nat
      /\ computed[r] + Want(r) <= MaxLen - 1
      /\ computed[r] + Want(r) <= known[r] + drafted[r]
      /\ Need(r, t) \in Nat /\ Need(r, t) >= Ceil(c)
  BY NeedFacts, WantFacts
<1>3. drafted[r] = K => Decoding(r)
  BY <1>1 DEF Drafting
<1> HIDE DEF t
<1>4. K \in Nat /\ K >= 1 /\ MaxLen \in Nat
  BY Numbers
<1>5. computed[r] + t <= MaxLen - 1 /\ computed[r] + t <= known[r] + drafted[r]
  BY <1>1, <1>2, <1>4
<1>6. Most(0, computed[r] + t - known[r]) <= K
  BY <1>1, <1>2, <1>4, <1>5 DEF Most
<1>7. ASSUME Most(0, computed[r] + t - known[r]) > 0 PROVE Decoding(r)
  <2>1. drafted[r] > 0
    BY <1>1, <1>2, <1>5, <1>7 DEF Most
  <2> QED
    BY <1>1, <1>3, <2>1
<1>8. ASSUME Most(0, computed[r] + t - known[r]) = K PROVE Need(r, t) >= Verify(r)
  <2>1. computed[r] + t = known[r] + K
    BY <1>1, <1>2, <1>4, <1>8 DEF Most
  <2>2. c = d
    BY <1>1, <1>2, <1>4, <2>1 DEF Least
  <2> QED
    BY <1>2, <2>2 DEF Verify
<1> QED
  BY <1>5, <1>6, <1>7, <1>8 DEF t

\* A round of the running requests, with preemption.
LEMMA RunInv ==
    ASSUME IInv, Scheduling, ScheduleRunning
    PROVE  IInv'
<1> DEFINE out == ToSet(running) \ Staying
           tok == [r \in Req |-> IF r \in Staying THEN Grant(r) ELSE 0]
<1>1. Types /\ Queues /\ Drafting /\ LastBuild /\ Cached
  BY DEF IInv
<1>2. /\ running' = Only(running, Staying) /\ preempted' = Only(running, out) \o preempted
      /\ computed' = [r \in Req |-> IF r \in out THEN 0 ELSE computed[r]]
      /\ drafted' = NoTokens
      /\ blocks' = [r \in Req |-> IF r \in out THEN 0 ELSE Need(r, tok[r])]
      /\ moved' = moved \union out /\ so' = Output(tok, {}, {})
      /\ fresh' = fresh /\ known' = known
  BY DEF ScheduleRunning
<1>3. /\ pc = "schedule" /\ finished' = {} /\ pc' = "execute" /\ batch' = batch
      /\ stateIdx' = stateIdx /\ cache' = cache /\ lastFp' = lastFp /\ fpRounds' = fpRounds
      /\ bargs' = bargs /\ consts' = consts /\ align' = align /\ round' = round
      /\ catchup' = catchup
  BY DEF Scheduling
<1>4. /\ Staying \in SUBSET ToSet(running) /\ IsFiniteSet(Staying)
      /\ Total(Needs, Staying) <= Pool /\ (running # <<>> => running[1] \in Staying)
  BY <1>1, StayingFacts
<1>5. running \in Seq(Req) /\ IsInjective(running) /\ ToSet(running) \in SUBSET Req
      /\ preempted \in Seq(Req) /\ IsInjective(preempted) /\ ToSet(preempted) \in SUBSET Req
  BY <1>1, MembersFinite DEF Types
<1>6. /\ running' \in Seq(Req) /\ IsInjective(running') /\ ToSet(running') = Staying
      /\ Len(running') <= Len(running)
      /\ \A i, j \in DOMAIN running' : i < j =>
            \E a, b \in DOMAIN running : a < b /\ running'[i] = running[a]
                                         /\ running'[j] = running[b]
      /\ running # <<>> => running' # <<>> /\ running'[1] = running[1]
  <2> DEFINE o == Only(running, Staying)
  <2>1. o \in Seq(Req) /\ IsInjective(o) /\ Len(o) <= Len(running)
    BY <1>5, OnlyFacts
  <2>2. \A x : x \in ToSet(o) <=> x \in ToSet(running) /\ x \in Staying
    BY <1>5, OnlyFacts
  <2>3. \A i, j \in DOMAIN o : i < j =>
           \E a, b \in DOMAIN running : a < b /\ o[i] = running[a] /\ o[j] = running[b]
    BY <1>5, OnlyFacts
  <2>4. running # <<>> /\ running[1] \in Staying => o # <<>> /\ o[1] = running[1]
    BY <1>5, OnlyFacts
  <2>5. running' = o
    BY <1>2
  <2>6. ToSet(o) = Staying /\ (running # <<>> => o # <<>> /\ o[1] = running[1])
    BY <1>4, <2>2, <2>4
  <2> HIDE DEF o
  <2> QED
    BY <2>1, <2>3, <2>5, <2>6
<1>7. /\ preempted' \in Seq(Req) /\ IsInjective(preempted')
      /\ \A x : x \in ToSet(preempted') <=> x \in out \/ x \in ToSet(preempted)
  <2> DEFINE o == Only(running, out)
  <2>1. o \in Seq(Req) /\ IsInjective(o) /\ ToSet(o) = out
    BY <1>5, OnlyFacts
  <2>2. ToSet(o) \cap ToSet(preempted) = {}
    BY <1>1, <2>1 DEF Queues
  <2>3. preempted' = o \o preempted
    BY <1>2
  <2> HIDE DEF o
  <2> QED
    BY <1>5, <2>1, <2>2, <2>3, JoinFacts
<1> HIDE DEF out
<1>8. /\ \A r : r \in out <=> r \in ToSet(running) /\ r \notin Staying
      /\ out \in SUBSET Req
  BY <1>5 DEF out
<1>9. tok \in [Req -> Nat] /\ \A r \in Req : tok[r] = IF r \in Staying THEN Grant(r) ELSE 0
  BY <1>1, <1>4, NeedFacts
<1> HIDE DEF tok
<1>10. /\ so' \in SchedulerOutput
       /\ so'.tok = tok /\ so'.new = {} /\ so'.resumed = {}
       /\ \A r \in Req : so'.spec[r] = Most(0, computed[r] + tok[r] - known[r])
  <2> DEFINE o == Output(tok, {}, {})
  <2>1. {} \in SUBSET Req
    OBVIOUS
  <2>2. /\ o \in SchedulerOutput
        /\ o.tok = tok /\ o.new = {} /\ o.resumed = {}
        /\ \A r \in Req : o.spec[r] = Most(0, computed[r] + tok[r] - known[r])
    BY <1>1, <1>9, <2>1, OutputFacts
  <2>3. so' = o
    BY <1>2
  <2> HIDE DEF o
  <2> QED
    BY <2>2, <2>3
<1>11. /\ \A r \in Req : computed'[r] = IF r \in out THEN 0 ELSE computed[r]
       /\ \A r \in Req : drafted'[r] = 0
       /\ \A r \in Staying : blocks'[r] = Needs[r] /\ Needs[r] = Need(r, Grant(r))
       /\ \A r \in Req \ Staying : blocks'[r] = 0
  <2>1. \A r \in Staying : blocks'[r] = Needs[r] /\ Needs[r] = Need(r, Grant(r))
    BY <1>2, <1>4, <1>5, <1>8, <1>9 DEF Needs
  <2>2. ASSUME NEW r \in Req \ Staying PROVE blocks'[r] = 0
    <3>1. CASE r \in out
      BY <1>2, <3>1
    <3>2. CASE r \notin out
      <4>1. r \notin ToSet(running)
        BY <1>8, <2>2, <3>2
      <4> QED
        BY <1>1, <1>2, <1>9, <2>2, <3>2, <4>1 DEF Queues, Need
    <3> QED
      BY <3>1, <3>2
  <2> QED
    BY <1>2, <2>1, <2>2 DEF NoTokens
<1>12. Counts(Needs, Staying) /\ Counts(Needs, ToSet(running))
  BY <1>1, <1>4, NeedsCount DEF Counts
<1>13. Types'
  <2>1. blocks' \in [Req -> Nat]
    <3>1. \A r \in Req : blocks'[r] \in Nat
      BY <1>11, <1>12 DEF Counts
    <3>2. blocks' = [r \in Req |-> blocks'[r]]
      BY <1>2
    <3> QED
      BY <3>1, <3>2
  <2>2. computed' \in [Req -> 0 .. MaxLen - 1] /\ drafted' \in [Req -> {0, K}]
    <3>1. 0 \in 0 .. MaxLen - 1 \/ Req = {}
      BY Numbers
    <3> QED
      BY <1>1, <1>2, <3>1 DEF Types, NoTokens
  <2>3. moved' \subseteq Req
    BY <1>1, <1>2, <1>8 DEF Types
  <2> QED
    BY <1>1, <1>2, <1>3, <1>6, <1>7, <1>10, <2>1, <2>2, <2>3 DEF Types
<1>14. /\ \A r : r \in Live' <=> r \in Live
  BY <1>2, <1>4, <1>6, <1>7, <1>8 DEF Live
<1>15. Queues'
  <2>1. ToSet(running') \cap ToSet(preempted') = {}
    BY <1>1, <1>4, <1>6, <1>7, <1>8 DEF Queues
  <2>2. fresh' \cap (ToSet(running') \union ToSet(preempted')) = {}
    BY <1>1, <1>2, <1>4, <1>6, <1>7, <1>8 DEF Queues
  <2>3. Len(running') <= MaxSeqs
    <3>1. Len(running') \in Nat /\ Len(running) \in Nat /\ Len(running) <= MaxSeqs
      BY <1>1, <1>5, <1>6, PlacesFacts DEF Queues
    <3> QED
      BY <1>6, <3>1, Numbers
  <2>4. Total(blocks', ToSet(running')) <= Pool
    <3>1. Counts(blocks', Staying) /\ \A r \in Staying : blocks'[r] <= Needs[r]
      BY <1>11, <1>12 DEF Counts
    <3>2. Total(blocks', Staying) <= Total(Needs, Staying)
      BY <1>4, <1>12, <3>1, TotalMonotone
    <3>3. Total(blocks', Staying) \in Nat /\ Total(Needs, Staying) \in Nat
      BY <1>4, <1>12, <3>1, TotalType
    <3>4. Total(blocks', Staying) <= Pool
      BY <1>4, <3>2, <3>3, Numbers
    <3> QED
      BY <1>6, <3>4
  <2>5. \A r \in Live : r \in Req
    BY <1>1, <1>5 DEF Live, Types
  <2>6. \A r \in Live' : computed'[r] < known'[r] /\ known'[r] < MaxLen
    <3> SUFFICES ASSUME NEW r \in Live PROVE computed'[r] < known[r] /\ known[r] < MaxLen
      BY <1>2, <1>14
    <3>1. r \in Req /\ computed[r] < known[r] /\ known[r] < MaxLen /\ known[r] \in 1 .. MaxLen
      BY <1>1, <2>5 DEF Queues, Types
    <3>2. 0 < known[r]
      BY <3>1, Numbers
    <3> QED
      BY <1>11, <3>1, <3>2
  <2>7. \A r \in Live' \ ToSet(running') : computed'[r] = 0
    <3> SUFFICES ASSUME NEW r \in Live, r \notin Staying PROVE computed'[r] = 0
      BY <1>6, <1>14
    <3>1. r \notin out => r \notin ToSet(running)
      BY <1>8
    <3>2. r \notin ToSet(running) => computed[r] = 0
      BY <1>1 DEF Queues
    <3> QED
      BY <1>11, <2>5, <3>1, <3>2
  <2>8. \A r \in Req \ ToSet(running') : blocks'[r] = 0
    BY <1>6, <1>11
  <2> QED
    BY <1>1, <1>2, <2>1, <2>2, <2>3, <2>4, <2>6, <2>7, <2>8 DEF Queues
<1>16. Drafting'
  BY <1>11, Numbers DEF Drafting
<1>17. \A r \in Req : r \in Scheduled' <=> r \in Staying /\ Grant(r) > 0
  BY <1>9, <1>10 DEF Scheduled
<1>18. Granted'
  <2>1. Scheduled' \subseteq Staying
    BY <1>17 DEF Scheduled
  <2>2. ASSUME NEW r \in Scheduled'
        PROVE  /\ computed'[r] + so'.tok[r] <= MaxLen - 1
               /\ so'.spec[r] = Most(0, computed'[r] + so'.tok[r] - known'[r])
               /\ so'.spec[r] <= K
               /\ so'.spec[r] > 0 => Decoding(r)'
               /\ so'.spec[r] = K => blocks'[r] >= Verify(r)'
    <3>1. r \in Req /\ r \in Staying /\ Grant(r) > 0 /\ r \in ToSet(running) /\ r \notin out
      BY <1>4, <1>5, <1>8, <1>17, <2>1
    <3>2. /\ computed'[r] = computed[r] /\ known'[r] = known[r] /\ so'.tok[r] = Grant(r)
          /\ blocks'[r] = Need(r, Grant(r))
          /\ so'.spec[r] = Most(0, computed[r] + Grant(r) - known[r])
      BY <1>2, <1>9, <1>10, <1>11, <3>1
    <3>3. Decoding(r)' <=> Decoding(r)
      BY <3>2 DEF Decoding
    <3>4. Verify(r)' = Verify(r)
      BY <3>2 DEF Verify
    <3> QED
      BY <1>1, <3>1, <3>2, <3>3, <3>4, GivenFacts
  <2> QED
    BY <1>6, <1>10, <2>1, <2>2 DEF Granted
<1>19. InOrder'
  <2>1. ASSUME running' # <<>>
        PROVE  /\ so'.tok[running'[1]] > 0
               /\ so'.tok[running'[1]] < Budget =>
                    computed'[running'[1]] + so'.tok[running'[1]] >= known'[running'[1]]
    <3>1. running # <<>>
      <4>1. 1 \in DOMAIN running'
        BY <1>6, <2>1, PlacesFacts
      <4>2. ToSet(running) # {}
        BY <1>4, <1>6, <4>1 DEF ToSet
      <4> QED
        BY <4>2 DEF ToSet
    <3> DEFINE r == running[1]
    <3>2. running'[1] = r /\ r \in Staying /\ r \in Req /\ r \notin out
      BY <1>4, <1>5, <1>6, <1>8, <3>1
    <3>3. Grant(r) > 0 /\ (Grant(r) < Budget => computed[r] + Grant(r) >= known[r])
      BY <1>1, <3>1, HeadGrant
    <3> HIDE DEF r
    <3> QED
      BY <1>2, <1>9, <1>10, <1>11, <3>2, <3>3
  <2>2. ASSUME NEW i \in DOMAIN running', NEW j \in DOMAIN running', i < j,
               so'.tok[running'[j]] > 0
        PROVE  so'.tok[running'[i]] > 0
    <3>1. PICK a \in DOMAIN running, b \in DOMAIN running :
             a < b /\ running'[i] = running[a] /\ running'[j] = running[b]
      BY <1>6, <2>2
    <3>2. running'[i] \in Staying /\ running'[j] \in Staying
      BY <1>6 DEF ToSet
    <3>3. so'.tok[running'[i]] = Grant(running[a]) /\ so'.tok[running'[j]] = Grant(running[b])
      BY <1>4, <1>5, <1>9, <1>10, <3>1, <3>2
    <3> QED
      BY <1>1, <2>2, <3>1, <3>3, GrantInOrder
  <2> QED
    BY <2>1, <2>2 DEF InOrder
<1>20. Sampling'
  BY <1>3 DEF Sampling
<1>21. LastBuild'
  <2> SUFFICES ASSUME Len(lastFp) = 1, lastFp[1][1] \in Live
               PROVE  LET r == lastFp[1][1]
                      IN  running' # <<>> /\ running'[1] = r /\ known'[r] = computed'[r] + 1
    BY <1>3, <1>14 DEF LastBuild
  <2> DEFINE r == lastFp[1][1]
  <2>1. running # <<>> /\ running[1] = r /\ known[r] = computed[r] + 1
    BY <1>1, <1>3 DEF LastBuild
  <2>2. r \in Staying /\ r \in Req /\ r \notin out
    BY <1>4, <1>5, <1>8, <2>1
  <2> HIDE DEF r
  <2> QED
    BY <1>2, <1>6, <1>11, <2>1, <2>2 DEF r
<1>22. Cached'
  <2>1. \A r \in Members : Verify(r) > Held[r] => Verify(r)' > Held[r]
    BY <1>2 DEF Verify
  <2>2. ASSUME Intact, \A r \in Members : ~(Verify(r) > Held[r]) PROVE Intact'
    <3>1. Members' = Members
      BY <1>3 DEF Members
    <3>2. Held' = Held
      BY <1>3, <3>1 DEF Held
    <3>3. Members \in SUBSET Staying /\ \A r \in Members : Needs[r] <= Held[r]
      BY <1>1, <2>2, MembersStay
    <3>4. \A i, j \in DOMAIN running' :
             running'[i] \in Members /\ running'[j] \notin Members => i < j
      BY <1>1, <1>2, <2>2, OrderKept
    <3>5. ASSUME NEW r \in Members PROVE blocks'[r] <= Held[r] /\ Decoding(r)'
      <4>1. r \in Staying /\ r \in Req /\ r \notin out /\ Decoding(r)
        BY <1>4, <1>5, <1>8, <2>2, <3>3 DEF Intact
      <4> QED
        BY <1>2, <1>11, <3>3, <4>1 DEF Decoding
    <3>6. Members \cap moved' = {} /\ Members \cap catchup' = {}
      BY <1>2, <1>3, <1>8, <2>2, <3>3 DEF Intact
    <3>7. Total(Held, Members) <= Pool
      BY <2>2 DEF Intact
    <3> QED
      BY <1>6, <3>1, <3>2, <3>3, <3>4, <3>5, <3>6, <3>7 DEF Intact
  <2> QED
    BY <1>1, <1>3, <1>14, <2>1, <2>2, CacheKept
<1>23. ServedBlocksCurrent' /\ CatchupNeverServed'
  BY <1>3, <1>22 DEF ServedBlocksCurrent, CatchupNeverServed, Served, Cached
<1> QED
  BY <1>13, <1>15, <1>16, <1>18, <1>19, <1>20, <1>21, <1>22, <1>23 DEF IInv

\* A round in which nobody is preempted and a request joins.
LEMMA AdmitInv ==
    ASSUME IInv, Scheduling, NEW r \in Req, ScheduleAdmit(r)
    PROVE  IInv'
<1> DEFINE room == Budget - Total(Grants, ToSet(running))
           tok  == [s \in Req |-> IF s = r THEN Least(known[r], room) ELSE Grant(s)]
           first == Ceil(tok[r])
<1>1. Types /\ Queues /\ Drafting /\ LastBuild /\ Cached
  BY DEF IInv
<1>2. /\ Staying = ToSet(running) /\ Len(running) < MaxSeqs /\ room > 0
      /\ (IF preempted # <<>> THEN r = Head(preempted) ELSE r \in fresh)
      /\ Total(Needs, ToSet(running)) + first <= Pool
      /\ running' = Append(running, r) /\ preempted' = Only(preempted, Req \ {r})
      /\ fresh' = fresh \ {r} /\ drafted' = NoTokens
      /\ blocks' = [s \in Req |-> IF s = r THEN first ELSE Need(s, tok[s])]
      /\ so' = Output(tok, {r} \cap fresh, {r} \ fresh)
      /\ known' = known /\ computed' = computed /\ moved' = moved
  BY DEF ScheduleAdmit, Grants, Needed, Needs
<1>3. /\ pc = "schedule" /\ finished' = {} /\ pc' = "execute" /\ batch' = batch
      /\ stateIdx' = stateIdx /\ cache' = cache /\ lastFp' = lastFp /\ fpRounds' = fpRounds
      /\ bargs' = bargs /\ consts' = consts /\ align' = align /\ round' = round
      /\ catchup' = catchup
  BY DEF Scheduling
<1>5. /\ running \in Seq(Req) /\ IsInjective(running) /\ ToSet(running) \in SUBSET Req
      /\ IsFiniteSet(ToSet(running))
      /\ preempted \in Seq(Req) /\ IsInjective(preempted) /\ ToSet(preempted) \in SUBSET Req
      /\ Len(running) \in Nat /\ DOMAIN running = 1 .. Len(running)
  BY <1>1, MembersFinite, PlacesFacts DEF Types
<1>6. r \in ToSet(preempted) \union fresh /\ r \notin ToSet(running)
  <2>1. preempted # <<>> => Head(preempted) = preempted[1] /\ 1 \in DOMAIN preempted
    BY <1>5, PlacesFacts
  <2>2. r \in ToSet(preempted) \union fresh
    BY <1>2, <2>1 DEF ToSet
  <2> QED
    BY <1>1, <2>2 DEF Queues
<1>7. /\ running' \in Seq(Req) /\ IsInjective(running') /\ Len(running') = Len(running) + 1
      /\ \A x : x \in ToSet(running') <=> x \in ToSet(running) \/ x = r
      /\ \A i \in DOMAIN running : i \in DOMAIN running' /\ running'[i] = running[i]
      /\ \A i \in DOMAIN running' :
            i \in DOMAIN running \/ (i = Len(running) + 1 /\ running'[i] = r)
  BY <1>2, <1>5, <1>6, AppendFacts
<1>8. /\ preempted' \in Seq(Req) /\ IsInjective(preempted')
      /\ \A x : x \in ToSet(preempted') <=> x \in ToSet(preempted) /\ x # r
  <2> DEFINE o == Only(preempted, Req \ {r})
  <2>1. o \in Seq(Req) /\ IsInjective(o)
    BY <1>5, OnlyFacts
  <2>2. \A x : x \in ToSet(o) <=> x \in ToSet(preempted) /\ x \in Req \ {r}
    BY <1>5, OnlyFacts
  <2> QED
    BY <1>2, <1>5, <2>1, <2>2
<1>9. /\ Counts(Grants, ToSet(running)) /\ Counts(Needs, ToSet(running))
      /\ \A s \in Req \ ToSet(running) : Grant(s) = 0
      /\ \A s \in ToSet(running) : Grant(s) \in Nat
  BY <1>1, <1>5, NeedFacts, NeedsCount DEF Counts, Grants, Grant
<1>10. /\ known[r] \in Nat /\ known[r] >= 1 /\ known[r] < MaxLen /\ computed[r] = 0
       /\ r \in Live /\ room \in Int /\ Total(Grants, ToSet(running)) \in Nat
  <2>1. r \in Live /\ r \notin ToSet(running)
    BY <1>6 DEF Live
  <2>2. known[r] \in 1 .. MaxLen
    BY <1>1 DEF Types
  <2>3. Total(Grants, ToSet(running)) \in Nat
    BY <1>5, <1>9, TotalType
  <2>4. known[r] < MaxLen /\ computed[r] = 0
    BY <1>1, <2>1 DEF Queues
  <2> QED
    BY <2>1, <2>2, <2>3, <2>4, Numbers
<1>11. tok[r] \in Nat /\ tok[r] > 0 /\ tok[r] <= known[r] /\ (tok[r] = known[r] \/ tok[r] = room)
  <2> HIDE DEF room
  <2>1. tok[r] = Least(known[r], room)
    OBVIOUS
  <2> QED
    BY <1>2, <1>10, <2>1 DEF Least
<1>12. tok \in [Req -> Nat] /\ \A s \in Req : s # r => tok[s] = Grant(s)
  <2> HIDE DEF room
  <2>1. \A s \in Req : tok[s] \in Nat
    BY <1>9, <1>11
  <2> QED
    BY <2>1
<1>13. first \in Nat
  <2> HIDE DEF tok
  <2> QED
    BY <1>11, CeilFacts
<1> HIDE DEF tok, first
<1>14. /\ so' \in SchedulerOutput /\ so'.tok = tok
       /\ \A s : s \in so'.new \union so'.resumed <=> s = r
       /\ \A s \in Req : so'.spec[s] = Most(0, computed[s] + tok[s] - known[s])
  <2> DEFINE a == {r} \cap fresh
             b == {r} \ fresh
             o == Output(tok, a, b)
  <2>1. \A s : s \in a \union b <=> s = r
    OBVIOUS
  <2>2. so' = o
    BY <1>2
  <2>a. a \in SUBSET Req
    OBVIOUS
  <2>b. b \in SUBSET Req
    OBVIOUS
  <2> HIDE DEF a, b
  <2>3. /\ o \in SchedulerOutput /\ o.tok = tok /\ o.new = a /\ o.resumed = b
        /\ \A s \in Req : o.spec[s] = Most(0, computed[s] + tok[s] - known[s])
    BY <1>1, <1>12, <2>a, <2>b, OutputFacts
  <2> HIDE DEF o
  <2> QED
    BY <2>1, <2>2, <2>3
<1>15. /\ blocks'[r] = first /\ \A s \in Req : drafted'[s] = 0
       /\ \A s \in ToSet(running) : blocks'[s] = Needs[s] /\ Needs[s] = Need(s, Grant(s))
       /\ \A s \in Req : s \notin ToSet(running) /\ s # r => blocks'[s] = 0
  <2>1. \A s \in ToSet(running) : s \in Req /\ s # r
    BY <1>5, <1>6
  <2>2. \A s \in Req : s \notin ToSet(running) /\ s # r => Need(s, tok[s]) = blocks[s] /\ blocks[s] = 0
    BY <1>1, <1>9, <1>12 DEF Need, Queues
  <2> QED
    BY <1>2, <1>12, <2>1, <2>2 DEF Needs, NoTokens
<1>16. Types'
  <2>1. blocks' \in [Req -> Nat]
    <3>1. \A s \in Req : blocks'[s] \in Nat
      BY <1>9, <1>13, <1>15 DEF Counts
    <3>2. blocks' = [s \in Req |-> blocks'[s]]
      BY <1>2
    <3> QED
      BY <3>1, <3>2
  <2>2. drafted' \in [Req -> {0, K}]
    BY <1>2 DEF NoTokens
  <2> QED
    BY <1>1, <1>2, <1>3, <1>7, <1>8, <1>14, <2>1, <2>2 DEF Types
<1>17. \A s : s \in Live' <=> s \in Live
  BY <1>2, <1>6, <1>7, <1>8 DEF Live
<1>18. Queues'
  <2>1. ToSet(running') \cap ToSet(preempted') = {}
    BY <1>1, <1>7, <1>8 DEF Queues
  <2>2. fresh' \cap (ToSet(running') \union ToSet(preempted')) = {}
    BY <1>1, <1>2, <1>7, <1>8 DEF Queues
  <2>3. Len(running') <= MaxSeqs
    BY <1>2, <1>5, <1>7, Numbers
  <2>4. Total(blocks', ToSet(running')) <= Pool
    <3>1. Counts(blocks', ToSet(running)) /\ \A s \in ToSet(running) : blocks'[s] <= Needs[s]
      BY <1>9, <1>15 DEF Counts
    <3>2. Total(blocks', ToSet(running)) <= Total(Needs, ToSet(running))
      BY <1>5, <1>9, <3>1, TotalMonotone
    <3>3. Total(blocks', ToSet(running)) \in Nat /\ Total(Needs, ToSet(running)) \in Nat
      BY <1>5, <1>9, <3>1, TotalType
    <3>4. Total(blocks', ToSet(running) \union {r}) = Total(blocks', ToSet(running)) + first
      BY <1>5, <1>6, <1>13, <1>15, <3>1, TotalAdd
    <3>5. ToSet(running') = ToSet(running) \union {r}
      BY <1>7
    <3>6. Total(blocks', ToSet(running')) = Total(blocks', ToSet(running)) + first
      BY <3>4, <3>5
    <3> QED
      BY <1>2, <1>13, <3>2, <3>3, <3>6, Numbers
  <2>5. \A s \in Live' : computed'[s] < known'[s] /\ known'[s] < MaxLen
    BY <1>1, <1>2, <1>17 DEF Queues
  <2>6. \A s \in Live' \ ToSet(running') : computed'[s] = 0
    BY <1>1, <1>2, <1>7, <1>17 DEF Queues
  <2>7. \A s \in Req \ ToSet(running') : blocks'[s] = 0
    BY <1>7, <1>15
  <2> QED
    BY <1>1, <1>2, <2>1, <2>2, <2>3, <2>4, <2>5, <2>6, <2>7 DEF Queues
<1>19. Drafting'
  BY <1>15, Numbers DEF Drafting
<1>20. \A s \in Req : s \in Scheduled' <=> s = r \/ (s \in ToSet(running) /\ Grant(s) > 0)
  <2>1. \A s \in Req : s \in Scheduled' <=> tok[s] > 0
    BY <1>14 DEF Scheduled
  <2>2. \A s \in Req : s # r => (tok[s] > 0 <=> s \in ToSet(running) /\ Grant(s) > 0)
    BY <1>9, <1>12
  <2> QED
    BY <1>11, <2>1, <2>2
<1>21. so'.spec[r] = 0
  BY <1>10, <1>11, <1>14 DEF Most
<1>22. Granted'
  <2>1. Scheduled' \subseteq ToSet(running') /\ \A s \in Scheduled' : s \in Req
    BY <1>7, <1>20 DEF Scheduled
  <2>2. ASSUME NEW s \in Scheduled'
        PROVE  /\ computed'[s] + so'.tok[s] <= MaxLen - 1
               /\ so'.spec[s] = Most(0, computed'[s] + so'.tok[s] - known'[s])
               /\ so'.spec[s] <= K
               /\ so'.spec[s] > 0 => Decoding(s)'
               /\ so'.spec[s] = K => blocks'[s] >= Verify(s)'
    <3>1. CASE s = r
      <4>1. computed'[s] + so'.tok[s] <= MaxLen - 1
        BY <1>2, <1>10, <1>11, <1>14, <3>1, Numbers
      <4>2. so'.spec[s] = Most(0, computed'[s] + so'.tok[s] - known'[s])
        BY <1>2, <1>14, <3>1
      <4> QED
        BY <1>21, <3>1, <4>1, <4>2, Numbers
    <3>2. CASE s # r
      <4>1. s \in Req /\ s \in ToSet(running) /\ Grant(s) > 0
        BY <1>20, <2>1, <3>2
      <4>2. /\ computed'[s] = computed[s] /\ known'[s] = known[s] /\ so'.tok[s] = Grant(s)
            /\ blocks'[s] = Need(s, Grant(s))
            /\ so'.spec[s] = Most(0, computed[s] + Grant(s) - known[s])
        BY <1>2, <1>12, <1>14, <1>15, <3>2, <4>1
      <4>3. Decoding(s)' <=> Decoding(s)
        BY <4>2 DEF Decoding
      <4>4. Verify(s)' = Verify(s)
        BY <4>2 DEF Verify
      <4> QED
        BY <1>1, <4>1, <4>2, <4>3, <4>4, GivenFacts
    <3> QED
      BY <3>1, <3>2
  <2> QED
    BY <1>14, <1>21, <2>1, <2>2 DEF Granted
<1>23. InOrder'
  <2>1. /\ so'.tok[running'[1]] > 0
        /\ so'.tok[running'[1]] < Budget =>
             computed'[running'[1]] + so'.tok[running'[1]] >= known'[running'[1]]
    <3>1. CASE running = <<>>
      <4>1. ToSet(running) = {} /\ Len(running) = 0
        BY <3>1 DEF ToSet
      <4>2. running'[1] = r
        BY <1>2, <3>1
      <4>3. Total(Grants, ToSet(running)) = 0
        BY <4>1, TotalEmpty
      <4>4. room = Budget
        BY <4>3, Numbers
      <4>5. so'.tok[r] = tok[r] /\ known'[r] = known[r] /\ computed'[r] = 0
        BY <1>2, <1>10, <1>14
      <4>6. tok[r] \in Nat /\ tok[r] > 0 /\ (tok[r] = known[r] \/ tok[r] = Budget)
        BY <1>11, <4>4
      <4>7. known[r] \in Nat
        BY <1>10
      <4> QED
        BY <4>2, <4>5, <4>6, <4>7, Numbers
    <3>2. CASE running # <<>>
      <4> DEFINE h == running[1]
      <4>1. /\ 1 \in DOMAIN running /\ h \in ToSet(running)
            /\ Grant(h) > 0 /\ (Grant(h) < Budget => computed[h] + Grant(h) >= known[h])
        BY <1>1, <3>2, HeadGrant
      <4>2. running'[1] = h /\ h # r /\ h \in Req
        BY <1>5, <1>6, <1>7, <4>1
      <4> HIDE DEF h
      <4> QED
        BY <1>2, <1>12, <1>14, <4>1, <4>2
    <3> QED
      BY <3>1, <3>2
  <2>2. ASSUME NEW i \in DOMAIN running', NEW j \in DOMAIN running', i < j,
               so'.tok[running'[j]] > 0, running'[j] # r
        PROVE  so'.tok[running'[i]] > 0
    <3>1. j \in DOMAIN running
      BY <1>7, <2>2
    <3>2. i \in DOMAIN running
      <4>1. i \in Nat /\ i >= 1
        BY <1>7, PlacesFacts
      <4> QED
        BY <1>5, <2>2, <3>1, <4>1
    <3>3. /\ running'[i] = running[i] /\ running'[j] = running[j]
          /\ running[i] \in ToSet(running) /\ running[j] \in ToSet(running)
      BY <1>7, <3>1, <3>2 DEF ToSet
    <3>4. so'.tok[running'[i]] = Grant(running[i]) /\ so'.tok[running'[j]] = Grant(running[j])
      BY <1>5, <1>6, <1>12, <1>14, <3>3
    <3> QED
      BY <1>1, <2>2, <3>1, <3>2, <3>4, GrantInOrder
  <2> QED
    BY <1>14, <2>1, <2>2 DEF InOrder
<1>24. Sampling'
  BY <1>3 DEF Sampling
<1>25. LastBuild'
  <2> SUFFICES ASSUME Len(lastFp) = 1, lastFp[1][1] \in Live
               PROVE  LET h == lastFp[1][1]
                      IN  running' # <<>> /\ running'[1] = h /\ known'[h] = computed'[h] + 1
    BY <1>3, <1>17 DEF LastBuild
  <2> DEFINE h == lastFp[1][1]
  <2>1. running # <<>> /\ running[1] = h /\ known[h] = computed[h] + 1
    BY <1>1, <1>3 DEF LastBuild
  <2>2. 1 \in DOMAIN running
    BY <1>5, <2>1, PlacesFacts
  <2>3. 1 \in DOMAIN running' /\ running'[1] = h
    BY <1>7, <2>1, <2>2
  <2>4. running' # <<>>
    BY <2>3
  <2> HIDE DEF h
  <2> QED
    BY <1>2, <2>1, <2>3, <2>4 DEF h
<1>26. Cached'
  <2>1. \A s \in Members : Verify(s) > Held[s] => Verify(s)' > Held[s]
    BY <1>2 DEF Verify
  <2>2. ASSUME Intact, \A s \in Members : ~(Verify(s) > Held[s]) PROVE Intact'
    <3>1. Members' = Members
      BY <1>3 DEF Members
    <3>2. Held' = Held
      BY <1>3, <3>1 DEF Held
    <3>3. Members \in SUBSET ToSet(running) /\ \A s \in Members : Needs[s] <= Held[s]
      BY <1>1, <1>2, <2>2, MembersStay
    <3>4. ASSUME NEW i \in DOMAIN running', NEW j \in DOMAIN running',
                 running'[i] \in Members, running'[j] \notin Members
          PROVE  i < j
      <4>1. i \in DOMAIN running
        BY <1>6, <1>7, <3>3, <3>4
      <4>2. CASE j \in DOMAIN running
        <5>1. running[i] \in Members /\ running[j] \notin Members
          BY <1>7, <3>4, <4>1, <4>2
        <5> QED
          BY <2>2, <4>1, <4>2, <5>1 DEF Intact
      <4>3. CASE j = Len(running) + 1
        BY <1>5, <4>1, <4>3
      <4> QED
        BY <1>7, <4>2, <4>3
    <3>5. ASSUME NEW s \in Members PROVE blocks'[s] <= Held[s] /\ Decoding(s)'
      <4>1. s \in ToSet(running) /\ Decoding(s)
        BY <2>2, <3>3 DEF Intact
      <4> QED
        BY <1>2, <1>15, <3>3, <4>1 DEF Decoding
    <3>6. Members \cap moved' = {} /\ Members \cap catchup' = {}
      BY <1>2, <1>3, <2>2 DEF Intact
    <3>7. Total(Held, Members) <= Pool
      BY <2>2 DEF Intact
    <3>8. Members \subseteq ToSet(running')
      BY <1>7, <3>3
    <3> QED
      BY <3>1, <3>2, <3>4, <3>5, <3>6, <3>7, <3>8 DEF Intact
  <2> QED
    BY <1>1, <1>3, <1>17, <2>1, <2>2, CacheKept
<1>27. ServedBlocksCurrent' /\ CatchupNeverServed'
  BY <1>3, <1>26 DEF ServedBlocksCurrent, CatchupNeverServed, Served, Cached
<1> QED
  BY <1>16, <1>18, <1>19, <1>22, <1>23, <1>24, <1>25, <1>26, <1>27 DEF IInv
-----------------------------------------------------------------------------
(* A client's abort, and the round with nothing to run.                    *)

LEMMA AbortInv ==
    ASSUME IInv, NEW r \in Req, Abort(r)
    PROVE  IInv'
<1>1. Types /\ Queues /\ Drafting /\ LastBuild /\ Cached
  BY DEF IInv
<1>2. /\ pc = "schedule" /\ r \in ToSet(running) \union ToSet(preempted)
      /\ running' = Only(running, Req \ {r}) /\ preempted' = Only(preempted, Req \ {r})
      /\ blocks' = [blocks EXCEPT ![r] = 0] /\ drafted' = [drafted EXCEPT ![r] = 0]
      /\ finished' = finished \union {r} /\ moved' = moved \union {r}
      /\ fresh' = fresh /\ known' = known /\ computed' = computed /\ so' = so /\ pc' = pc
      /\ batch' = batch /\ stateIdx' = stateIdx /\ cache' = cache /\ lastFp' = lastFp
      /\ fpRounds' = fpRounds /\ bargs' = bargs /\ consts' = consts /\ align' = align
      /\ round' = round /\ catchup' = catchup
  BY DEF Abort
<1>3. /\ running \in Seq(Req) /\ IsInjective(running) /\ ToSet(running) \in SUBSET Req
      /\ IsFiniteSet(ToSet(running)) /\ Len(running) \in Nat
      /\ preempted \in Seq(Req) /\ IsInjective(preempted) /\ ToSet(preempted) \in SUBSET Req
  BY <1>1, MembersFinite, PlacesFacts DEF Types
<1>4. /\ running' \in Seq(Req) /\ IsInjective(running') /\ Len(running') <= Len(running)
      /\ \A x : x \in ToSet(running') <=> x \in ToSet(running) /\ x # r
      /\ running # <<>> /\ running[1] # r => running' # <<>> /\ running'[1] = running[1]
  <2> DEFINE o == Only(running, Req \ {r})
  <2>0. running \in Seq(Req) /\ IsInjective(running)
    BY <1>3
  <2>1. o \in Seq(Req) /\ IsInjective(o) /\ Len(o) <= Len(running)
    BY <2>0, OnlyFacts
  <2>2. \A x : x \in ToSet(o) <=> x \in ToSet(running) /\ x \in Req \ {r}
    BY <2>0, OnlyFacts
  <2>3. running # <<>> /\ running[1] \in Req \ {r} => o # <<>> /\ o[1] = running[1]
    BY <2>0, OnlyFacts
  <2>4. running # <<>> => running[1] \in Req
    BY <1>3, PlacesFacts
  <2>5. running' = o
    BY <1>2
  <2> HIDE DEF o
  <2> QED
    BY <1>3, <2>1, <2>2, <2>3, <2>4, <2>5
<1>5. /\ preempted' \in Seq(Req) /\ IsInjective(preempted')
      /\ \A x : x \in ToSet(preempted') <=> x \in ToSet(preempted) /\ x # r
  <2> DEFINE o == Only(preempted, Req \ {r})
  <2>1. o \in Seq(Req) /\ IsInjective(o)
    BY <1>3, OnlyFacts
  <2>2. \A x : x \in ToSet(o) <=> x \in ToSet(preempted) /\ x \in Req \ {r}
    BY <1>3, OnlyFacts
  <2> QED
    BY <1>2, <1>3, <2>1, <2>2
<1>6. /\ \A s \in Req : s # r => blocks'[s] = blocks[s] /\ drafted'[s] = drafted[s]
      /\ blocks'[r] = 0 /\ drafted'[r] = 0
  BY <1>1, <1>2 DEF Types
<1>7. \A s : s \in Live' <=> s \in Live /\ s # r
  BY <1>1, <1>2, <1>4, <1>5 DEF Live, Queues
<1>8. Types'
  BY <1>1, <1>2, <1>4, <1>5 DEF Types
<1>9. Queues'
  <2>1. ToSet(running') \cap ToSet(preempted') = {}
    BY <1>1, <1>4, <1>5 DEF Queues
  <2>2. fresh' \cap (ToSet(running') \union ToSet(preempted')) = {}
    BY <1>1, <1>2, <1>4, <1>5 DEF Queues
  <2>3. Len(running') <= MaxSeqs
    <3>1. Len(running') \in Nat /\ Len(running) <= MaxSeqs
      BY <1>1, <1>4, PlacesFacts DEF Queues
    <3> QED
      BY <1>3, <1>4, <3>1, Numbers
  <2>4. \A s \in Req \ ToSet(running') : blocks'[s] = 0
    BY <1>1, <1>4, <1>6 DEF Queues
  <2>5. Total(blocks', ToSet(running')) <= Pool
    <3>1. ToSet(running') \in SUBSET ToSet(running)
      BY <1>4
    <3>2. Counts(blocks, ToSet(running)) /\ Counts(blocks', ToSet(running'))
      BY <1>1, <1>3, <1>4, <1>6 DEF Counts, Types
    <3>3. \A s \in ToSet(running') : blocks'[s] <= blocks[s]
      BY <1>3, <1>4, <1>6, <3>1, <3>2 DEF Counts
    <3>4. Total(blocks', ToSet(running')) <= Total(blocks, ToSet(running))
      BY <1>3, <3>1, <3>2, <3>3, TotalMonotone
    <3>5. IsFiniteSet(ToSet(running'))
      BY <1>3, <3>1, FS_Subset
    <3>6. Total(blocks', ToSet(running')) \in Nat /\ Total(blocks, ToSet(running)) \in Nat
      BY <1>3, <3>2, <3>5, TotalType
    <3>7. Total(blocks, ToSet(running)) <= Pool
      BY <1>1 DEF Queues
    <3> QED
      BY <3>4, <3>6, <3>7, Numbers
  <2>6. \A s \in Live' : computed'[s] < known'[s] /\ known'[s] < MaxLen
    BY <1>1, <1>2, <1>7 DEF Queues
  <2>7. \A s \in Live' \ ToSet(running') : computed'[s] = 0
    BY <1>1, <1>2, <1>4, <1>7 DEF Queues
  <2> QED
    BY <1>1, <1>2, <2>1, <2>2, <2>3, <2>4, <2>5, <2>6, <2>7 DEF Queues
<1>10. Drafting'
  <2> SUFFICES ASSUME NEW s \in Req, drafted'[s] = K PROVE Decoding(s)'
    BY DEF Drafting
  <2>1. s # r
    BY <1>6, Numbers
  <2>2. Decoding(s)
    BY <1>1, <1>6, <2>1 DEF Drafting
  <2> QED
    BY <1>2, <2>2 DEF Decoding
<1>11. Granted' /\ InOrder' /\ Sampling'
  BY <1>2 DEF Granted, InOrder, Sampling
<1>12. LastBuild'
  <2> SUFFICES ASSUME Len(lastFp) = 1, lastFp[1][1] \in Live'
               PROVE  LET h == lastFp[1][1]
                      IN  running' # <<>> /\ running'[1] = h /\ known'[h] = computed'[h] + 1
    BY <1>2 DEF LastBuild
  <2> DEFINE h == lastFp[1][1]
  <2>1. running # <<>> /\ running[1] = h /\ known[h] = computed[h] + 1 /\ h # r
    BY <1>1, <1>2, <1>7 DEF LastBuild
  <2> HIDE DEF h
  <2> QED
    BY <1>2, <1>4, <2>1 DEF h
<1>13. Cached'
  <2>1. \A s \in Members : Verify(s) > Held[s] => Verify(s)' > Held[s]
    BY <1>2 DEF Verify
  <2>2. ASSUME Intact PROVE Intact' \/ \E s \in Members : s \notin Live'
    <3>1. CASE r \in Members
      BY <1>7, <3>1
    <3>2. CASE r \notin Members
      <4>1. Members' = Members
        BY <1>2 DEF Members
      <4>2. Held' = Held
        BY <1>2, <4>1 DEF Held
      <4>3. Members \subseteq ToSet(running')
        BY <1>4, <2>2, <3>2 DEF Intact
      <4>4. \A i, j \in DOMAIN running' :
               running'[i] \in Members /\ running'[j] \notin Members => i < j
        BY <1>1, <1>2, <2>2, OrderKept
      <4>5. ASSUME NEW s \in Members PROVE blocks'[s] <= Held[s] /\ Decoding(s)'
        <5>1. s \in Req /\ s # r /\ blocks[s] <= Held[s] /\ Decoding(s)
          BY <1>3, <2>2, <3>2 DEF Intact
        <5> QED
          BY <1>2, <1>6, <5>1 DEF Decoding
      <4>6. Members \cap moved' = {} /\ Members \cap catchup' = {}
        BY <1>2, <2>2, <3>2 DEF Intact
      <4>7. Total(Held, Members) <= Pool
        BY <2>2 DEF Intact
      <4> QED
        BY <4>1, <4>2, <4>3, <4>4, <4>5, <4>6, <4>7 DEF Intact
    <3> QED
      BY <3>1, <3>2
  <2> QED
    BY <1>1, <1>2, <1>7, <2>1, <2>2, CacheKept
<1>14. ServedBlocksCurrent' /\ CatchupNeverServed'
  BY <1>2, <1>13 DEF ServedBlocksCurrent, CatchupNeverServed, Served, Cached
<1> QED
  BY <1>8, <1>9, <1>10, <1>11, <1>12, <1>13, <1>14 DEF IInv

LEMMA EmptyInv ==
    ASSUME IInv, ExecuteEmpty
    PROVE  IInv'
<1>1. Types /\ Queues /\ Drafting /\ LastBuild /\ Cached /\ InOrder
  BY DEF IInv
<1>2. /\ pc = "execute" /\ Scheduled = {} /\ batch' = <<>> /\ pc' = "schedule"
      /\ running' = running /\ preempted' = preempted /\ fresh' = fresh /\ known' = known
      /\ computed' = computed /\ drafted' = drafted /\ blocks' = blocks
      /\ finished' = finished /\ so' = so /\ stateIdx' = stateIdx /\ cache' = cache
      /\ lastFp' = lastFp /\ fpRounds' = fpRounds /\ bargs' = bargs /\ consts' = consts
      /\ moved' = moved /\ align' = align /\ round' = round /\ catchup' = catchup
  BY DEF ExecuteEmpty, sched, e5
<1>3. Types'
  BY <1>1, <1>2 DEF Types, IsInjective
<1>4. Live' = Live
  BY <1>2 DEF Live
<1>5. Queues'
  BY <1>1, <1>2, <1>4 DEF Queues
<1>6. Drafting'
  BY <1>1, <1>2 DEF Drafting, Decoding
<1>7. Granted' /\ InOrder' /\ Sampling'
  BY <1>2 DEF Granted, InOrder, Sampling
<1>8. LastBuild'
  BY <1>1, <1>2, <1>4 DEF LastBuild
<1>9. Cached'
  <2>1. Members' = Members /\ \A r : Verify(r)' = Verify(r) /\ (Decoding(r)' <=> Decoding(r))
    BY <1>2 DEF Members, Verify, Decoding
  <2>2. Held' = Held
    BY <1>2, <2>1 DEF Held
  <2>3. Intact => Intact'
    BY <1>2, <2>1, <2>2 DEF Intact
  <2> QED
    BY <1>1, <1>2, <1>4, <2>1, <2>3, CacheKept
<1>10. ServedBlocksCurrent' /\ CatchupNeverServed'
  BY <1>2, <1>9 DEF ServedBlocksCurrent, CatchupNeverServed, Served, Cached
<1> QED
  BY <1>3, <1>5, <1>6, <1>7, <1>8, <1>9, <1>10 DEF IInv
-----------------------------------------------------------------------------
(* The batch of a round and its fingerprint.                               *)

\* The batch holds the requests scheduled, each in one row.
LEMMA UpdatedFacts ==
    ASSUME Types, Granted, pc # "schedule"
    PROVE  /\ UpdateStates \in Seq(Req) /\ IsInjective(UpdateStates)
           /\ ToSet(UpdateStates) = Scheduled
<1> DEFINE stays == (Scheduled \ so.resumed) \ so.finished
           kept  == ToSet(batch) \cap stays
           added == Only(running, Scheduled \ kept)
           now   == Condensed(batch, stays, added)
           early == {r \in Req : so.tok[r] <= K1}
           p     == Only(now, early)
           q     == Only(now, Req \ early)
<1>1. /\ running \in Seq(Req) /\ IsInjective(running) /\ batch \in Seq(Req)
      /\ IsInjective(batch) /\ ToSet(running) \in SUBSET Req
  BY MembersFinite DEF Types
<1>2. Scheduled \subseteq ToSet(running)
  BY DEF Granted
<1>3. added \in Seq(Req) /\ IsInjective(added)
  BY <1>1, OnlyFacts
<1>4. \A x : x \in ToSet(added) <=> x \in ToSet(running) /\ x \in Scheduled \ kept
  BY <1>1, OnlyFacts
<1>5. \A x \in ToSet(added) : ~(x \in ToSet(batch) /\ x \in stays)
  BY <1>4
<1>6. UpdateStates = p \o q
  BY DEF UpdateStates, Updated, Reorder
<1> HIDE DEF added, stays
<1>7. /\ now \in Seq(Req) /\ IsInjective(now)
      /\ ToSet(now) = Joined(batch, stays, added)
  BY <1>1, <1>3, <1>5, CondensedArranges
<1>8. ToSet(now) = Scheduled
  BY <1>2, <1>4, <1>7 DEF Joined, stays
<1> HIDE DEF now, early
<1>9. p \in Seq(Req) /\ IsInjective(p) /\ q \in Seq(Req) /\ IsInjective(q)
  BY <1>7, OnlyFacts
<1>10. \A x : x \in ToSet(p) <=> x \in ToSet(now) /\ x \in early
  BY <1>7, OnlyFacts
<1>11. \A x : x \in ToSet(q) <=> x \in ToSet(now) /\ x \in Req \ early
  BY <1>7, OnlyFacts
<1> HIDE DEF p, q
<1>12. ToSet(p) \cap ToSet(q) = {}
  BY <1>10, <1>11
<1>13. /\ p \o q \in Seq(Req) /\ IsInjective(p \o q)
       /\ \A x : x \in ToSet(p \o q) <=> x \in ToSet(p) \/ x \in ToSet(q)
  BY <1>9, <1>12, JoinFacts
<1>14. ToSet(p \o q) = Scheduled
  BY <1>1, <1>2, <1>8, <1>10, <1>11, <1>13
<1> QED
  BY <1>6, <1>13, <1>14

LEMMA MambaFacts ==
    ASSUME Types, Granted, pc # "schedule"
    PROVE  PreprocessMamba \in [Req -> NoState .. Pool]
<1> SUFFICES ASSUME NEW r \in Req PROVE PreprocessMamba[r] \in NoState .. Pool
  BY DEF PreprocessMamba
<1>1. stateIdx[r] \in NoState .. Pool
  BY DEF Types
<1>2. NoState \in NoState .. Pool
  BY Numbers DEF NoState
<1>3. ASSUME r \in Scheduled PROVE Ceil(computed[r] + so.tok[r]) - 1 \in NoState .. Pool
  <2> DEFINE n == computed[r] + so.tok[r]
  <2>1. computed[r] \in Nat /\ so.tok[r] \in Nat /\ n <= MaxLen - 1
    BY <1>3, Numbers DEF Types, Granted, SchedulerOutput
  <2>2. n \in Nat /\ n <= MaxLen
    BY <2>1, Numbers
  <2>3. Ceil(n) \in Nat /\ Ceil(n) <= Pool
    BY <2>2, CeilFacts
  <2> HIDE DEF n
  <2>4. Ceil(n) - 1 \in NoState .. Pool
    BY <2>3, Numbers DEF NoState
  <2> QED
    BY <2>4 DEF n
<1>4. PreprocessMamba[r] =
         CASE align /\ r \in Scheduled -> Ceil(computed[r] + so.tok[r]) - 1
           [] align /\ r \in ToSet(preempted) \union so.finished -> NoState
           [] OTHER -> stateIdx[r]
  BY DEF PreprocessMamba
<1> QED
  BY <1>1, <1>2, <1>3, <1>4

LEMMA FpFacts ==
    ASSUME Types, NEW rows \in Seq(Req), NEW idx \in [Req -> NoState .. Pool]
    PROVE  /\ StateFp(rows, idx) \in Fp /\ Len(StateFp(rows, idx)) = Len(rows)
           /\ DOMAIN StateFp(rows, idx) = DOMAIN rows
           /\ \A i \in DOMAIN rows : /\ StateFp(rows, idx)[i][1] = rows[i]
                                     /\ StateFp(rows, idx)[i][3] = blocks[rows[i]]
           /\ Geometry(rows, idx) = StateFp(rows, idx)
           /\ Layout(rows) \in Seq(Nat) /\ Len(Layout(rows)) = Len(rows)
<1>1. Len(rows) \in Nat /\ DOMAIN rows = 1 .. Len(rows) /\ \A i \in DOMAIN rows : rows[i] \in Req
  BY PlacesFacts
<1>2. \A r \in Req : idx[r] \in Int /\ blocks[r] \in Nat /\ so.tok[r] \in Nat
  <2>1. \A x \in NoState .. Pool : x \in Int
    BY Numbers DEF NoState
  <2> QED
    BY <2>1 DEF Types, SchedulerOutput
<1>3. \A i \in 1 .. Len(rows) :
         <<rows[i], idx[rows[i]], blocks[rows[i]]>> \in Req \X Int \X Nat
  BY <1>1, <1>2
<1>4. StateFp(rows, idx) = [i \in 1 .. Len(rows) |-> <<rows[i], idx[rows[i]], blocks[rows[i]]>>]
  BY <1>1 DEF StateFp
<1>5. Geometry(rows, idx) = [i \in 1 .. Len(rows) |-> <<rows[i], idx[rows[i]], blocks[rows[i]]>>]
  BY <1>1 DEF Geometry
<1>6. Layout(rows) = [i \in 1 .. Len(rows) |-> so.tok[rows[i]]]
  BY <1>1 DEF Layout
<1>7. Layout(rows) \in [1 .. Len(rows) -> Nat]
  BY <1>1, <1>2, <1>6
<1>8. StateFp(rows, idx) \in [1 .. Len(rows) -> Req \X Int \X Nat]
  BY <1>3, <1>4
<1>9. Layout(rows) \in Seq(Nat) /\ Len(Layout(rows)) = Len(rows)
  BY <1>1, <1>7
<1>10. StateFp(rows, idx) \in Fp /\ Len(StateFp(rows, idx)) = Len(rows)
  <2>1. ASSUME NEW R, NEW n \in Nat, NEW f \in [1 .. n -> R] PROVE f \in Seq(R) /\ Len(f) = n
    OBVIOUS
  <2> QED
    BY <1>1, <1>8, <2>1 DEF Fp
<1>11. Geometry(rows, idx) = StateFp(rows, idx)
  BY <1>4, <1>5
<1>12. DOMAIN StateFp(rows, idx) = DOMAIN rows
  BY <1>1, <1>4
<1>13. \A i \in DOMAIN rows : /\ StateFp(rows, idx)[i][1] = rows[i]
                             /\ StateFp(rows, idx)[i][3] = blocks[rows[i]]
  BY <1>1, <1>4
<1> QED
  BY <1>9, <1>10, <1>11, <1>12, <1>13

\* What every execution of a batch leaves: see Execute.
LEMMA ExecuteKeeps ==
    ASSUME IInv, pc = "execute", Scheduled # {}, NEW hit \in BOOLEAN, NEW late \in BOOLEAN,
           Execute(UpdateStates, hit, late)
    PROVE  /\ Queues' /\ Drafting' /\ Granted' /\ InOrder' /\ Sampling'
           /\ batch' \in Seq(Req) /\ IsInjective(batch') /\ ToSet(batch') = Scheduled
           /\ stateIdx' \in [Req -> NoState .. Pool] /\ consts' \in Seq(Nat)
           /\ round' \in [prep : {"fast", "full"}, md : {"cached", "built"}, uniform : BOOLEAN]
           /\ running' = running /\ Live' = Live /\ blocks' = blocks /\ catchup' = catchup
           /\ known' = known /\ computed' = computed /\ so' = so /\ pc' = "sample"
           /\ batch' = UpdateStates /\ stateIdx' = PreprocessMamba
           /\ align' = align /\ fresh' = fresh /\ finished' = finished
           /\ preempted' = preempted /\ drafted' = drafted
<1>1. Types /\ Queues /\ Drafting /\ Granted /\ InOrder
  BY DEF IInv
<1>2. /\ batch' = UpdateStates /\ stateIdx' = PreprocessMamba /\ pc' = "sample"
      /\ consts' = Resident(UpdateStates, hit /\ cache.spec)
      /\ round' = [prep |-> IF hit /\ cache.spec THEN "fast" ELSE "full",
                   md |-> IF hit /\ ~late THEN "cached" ELSE "built",
                   uniform |-> UniformDecode(UpdateStates)]
      /\ running' = running /\ preempted' = preempted /\ fresh' = fresh /\ known' = known
      /\ computed' = computed /\ drafted' = drafted /\ blocks' = blocks
      /\ finished' = finished /\ so' = so /\ align' = align /\ catchup' = catchup
  BY DEF Execute, sched
<1>3. /\ UpdateStates \in Seq(Req) /\ IsInjective(UpdateStates)
      /\ ToSet(UpdateStates) = Scheduled /\ PreprocessMamba \in [Req -> NoState .. Pool]
  BY <1>1, UpdatedFacts, MambaFacts
<1>4. Live' = Live /\ Scheduled' = Scheduled
  BY <1>2 DEF Live, Scheduled
<1>5. Queues' /\ Drafting'
  BY <1>1, <1>2, <1>4 DEF Queues, Drafting, Decoding
<1>6. Granted' /\ InOrder'
  BY <1>1, <1>2, <1>4 DEF Granted, InOrder, Decoding, Verify
<1>7. Sampling'
  BY <1>2, <1>3, <1>4 DEF Sampling
<1>8. consts' \in Seq(Nat)
  <2>1. Layout(UpdateStates) \in Seq(Nat) /\ consts \in Seq(Nat)
    BY <1>1, <1>3, FpFacts DEF Types
  <2> QED
    BY <1>2, <2>1 DEF Resident
<1>9. round' \in [prep : {"fast", "full"}, md : {"cached", "built"}, uniform : BOOLEAN]
  <2>1. UniformDecode(UpdateStates) \in BOOLEAN
    BY DEF UniformDecode
  <2> QED
    BY <1>2, <2>1
<1> QED
  BY <1>2, <1>3, <1>4, <1>5, <1>6, <1>7, <1>8, <1>9

\* A build that is not captured changes nothing for the request of the last one.
LEMMA LastBuildKept ==
    ASSUME Types, Granted, InOrder, LastBuild, pc = "execute", pc' = "sample", lastFp' = lastFp,
           running' = running, Live' = Live, known' = known, computed' = computed, so' = so
    PROVE  LastBuild'
<1> SUFFICES ASSUME Len(lastFp) = 1, lastFp[1][1] \in Live
             PROVE  LET r == lastFp[1][1] IN
                      running # <<>> /\ running[1] = r /\ computed[r] + so.tok[r] >= known[r]
  BY DEF LastBuild
<1> DEFINE r == lastFp[1][1]
<1>1. running # <<>> /\ running[1] = r /\ known[r] = computed[r] + 1
  BY DEF LastBuild
<1>2. so.tok[r] > 0
  BY <1>1 DEF InOrder
<1>3. r \in Req
  <2>1. running[1] \in Req
    BY <1>1, PlacesFacts DEF Types
  <2> QED
    BY <1>1, <2>1
<1>4. computed[r] \in Nat /\ so.tok[r] \in Nat
  <2>1. computed[r] \in 0 .. MaxLen - 1
    BY <1>3 DEF Types
  <2> QED
    BY <1>3, <2>1, Numbers DEF Types, SchedulerOutput
<1> HIDE DEF r
<1> QED
  BY <1>1, <1>2, <1>4 DEF r
-----------------------------------------------------------------------------
(* Hits and captures.                                                      *)

\* What lasts while a batch runs.
LEMMA CacheServed ==
    ASSUME Types, Cached, pc' = "sample", cache' = cache, moved' = moved,
           running' = running, Live' = Live, blocks' = blocks, known' = known,
           computed' = computed, catchup' = catchup
    PROVE  Cached'
<1>1. Members' = Members /\ \A r : Verify(r)' = Verify(r) /\ (Decoding(r)' <=> Decoding(r))
  BY DEF Members, Verify, Decoding
<1>2. Held' = Held
  BY <1>1 DEF Held
<1>3. Intact => Intact'
  BY <1>1, <1>2 DEF Intact
<1> QED
  BY <1>1, <1>3, CacheKept

\* A hit is on a capture of the very requests scheduled, whose blocks nobody
\* has touched.
LEMMA HitFacts ==
    ASSUME IInv, pc = "execute", MdHit(UpdateStates)
    PROVE  /\ cache.fp # <<>> /\ cache.spec /\ cache.of = cache.fp
           /\ Members = Scheduled /\ Intact
<1> DEFINE rows == UpdateStates
<1>1. Types /\ Queues /\ Granted /\ Cached
  BY DEF IInv
<1>2. /\ rows \in Seq(Req) /\ IsInjective(rows) /\ ToSet(rows) = Scheduled
  BY <1>1, UpdatedFacts
<1>3. /\ cache.fp # <<>> /\ StateFp(rows, stateIdx) = cache.fp
      /\ \A r \in ToSet(rows) : so.spec[r] = K
  BY DEF MdHit, AllDrafted
<1>4. stateIdx \in [Req -> NoState .. Pool]
  BY <1>1 DEF Types
<1>5. /\ DOMAIN cache.fp = DOMAIN rows
      /\ \A i \in DOMAIN rows : cache.fp[i][1] = rows[i] /\ cache.fp[i][3] = blocks[rows[i]]
  <2> HIDE DEF rows
  <2> QED
    BY <1>1, <1>2, <1>3, <1>4, FpFacts
<1> HIDE DEF rows
<1>6. /\ cache.spec /\ cache.of = cache.fp
      /\ \A i, j \in DOMAIN cache.fp : cache.fp[i][1] = cache.fp[j][1] => i = j
      /\ \/ \E r \in Members : r \notin Live
         \/ \E r \in Members : Verify(r) > Held[r]
         \/ Intact
  BY <1>1, <1>3 DEF Cached
<1>7. Members = Scheduled
  <2>1. Members = {rows[i] : i \in DOMAIN rows}
    BY <1>5 DEF Members
  <2> QED
    BY <1>2, <2>1 DEF ToSet
<1>8. \A r \in Members : r \in Live
  BY <1>1, <1>7 DEF Granted, Live
<1>9. ASSUME NEW r \in Members PROVE ~(Verify(r) > Held[r])
  <2>1. PICK i \in DOMAIN rows : rows[i] = r
    BY <1>2, <1>7, <1>9 DEF ToSet
  <2>2. Held[r] = blocks[r]
    BY <1>1, <1>5, <1>6, <2>1, HeldFacts
  <2>3. r \in Scheduled /\ so.spec[r] = K
    BY <1>2, <1>3, <1>7, <1>9
  <2>4. blocks[r] >= Verify(r)
    BY <1>1, <2>3 DEF Granted
  <2>5. blocks[r] \in Nat /\ Verify(r) \in Nat
    <3>1. r \in Req /\ blocks[r] \in Nat /\ known[r] \in 1 .. MaxLen
      BY <1>1, <2>3 DEF Types, Scheduled
    <3>2. Least(MaxLen, known[r] + 2 * K) \in Nat
      BY <3>1, Numbers DEF Least
    <3> QED
      BY <3>1, <3>2, CeilFacts DEF Verify
  <2> QED
    BY <2>2, <2>4, <2>5
<1> QED
  BY <1>3, <1>6, <1>7, <1>8, <1>9

LEMMA HitInv ==
    ASSUME IInv, ExecuteHit
    PROVE  IInv'
<1> DEFINE rows == UpdateStates
<1>1. Types /\ Granted /\ InOrder /\ LastBuild /\ Cached
  BY DEF IInv
<1>2. /\ pc = "execute" /\ Scheduled # {} /\ MdHit(rows) /\ Execute(rows, TRUE, FALSE)
      /\ StateFp(rows, PreprocessMamba) = cache.fp
      /\ cache' = cache /\ lastFp' = lastFp /\ fpRounds' = fpRounds /\ bargs' = bargs
      /\ moved' = moved
  BY DEF ExecuteHit, LateTransition
<1>3. /\ Queues' /\ Drafting' /\ Granted' /\ InOrder' /\ Sampling'
      /\ batch' \in Seq(Req) /\ IsInjective(batch') /\ ToSet(batch') = Scheduled
      /\ stateIdx' \in [Req -> NoState .. Pool] /\ consts' \in Seq(Nat)
      /\ round' \in [prep : {"fast", "full"}, md : {"cached", "built"}, uniform : BOOLEAN]
      /\ running' = running /\ Live' = Live /\ blocks' = blocks /\ catchup' = catchup
      /\ known' = known /\ computed' = computed /\ so' = so /\ pc' = "sample"
      /\ batch' = rows /\ stateIdx' = PreprocessMamba
      /\ align' = align /\ fresh' = fresh /\ finished' = finished
      /\ preempted' = preempted /\ drafted' = drafted
  BY <1>2, ExecuteKeeps
<1>4. /\ cache.fp # <<>> /\ cache.spec /\ cache.of = cache.fp /\ Members = Scheduled /\ Intact
  BY <1>2, HitFacts
<1>5. Types'
  BY <1>1, <1>2, <1>3 DEF Types
<1>6. LastBuild'
  BY <1>1, <1>2, <1>3, LastBuildKept
<1>7. Cached'
  BY <1>1, <1>2, <1>3, CacheServed
<1>8. ServedBlocksCurrent'
  <2>1. Geometry(batch, stateIdx)' = cache.of
    <3>1. Geometry(rows, PreprocessMamba) = StateFp(rows, PreprocessMamba)
      BY DEF Geometry, StateFp
    <3>2. Geometry(batch, stateIdx)' = Geometry(rows, PreprocessMamba)
      BY <1>3 DEF Geometry
    <3> QED
      BY <1>2, <1>4, <3>1, <3>2
  <2>2. ToSet(batch') \cap moved' = {}
    BY <1>2, <1>3, <1>4 DEF Intact
  <2> QED
    BY <1>2, <2>1, <2>2 DEF ServedBlocksCurrent
<1>9. CatchupNeverServed'
  <2>1. ToSet(batch') \cap catchup' = {}
    BY <1>2, <1>3, <1>4 DEF Intact
  <2> QED
    BY <1>2, <1>4, <2>1 DEF CatchupNeverServed
<1> QED
  BY <1>3, <1>5, <1>6, <1>7, <1>8, <1>9 DEF IInv

\* A build that is kept is one whose requests all have their drafts, also when
\* there is only one and its drafts were not looked at.
LEMMA CapturedShape ==
    ASSUME IInv, pc = "execute", Scheduled # {}, NEW fp, fp = StateFp(UpdateStates, PreprocessMamba),
           Sched(UpdateStates) = K1 * Len(UpdateStates),
           Len(UpdateStates) > 1 => AllDrafted(UpdateStates)
    PROVE  /\ Len(fp) = 1 => /\ running # <<>> /\ running[1] = fp[1][1]
                             /\ computed[fp[1][1]] + so.tok[fp[1][1]] >= known[fp[1][1]]
           /\ fp = lastFp => AllDrafted(UpdateStates)
<1> DEFINE rows == UpdateStates
<1>1. Types /\ Granted /\ InOrder /\ LastBuild
  BY DEF IInv
<1>2. /\ rows \in Seq(Req) /\ IsInjective(rows) /\ ToSet(rows) = Scheduled
  BY <1>1, UpdatedFacts
<1>3. PreprocessMamba \in [Req -> NoState .. Pool]
  BY <1>1, MambaFacts
<1>4. /\ Len(fp) = Len(rows) /\ DOMAIN fp = DOMAIN rows
      /\ \A i \in DOMAIN rows : fp[i][1] = rows[i]
  <2> HIDE DEF rows
  <2> QED
    BY <1>1, <1>2, <1>3, FpFacts DEF rows
<1>5. Sched(rows) = K1 * Len(rows) /\ (Len(rows) > 1 => AllDrafted(rows))
  OBVIOUS
<1> HIDE DEF rows
<1>6. Len(rows) \in Nat /\ DOMAIN rows = 1 .. Len(rows)
  BY <1>2, PlacesFacts
<1>7. Len(rows) >= 1
  <2>1. \E i \in 1 .. Len(rows) : TRUE
    BY <1>2, <1>6 DEF ToSet
  <2> QED
    BY <1>6, <2>1
<1>8. ASSUME Len(rows) = 1
      PROVE  LET r == rows[1]
             IN  /\ Scheduled = {r} /\ r \in Req /\ so.tok[r] = K1
                 /\ running # <<>> /\ running[1] = r /\ computed[r] + K1 >= known[r]
  <2> DEFINE r == rows[1]
  <2>1. DOMAIN rows = {1}
    BY <1>6, <1>8
  <2>2. Scheduled = {r} /\ r \in Req
    BY <1>2, <2>1, PlacesFacts DEF ToSet
  <2>3. so.tok[r] \in Nat
    BY <1>1, <2>2 DEF Types, SchedulerOutput
  <2>4. Total(so.tok, {r}) = so.tok[r]
    BY <2>3, TotalOne
  <2>5. Sched(rows) = so.tok[r]
    BY <1>2, <2>2, <2>4 DEF Sched
  <2>6. so.tok[r] = K1
    BY <1>5, <1>8, <2>5, Numbers
  <2>7. running # <<>>
    <3>1. r \in ToSet(running)
      BY <1>1, <2>2 DEF Granted
    <3> QED
      BY <3>1 DEF ToSet
  <2>8. /\ so.tok[running[1]] > 0
        /\ so.tok[running[1]] < Budget =>
             computed[running[1]] + so.tok[running[1]] >= known[running[1]]
    BY <1>1, <2>7 DEF InOrder
  <2>9. running[1] \in Req
    BY <1>1, <2>7, PlacesFacts DEF Types
  <2>10. running[1] = r
    BY <2>2, <2>8, <2>9 DEF Scheduled
  <2> HIDE DEF r
  <2> QED
    BY <2>2, <2>6, <2>7, <2>8, <2>10, Numbers DEF r
<1>9. ASSUME Len(fp) = 1
      PROVE  /\ running # <<>> /\ running[1] = fp[1][1]
             /\ computed[fp[1][1]] + so.tok[fp[1][1]] >= known[fp[1][1]]
  <2>1. Len(rows) = 1 /\ fp[1][1] = rows[1]
    BY <1>4, <1>6, <1>9
  <2> QED
    BY <1>8, <2>1
<1>10. ASSUME fp = lastFp PROVE AllDrafted(rows)
  <2>1. CASE Len(rows) > 1
    BY <1>5, <2>1
  <2>2. CASE Len(rows) = 1
    <3> DEFINE r == rows[1]
    <3>1. /\ Scheduled = {r} /\ r \in Req /\ so.tok[r] = K1
          /\ running # <<>> /\ running[1] = r
      BY <1>8, <2>2
    <3>2. Len(lastFp) = 1 /\ lastFp[1][1] = r
      BY <1>4, <1>6, <1>10, <2>2
    <3>3. r \in Live
      BY <1>1, <3>1 DEF Granted, Live
    <3>4. known[r] = computed[r] + 1
      BY <1>1, <3>2, <3>3 DEF LastBuild
    <3>5. so.spec[r] = Most(0, computed[r] + so.tok[r] - known[r])
      BY <1>1, <3>1 DEF Granted
    <3>6. computed[r] \in 0 .. MaxLen - 1
      BY <1>1, <3>1 DEF Types
    <3> HIDE DEF r
    <3>7. so.spec[r] = K
      BY <3>1, <3>4, <3>5, <3>6, Numbers DEF Most
    <3> QED
      BY <1>2, <3>1, <3>7 DEF AllDrafted
  <2> QED
    BY <1>6, <1>7, <2>1, <2>2
<1> QED
  BY <1>9, <1>10 DEF rows

\* A capture is of requests that are ahead of all others and whose blocks fit.
LEMMA CaptureIntact ==
    ASSUME IInv, pc = "execute", Scheduled # {}, AllDrafted(UpdateStates),
           cache' = Captured(UpdateStates, PreprocessMamba), moved' = {}, pc' = "sample",
           running' = running, blocks' = blocks, known' = known, computed' = computed
    PROVE  Cached'
<1> DEFINE rows == UpdateStates
           fp == StateFp(rows, PreprocessMamba)
<1>1. Types /\ Queues /\ Granted /\ InOrder
  BY DEF IInv
<1>2. /\ rows \in Seq(Req) /\ IsInjective(rows) /\ ToSet(rows) = Scheduled
      /\ PreprocessMamba \in [Req -> NoState .. Pool]
  BY <1>1, UpdatedFacts, MambaFacts
<1>3. cache'.fp = fp /\ cache'.spec = AllDrafted(rows) /\ cache'.of = Geometry(rows, PreprocessMamba)
  BY DEF Captured
<1>4. AllDrafted(rows)
  OBVIOUS
<1> HIDE DEF rows
<1>5. /\ DOMAIN fp = DOMAIN rows /\ Geometry(rows, PreprocessMamba) = fp
      /\ \A i \in DOMAIN rows : fp[i][1] = rows[i] /\ fp[i][3] = blocks[rows[i]]
  BY <1>1, <1>2, FpFacts
<1> HIDE DEF fp
<1>6. \A i, j \in DOMAIN fp : fp[i][1] = fp[j][1] => i = j
  BY <1>2, <1>5 DEF IsInjective
<1>7. \A r : r \in Members' <=> r \in Scheduled
  <2>1. Members' = {fp[i][1] : i \in DOMAIN fp}
    BY <1>3 DEF Members
  <2>2. Members' = {rows[i] : i \in DOMAIN rows}
    BY <1>5, <2>1
  <2> QED
    BY <1>2, <2>2 DEF ToSet
<1>8. Scheduled \in SUBSET ToSet(running) /\ ToSet(running) \in SUBSET Req
      /\ IsFiniteSet(ToSet(running)) /\ Counts(blocks, ToSet(running))
  BY <1>1, MembersFinite DEF Granted, Types, Counts
<1>9. ASSUME NEW r \in Scheduled PROVE Held'[r] = blocks[r]
  <2> DEFINE c == CHOOSE i \in DOMAIN fp : fp[i][1] = r
  <2>1. PICK i \in DOMAIN rows : rows[i] = r
    BY <1>2 DEF ToSet
  <2>2. i \in DOMAIN fp /\ fp[i][1] = r
    BY <1>5, <2>1
  <2>3. c \in DOMAIN fp /\ fp[c][1] = r
    BY <2>2
  <2>4. Held'[r] = fp[c][3]
    BY <1>3, <1>7, <1>8 DEF Held
  <2> HIDE DEF c
  <2>5. c = i
    BY <1>6, <2>2, <2>3
  <2> QED
    BY <1>5, <2>1, <2>4, <2>5
<1>10. \A r \in Scheduled : so.spec[r] = K /\ Decoding(r)
  <2>1. \A r \in Scheduled : so.spec[r] = K
    BY <1>2, <1>4 DEF AllDrafted
  <2> QED
    BY <1>1, <2>1, Numbers DEF Granted
<1>11. ASSUME NEW i \in DOMAIN running, NEW j \in DOMAIN running,
              running[i] \in Scheduled, running[j] \notin Scheduled
       PROVE  i < j
  <2>1. i \in Nat /\ j \in Nat /\ running[j] \in Req
    BY <1>1, PlacesFacts DEF Types
  <2>2. so.tok[running[i]] > 0 /\ ~(so.tok[running[j]] > 0)
    BY <1>11, <2>1 DEF Scheduled
  <2>3. running[i] \notin so.new \union so.resumed
    <3>1. so.spec[running[i]] # 0
      BY <1>10, <1>11, Numbers
    <3> QED
      BY <1>1, <3>1 DEF Granted
  <2>4. ~(j < i)
    BY <1>1, <2>2, <2>3 DEF InOrder
  <2>5. i # j
    BY <2>2
  <2> QED
    BY <2>1, <2>4, <2>5
<1>12. Total(Held', Members') <= Pool
  <2>1. Members' = Scheduled
    BY <1>7
  <2>2. Counts(blocks, ToSet(running)) /\ Counts(Held', Scheduled)
    BY <1>8, <1>9 DEF Counts
  <2>3. \A r \in Scheduled : Held'[r] <= blocks[r]
    BY <1>9, <2>2 DEF Counts
  <2>4. Total(Held', Scheduled) <= Total(blocks, ToSet(running))
    BY <1>8, <2>2, <2>3, TotalMonotone
  <2>5. IsFiniteSet(Scheduled)
    BY <1>8, FS_Subset
  <2>6. Total(Held', Scheduled) \in Nat /\ Total(blocks, ToSet(running)) \in Nat
    BY <1>8, <2>2, <2>5, TotalType
  <2>7. Total(blocks, ToSet(running)) <= Pool
    BY <1>1 DEF Queues
  <2>8. Total(Held', Scheduled) <= Pool
    BY <2>4, <2>6, <2>7, Numbers
  <2> QED
    BY <2>1, <2>8
<1>13. Intact'
  <2>1. Members' \subseteq ToSet(running')
    BY <1>7, <1>8
  <2>2. \A i, j \in DOMAIN running' :
           running'[i] \in Members' /\ running'[j] \notin Members' => i < j
    BY <1>7, <1>11
  <2>3. ASSUME NEW r \in Members' PROVE blocks'[r] <= Held'[r] /\ Decoding(r)'
    <3>1. r \in Scheduled /\ blocks[r] \in Nat /\ Decoding(r)
      BY <1>7, <1>8, <1>10, <2>3 DEF Counts
    <3>2. Held'[r] = blocks[r]
      BY <1>9, <3>1
    <3> QED
      BY <3>1, <3>2 DEF Decoding
  <2> QED
    BY <1>12, <2>1, <2>2, <2>3 DEF Intact
<1> QED
  BY <1>3, <1>4, <1>5, <1>6, <1>13 DEF Cached

\* A full build, after a late transition or without a hit.
LEMMA BuildInv ==
    ASSUME IInv, pc = "execute", Scheduled # {}, NEW hit \in BOOLEAN,
           Execute(UpdateStates, hit, hit), bargs' = Layout(UpdateStates),
           CacheCapture(UpdateStates, PreprocessMamba)
    PROVE  IInv'
<1> DEFINE rows  == UpdateStates
           fp    == StateFp(rows, PreprocessMamba)
           count == IF fp = lastFp THEN Least(3, fpRounds + 1) ELSE 1
           shape == /\ Len(rows) <= E5MaxReqs
                    /\ Sched(rows) = K1 * Len(rows)
                    /\ Len(rows) > 1 => AllK1(rows) /\ AllDrafted(rows)
           taken == shape /\ count = 3
<1>1. Types /\ Granted /\ InOrder /\ LastBuild /\ Cached
  BY DEF IInv
<1>2. /\ lastFp' = (IF shape THEN fp ELSE lastFp)
      /\ fpRounds' = (IF shape THEN count ELSE fpRounds)
      /\ cache' = (IF taken THEN Captured(rows, PreprocessMamba) ELSE cache)
      /\ moved' = (IF taken THEN {} ELSE moved)
  BY DEF CacheCapture
<1>3. /\ Queues' /\ Drafting' /\ Granted' /\ InOrder' /\ Sampling'
      /\ batch' \in Seq(Req) /\ IsInjective(batch') /\ ToSet(batch') = Scheduled
      /\ stateIdx' \in [Req -> NoState .. Pool] /\ consts' \in Seq(Nat)
      /\ round' \in [prep : {"fast", "full"}, md : {"cached", "built"}, uniform : BOOLEAN]
      /\ running' = running /\ Live' = Live /\ blocks' = blocks /\ catchup' = catchup
      /\ known' = known /\ computed' = computed /\ so' = so /\ pc' = "sample"
      /\ batch' = rows /\ stateIdx' = PreprocessMamba
      /\ align' = align /\ fresh' = fresh /\ finished' = finished
      /\ preempted' = preempted /\ drafted' = drafted
  BY ExecuteKeeps
<1>4. round'.md = "built"
  BY DEF Execute
<1>5. rows \in Seq(Req) /\ PreprocessMamba \in [Req -> NoState .. Pool]
  BY <1>1, UpdatedFacts, MambaFacts
<1>6. /\ fp \in Fp /\ Layout(rows) \in Seq(Nat) /\ Geometry(rows, PreprocessMamba) = fp
  <2> HIDE DEF rows
  <2> QED
    BY <1>1, <1>5, FpFacts
<1>7. shape => /\ Len(fp) = 1 => /\ running # <<>> /\ running[1] = fp[1][1]
                                 /\ computed[fp[1][1]] + so.tok[fp[1][1]] >= known[fp[1][1]]
               /\ fp = lastFp => AllDrafted(rows)
  BY CapturedShape
<1>8. bargs' = Layout(rows)
  OBVIOUS
<1>9. Captured(rows, PreprocessMamba) =
         [fp |-> fp, spec |-> AllDrafted(rows), of |-> Geometry(rows, PreprocessMamba)]
  BY DEF Captured
<1>10. AllDrafted(rows) \in BOOLEAN
  BY DEF AllDrafted
<1>11. cache \in [fp : Fp, spec : BOOLEAN, of : Fp] /\ lastFp \in Fp /\ fpRounds \in 0 .. 3
       /\ moved \subseteq Req
  BY <1>1 DEF Types
<1> HIDE DEF rows, fp, shape
<1>12. count \in 0 .. 3 /\ (count = 3 => fp = lastFp)
  BY <1>11 DEF Least
<1> HIDE DEF count
<1>13. Types'
  <2>1. lastFp' \in Fp /\ fpRounds' \in 0 .. 3 /\ moved' \subseteq Req
    BY <1>2, <1>6, <1>11, <1>12
  <2>2. cache' \in [fp : Fp, spec : BOOLEAN, of : Fp]
    <3>1. Captured(rows, PreprocessMamba) \in [fp : Fp, spec : BOOLEAN, of : Fp]
      BY <1>6, <1>9, <1>10
    <3> QED
      BY <1>2, <1>11, <3>1
  <2> QED
    BY <1>1, <1>3, <1>6, <1>8, <2>1, <2>2 DEF Types
<1>14. LastBuild'
  <2>1. CASE shape
    BY <1>2, <1>3, <1>7, <2>1 DEF LastBuild
  <2>2. CASE ~shape
    BY <1>1, <1>2, <1>3, <2>2, LastBuildKept
  <2> QED
    BY <2>1, <2>2
<1>15. Cached'
  <2>1. CASE taken
    <3>1. cache' = Captured(rows, PreprocessMamba) /\ moved' = {} /\ AllDrafted(rows)
      BY <1>2, <1>7, <1>12, <2>1
    <3> QED
      BY <1>3, <3>1, CaptureIntact DEF rows
  <2>2. CASE ~taken
    BY <1>1, <1>2, <1>3, <2>2, CacheServed
  <2> QED
    BY <2>1, <2>2
<1>16. ServedBlocksCurrent' /\ CatchupNeverServed'
  BY <1>4, <1>15 DEF ServedBlocksCurrent, CatchupNeverServed, Served, Cached
<1> QED
  BY <1>3, <1>13, <1>14, <1>15, <1>16 DEF IInv
-----------------------------------------------------------------------------
(* Sampling.                                                               *)

LEMMA SampleInv ==
    ASSUME IInv, Sample
    PROVE  IInv'
<1>1. Types /\ Queues /\ Granted /\ InOrder /\ LastBuild /\ Cached /\ pc = "sample"
  BY DEF IInv, Sample
<1>2. PICK new \in [Sampled -> 1 .. K1], stop \in SUBSET Sampled :
        /\ \A r \in Sampled : new[r] <= so.spec[r] + 1
        /\ known' = [r \in Req |-> known[r] + (IF r \in Sampled THEN new[r] ELSE 0)]
        /\ computed' = [r \in Req |-> IF r \in Sampled THEN known[r] + new[r] - 1
                                      ELSE computed[r] + so.tok[r]]
        /\ LET done == stop \union {r \in Sampled : known[r] + new[r] >= MaxLen} IN
           /\ running' = Only(running, Req \ done)
           /\ blocks' = [r \in Req |-> IF r \in done THEN 0 ELSE blocks[r]]
           /\ drafted' = [r \in Req |-> IF r \in Sampled \ done /\ InputFitsInDrafter
                                        THEN K ELSE 0]
           /\ finished' = done
           /\ moved' = moved \union done
  BY DEF Sample
<1> DEFINE done == stop \union {r \in Sampled : known[r] + new[r] >= MaxLen}
<1>3. /\ running' = Only(running, Req \ done)
      /\ blocks' = [r \in Req |-> IF r \in done THEN 0 ELSE blocks[r]]
      /\ drafted' = [r \in Req |-> IF r \in Sampled \ done /\ InputFitsInDrafter
                                   THEN K ELSE 0]
      /\ finished' = done /\ moved' = moved \union done
  BY <1>2
<1>4. /\ catchup' = {r \in Scheduled : Prefilling(r)} /\ pc' = "schedule"
      /\ preempted' = preempted /\ fresh' = fresh /\ so' = so /\ batch' = batch
      /\ stateIdx' = stateIdx /\ cache' = cache /\ lastFp' = lastFp /\ fpRounds' = fpRounds
      /\ bargs' = bargs /\ consts' = consts /\ align' = align /\ round' = round
  BY DEF Sample
<1>5. /\ done \subseteq Sampled
      /\ \A r \in Sampled : r \notin done => ~(known[r] + new[r] >= MaxLen)
  BY <1>2
<1> HIDE DEF done
<1>6. /\ running \in Seq(Req) /\ IsInjective(running) /\ ToSet(running) \in SUBSET Req
      /\ IsFiniteSet(ToSet(running)) /\ Len(running) \in Nat
      /\ Counts(blocks, ToSet(running))
  BY <1>1, MembersFinite, PlacesFacts DEF Types, Counts
<1>7. /\ Sampled \subseteq Scheduled /\ Scheduled \subseteq ToSet(running)
      /\ \A r \in Scheduled : r \in Sampled <=> computed[r] + so.tok[r] >= known[r]
  BY <1>1 DEF Sampled, Granted
<1>8. \A r \in Req : /\ known[r] \in Nat /\ known[r] >= 1 /\ computed[r] \in Nat
                     /\ computed[r] <= MaxLen - 1
                     /\ so.tok[r] \in Nat /\ so.spec[r] \in Nat
                     /\ (r \notin Scheduled => so.tok[r] = 0)
                     /\ (r \in Scheduled => so.tok[r] > 0)
  <2> SUFFICES ASSUME NEW r \in Req
               PROVE  /\ known[r] \in Nat /\ known[r] >= 1 /\ computed[r] \in Nat
                      /\ computed[r] <= MaxLen - 1
                      /\ so.tok[r] \in Nat /\ so.spec[r] \in Nat
                      /\ (r \notin Scheduled => so.tok[r] = 0)
                      /\ (r \in Scheduled => so.tok[r] > 0)
    OBVIOUS
  <2>1. known[r] \in 1 .. MaxLen /\ computed[r] \in 0 .. MaxLen - 1
        /\ so.tok[r] \in Nat /\ so.spec[r] \in Nat
    BY <1>1 DEF Types, SchedulerOutput
  <2>2. r \in Scheduled <=> so.tok[r] > 0
    BY DEF Scheduled
  <2> QED
    BY <2>1, <2>2, Numbers

\* A request that samples knows the token after those computed.
<1>9. ASSUME NEW r \in Sampled
      PROVE  /\ r \in Req /\ new[r] \in Nat /\ new[r] >= 1
             /\ known'[r] = known[r] + new[r] /\ computed'[r] = known[r] + new[r] - 1
             /\ known[r] + new[r] <= MaxLen
  <2>1. r \in Req /\ r \in Scheduled
    BY <1>6, <1>7
  <2>2. new[r] \in 1 .. K1 /\ new[r] <= so.spec[r] + 1
    BY <1>2
  <2>3. /\ known'[r] = known[r] + new[r] /\ computed'[r] = known[r] + new[r] - 1
    BY <1>2, <2>1
  <2>4. /\ so.spec[r] = Most(0, computed[r] + so.tok[r] - known[r])
        /\ computed[r] + so.tok[r] <= MaxLen - 1 /\ computed[r] + so.tok[r] >= known[r]
    BY <1>1, <1>7, <2>1 DEF Granted
  <2>5. known[r] + new[r] <= MaxLen
    BY <1>8, <2>1, <2>2, <2>4, Numbers DEF Most
  <2> QED
    BY <2>1, <2>2, <2>3, <2>5, Numbers
<1>10. ASSUME NEW r \in Req, r \notin Sampled
       PROVE  /\ known'[r] = known[r] /\ computed'[r] = computed[r] + so.tok[r]
              /\ (r \notin Scheduled => computed'[r] = computed[r])
              /\ (r \in Scheduled => computed'[r] < known[r])
  <2>1. known'[r] = known[r] + 0 /\ computed'[r] = computed[r] + so.tok[r]
    BY <1>2, <1>10
  <2> QED
    BY <1>7, <1>8, <1>10, <2>1
<1>11. /\ running' \in Seq(Req) /\ IsInjective(running') /\ Len(running') <= Len(running)
       /\ \A x : x \in ToSet(running') <=> x \in ToSet(running) /\ x \notin done
       /\ running # <<>> /\ running[1] \notin done => running' # <<>> /\ running'[1] = running[1]
  <2> DEFINE o == Only(running, Req \ done)
  <2>1. o \in Seq(Req) /\ IsInjective(o) /\ Len(o) <= Len(running)
    BY <1>6, OnlyFacts
  <2>2. \A x : x \in ToSet(o) <=> x \in ToSet(running) /\ x \in Req \ done
    BY <1>6, OnlyFacts
  <2>3. running # <<>> /\ running[1] \in Req \ done => o # <<>> /\ o[1] = running[1]
    BY <1>6, OnlyFacts
  <2>4. running # <<>> => running[1] \in Req
    BY <1>6, PlacesFacts
  <2>5. running' = o
    BY <1>3
  <2> HIDE DEF o
  <2> QED
    BY <1>6, <2>1, <2>2, <2>3, <2>4, <2>5
<1>12. \A r \in Req : /\ blocks'[r] = IF r \in done THEN 0 ELSE blocks[r]
                      /\ drafted'[r] = IF r \in Sampled \ done /\ InputFitsInDrafter THEN K ELSE 0
  BY <1>3
<1>13. done \subseteq ToSet(running) /\ done \subseteq Req
  BY <1>5, <1>6, <1>7
<1>14. \A r : r \in Live' <=> r \in Live /\ r \notin done
  BY <1>1, <1>4, <1>11, <1>13 DEF Live, Queues
<1>15. Types'
  <2>1. ASSUME NEW r \in Req PROVE known'[r] \in 1 .. MaxLen /\ computed'[r] \in 0 .. MaxLen - 1
    <3>1. CASE r \in Sampled
      BY <1>8, <1>9, <3>1, Numbers
    <3>2. CASE r \notin Sampled
      <4>1. known[r] \in 1 .. MaxLen
        BY <1>1 DEF Types
      <4>2. computed[r] + so.tok[r] <= MaxLen - 1
        <5>1. r \in Scheduled => computed[r] + so.tok[r] <= MaxLen - 1
          BY <1>1 DEF Granted
        <5> QED
          BY <1>8, <5>1, Numbers
      <4> QED
        BY <1>8, <1>10, <3>2, <4>1, <4>2, Numbers
    <3> QED
      BY <3>1, <3>2
  <2>2. known' \in [Req -> 1 .. MaxLen] /\ computed' \in [Req -> 0 .. MaxLen - 1]
    BY <1>2, <2>1
  <2>3. blocks' \in [Req -> Nat] /\ drafted' \in [Req -> {0, K}]
    BY <1>1, <1>3 DEF Types
  <2>4. finished' \subseteq Req /\ moved' \subseteq Req /\ catchup' \subseteq Req
    BY <1>1, <1>3, <1>4, <1>13 DEF Types, Scheduled
  <2> QED
    BY <1>1, <1>4, <1>11, <2>2, <2>3, <2>4 DEF Types
<1>16. Queues'
  <2>1. /\ ToSet(running') \cap ToSet(preempted') = {}
        /\ fresh' \cap (ToSet(running') \union ToSet(preempted')) = {}
    BY <1>1, <1>4, <1>11 DEF Queues
  <2>2. Len(running') <= MaxSeqs
    <3>1. Len(running') \in Nat /\ Len(running) <= MaxSeqs
      BY <1>1, <1>11, PlacesFacts DEF Queues
    <3> QED
      BY <1>6, <1>11, <3>1, Numbers
  <2>3. \A r \in Req \ ToSet(running') : blocks'[r] = 0
    BY <1>1, <1>11, <1>12 DEF Queues
  <2>4. Total(blocks', ToSet(running')) <= Pool
    <3>1. ToSet(running') \in SUBSET ToSet(running)
      BY <1>11
    <3>2. Counts(blocks', ToSet(running')) /\ \A r \in ToSet(running') : blocks'[r] <= blocks[r]
      BY <1>6, <1>11, <1>12 DEF Counts
    <3>3. Total(blocks', ToSet(running')) <= Total(blocks, ToSet(running))
      BY <1>6, <3>1, <3>2, TotalMonotone
    <3>4. IsFiniteSet(ToSet(running'))
      BY <1>6, <3>1, FS_Subset
    <3>5. Total(blocks', ToSet(running')) \in Nat /\ Total(blocks, ToSet(running)) \in Nat
      BY <1>6, <3>2, <3>4, TotalType
    <3>6. Total(blocks, ToSet(running)) <= Pool
      BY <1>1 DEF Queues
    <3> QED
      BY <3>3, <3>5, <3>6, Numbers
  <2>5. ASSUME NEW r \in Live' PROVE computed'[r] < known'[r] /\ known'[r] < MaxLen
    <3>1. r \in Live /\ r \notin done /\ r \in Req
      BY <1>1, <1>6, <1>14, MembersFinite DEF Live, Types
    <3>2. computed[r] < known[r] /\ known[r] < MaxLen
      BY <1>1, <3>1 DEF Queues
    <3>3. CASE r \in Sampled
      BY <1>5, <1>8, <1>9, <3>1, <3>3, Numbers
    <3>4. CASE r \notin Sampled
      BY <1>10, <3>1, <3>2, <3>4
    <3> QED
      BY <3>3, <3>4
  <2>6. ASSUME NEW r \in Live' \ ToSet(running') PROVE computed'[r] = 0
    <3>1. r \in Live /\ r \notin done /\ r \notin ToSet(running) /\ r \in Req
      BY <1>1, <1>11, <1>14, <1>6, MembersFinite DEF Live, Types
    <3>2. r \notin Scheduled /\ r \notin Sampled
      BY <1>7, <3>1
    <3>3. computed[r] = 0
      BY <1>1, <3>1 DEF Queues
    <3> QED
      BY <1>10, <3>1, <3>2, <3>3
  <2>7. ASSUME NEW r \in fresh' PROVE known'[r] = Prompt[r]
    <3>1. r \in fresh /\ r \notin ToSet(running) /\ r \in Req
      BY <1>1, <1>4 DEF Queues, Types
    <3> QED
      BY <1>1, <1>7, <1>10, <3>1 DEF Queues
  <2>8. ASSUME NEW r \in Req PROVE known'[r] >= Prompt[r]
    <3>1. known[r] >= Prompt[r] /\ Prompt[r] \in Nat
      BY <1>1, Numbers DEF Queues
    <3> QED
      BY <1>8, <1>9, <1>10, <3>1
  <2> QED
    BY <2>1, <2>2, <2>3, <2>4, <2>5, <2>6, <2>7, <2>8 DEF Queues

\* Decoding goes on for the requests that sample.
<1>17. ASSUME NEW r \in Sampled PROVE Decoding(r)'
  <2>1. known[r] >= Prompt[r] /\ Prompt[r] \in Nat /\ r \in Req
    BY <1>1, <1>9, Numbers DEF Queues
  <2> QED
    BY <1>8, <1>9, <2>1 DEF Decoding
<1>18. Drafting'
  <2> SUFFICES ASSUME NEW r \in Req, drafted'[r] = K PROVE Decoding(r)'
    BY DEF Drafting
  <2>1. r \in Sampled
    BY <1>12, Numbers
  <2> QED
    BY <1>17, <2>1
<1>19. Granted' /\ InOrder' /\ Sampling'
  BY <1>4 DEF Granted, InOrder, Sampling
<1>20. LastBuild'
  <2> SUFFICES ASSUME Len(lastFp) = 1, lastFp[1][1] \in Live'
               PROVE  LET r == lastFp[1][1]
                      IN  running' # <<>> /\ running'[1] = r /\ known'[r] = computed'[r] + 1
    BY <1>4 DEF LastBuild
  <2> DEFINE r == lastFp[1][1]
  <2>1. r \in Live /\ r \notin done
    BY <1>14
  <2>2. running # <<>> /\ running[1] = r /\ computed[r] + so.tok[r] >= known[r]
    BY <1>1, <2>1 DEF LastBuild
  <2> HIDE DEF r
  <2>3. r \in Req
    BY <1>6, <2>2, PlacesFacts
  <2>4. so.tok[r] > 0
    BY <1>1, <2>2 DEF InOrder
  <2>5. r \in Scheduled
    BY <2>3, <2>4 DEF Scheduled
  <2>6. r \in Sampled
    BY <1>7, <2>2, <2>5
  <2>7. known'[r] = computed'[r] + 1
    BY <1>17, <2>6 DEF Decoding
  <2> QED
    BY <1>11, <2>1, <2>2, <2>7 DEF r
<1>21. Cached'
  <2>1. Members \in SUBSET Req /\ Counts(Held, Members)
    BY <1>1, HeldFacts
  <2>2. ASSUME NEW r \in Members, Verify(r) > Held[r] PROVE Verify(r)' > Held[r]
    <3> DEFINE a == Least(MaxLen, known[r] + 2 * K)
               b == Least(MaxLen, known'[r] + 2 * K)
    <3>1. r \in Req /\ Held[r] \in Nat
      BY <2>1 DEF Counts
    <3>2. known[r] \in Nat /\ known'[r] \in Nat /\ known[r] <= known'[r]
      <4>1. CASE r \in Sampled
        BY <1>8, <1>9, <3>1, <4>1
      <4>2. CASE r \notin Sampled
        BY <1>8, <1>10, <3>1, <4>2
      <4> QED
        BY <4>1, <4>2
    <3>3. a \in Nat /\ b \in Nat /\ a <= b
      BY <3>2, Numbers DEF Least
    <3>4. Ceil(a) \in Nat /\ Ceil(b) \in Nat /\ Ceil(a) <= Ceil(b)
      BY <3>3, CeilFacts
    <3>5. Verify(r) = Ceil(a) /\ Verify(r)' = Ceil(b)
      BY DEF Verify
    <3> HIDE DEF a, b
    <3> QED
      BY <2>2, <3>1, <3>4, <3>5
  <2>3. ASSUME Intact PROVE Intact' \/ \E r \in Members : r \notin Live'
    <3>1. CASE \E r \in Members : r \in done
      BY <1>14, <3>1
    <3>2. CASE \A r \in Members : r \notin done
      <4>1. Members' = Members
        BY <1>4 DEF Members
      <4>2. Held' = Held
        BY <1>4, <4>1 DEF Held
      <4>3. Members \subseteq ToSet(running')
        BY <1>11, <2>3, <3>2 DEF Intact
      <4>4. \A i, j \in DOMAIN running' :
               running'[i] \in Members /\ running'[j] \notin Members => i < j
        BY <1>1, <1>3, <2>3, OrderKept
      <4>5. ASSUME NEW r \in Members PROVE blocks'[r] <= Held[r] /\ Decoding(r)' /\ r \notin catchup'
        <5>1. r \in Req /\ r \notin done /\ blocks[r] <= Held[r] /\ Decoding(r)
          BY <2>1, <2>3, <3>2 DEF Intact
        <5>2. blocks'[r] <= Held[r]
          BY <1>12, <5>1
        <5>3. r \in Scheduled => r \in Sampled
          <6>1. known[r] = computed[r] + 1
            BY <5>1 DEF Decoding
          <6> QED
            BY <1>7, <1>8, <5>1, <6>1
        <5>4. Decoding(r)'
          <6>1. CASE r \in Sampled
            BY <1>17, <6>1
          <6>2. CASE r \notin Sampled
            BY <1>10, <5>1, <5>3, <6>2 DEF Decoding
          <6> QED
            BY <6>1, <6>2
        <5>5. ~Prefilling(r)
          BY <1>8, <5>1, Numbers DEF Prefilling, Decoding
        <5> QED
          BY <1>4, <5>2, <5>4, <5>5
      <4>6. Members \cap moved' = {}
        BY <1>3, <2>3, <3>2 DEF Intact
      <4>7. Total(Held, Members) <= Pool
        BY <2>3 DEF Intact
      <4>8. Members \cap catchup' = {}
        BY <4>5
      <4> QED
        BY <4>1, <4>2, <4>3, <4>4, <4>5, <4>6, <4>7, <4>8 DEF Intact
    <3> QED
      BY <3>1, <3>2
  <2>4. \A r \in Members : r \notin Live => r \notin Live'
    BY <1>14
  <2> QED
    BY <1>1, <1>4, <2>2, <2>3, <2>4, CacheKept
<1>22. ServedBlocksCurrent' /\ CatchupNeverServed'
  BY <1>4, <1>21 DEF ServedBlocksCurrent, CatchupNeverServed, Served, Cached
<1> QED
  BY <1>15, <1>16, <1>18, <1>19, <1>20, <1>21, <1>22 DEF IInv

-----------------------------------------------------------------------------
(* The theorems.                                                           *)

LEMMA InitInv == Init => IInv
<1> SUFFICES ASSUME Init PROVE IInv
  OBVIOUS
<1>1. /\ running = <<>> /\ preempted = <<>> /\ fresh = Req /\ finished = {}
      /\ known = Prompt /\ computed = NoTokens /\ drafted = NoTokens /\ blocks = NoTokens
      /\ so = [tok |-> NoTokens, spec |-> NoTokens, new |-> {}, resumed |-> {}, finished |-> {}]
      /\ pc = "schedule" /\ batch = <<>> /\ stateIdx = [r \in Req |-> NoState]
      /\ cache = [fp |-> <<>>, spec |-> FALSE, of |-> <<>>] /\ lastFp = <<>> /\ fpRounds = 0
      /\ bargs = <<>> /\ consts = <<>> /\ align \in Aligns
      /\ round = [prep |-> "full", md |-> "built", uniform |-> FALSE]
      /\ catchup = {} /\ moved = {}
  BY DEF Init
<1>2. \A q : q = <<>> => ToSet(q) = {} /\ IsInjective(q) /\ Len(q) = 0
  BY DEF ToSet, IsInjective
<1>3. NoTokens \in [Req -> Nat] /\ NoTokens \in [Req -> {0, K}]
      /\ NoTokens \in [Req -> 0 .. MaxLen - 1]
  <2>1. Req # {} => 0 \in 0 .. MaxLen - 1
    BY Numbers
  <2> QED
    BY <2>1 DEF NoTokens
<1>4. Prompt \in [Req -> 1 .. MaxLen]
  <2>1. Prompt \in [Req -> 1 .. (MaxLen - 1)]
    BY ConstantsAssumption
  <2>2. \A n \in 1 .. (MaxLen - 1) : n \in 1 .. MaxLen
    BY Numbers
  <2> QED
    BY <2>1, <2>2
<1>5. Types
  <2>1. [r \in Req |-> NoState] \in [Req -> NoState .. Pool]
    BY Numbers DEF NoState
  <2>2. align \in BOOLEAN
    BY <1>1, ConstantsAssumption
  <2>3. so \in SchedulerOutput
    BY <1>1, <1>3 DEF SchedulerOutput
  <2>4. <<>> \in Fp
    BY DEF Fp
  <2> QED
    BY <1>1, <1>2, <1>3, <1>4, <2>1, <2>2, <2>3, <2>4 DEF Types
<1>6. ToSet(running) = {} /\ ToSet(preempted) = {} /\ Live = Req
  BY <1>1, <1>2 DEF Live
<1>7. Queues
  <2>1. Total(blocks, ToSet(running)) = 0
    BY <1>6, TotalEmpty
  <2>2. \A r \in Req : computed[r] = 0 /\ blocks[r] = 0 /\ known[r] = Prompt[r]
    BY <1>1 DEF NoTokens
  <2>3. \A r \in Req : computed[r] < known[r] /\ known[r] < MaxLen /\ known[r] >= Prompt[r]
    BY <2>2, Numbers
  <2>4. Len(running) <= MaxSeqs
    BY <1>1, <1>2, Numbers
  <2> QED
    BY <1>1, <1>6, <2>1, <2>2, <2>3, <2>4, Numbers DEF Queues
<1>8. Drafting
  BY <1>1, Numbers DEF Drafting, NoTokens
<1>9. Granted /\ InOrder /\ Sampling
  BY <1>1 DEF Granted, InOrder, Sampling
<1>10. LastBuild
  BY <1>1, <1>2 DEF LastBuild
<1>11. Cached
  BY <1>1 DEF Cached
<1>12. ServedBlocksCurrent /\ CatchupNeverServed
  BY <1>1 DEF ServedBlocksCurrent, CatchupNeverServed, Served
<1> QED
  BY <1>5, <1>7, <1>8, <1>9, <1>10, <1>11, <1>12 DEF IInv

LEMMA StutterInv ==
    ASSUME IInv, UNCHANGED vars
    PROVE  IInv'
<1>1. /\ Types /\ Queues /\ Drafting /\ Granted /\ InOrder /\ Sampling /\ LastBuild /\ Cached
      /\ ServedBlocksCurrent
  BY DEF IInv
<1>2. /\ pc' = pc /\ batch' = batch
      /\ running' = running /\ preempted' = preempted /\ fresh' = fresh /\ known' = known
      /\ computed' = computed /\ drafted' = drafted /\ blocks' = blocks
      /\ finished' = finished /\ so' = so /\ stateIdx' = stateIdx /\ cache' = cache
      /\ lastFp' = lastFp /\ fpRounds' = fpRounds /\ bargs' = bargs /\ consts' = consts
      /\ moved' = moved /\ align' = align /\ round' = round /\ catchup' = catchup
  BY DEF vars, sched, e5
<1>3. Types'
  BY <1>1, <1>2 DEF Types, IsInjective
<1>4. Live' = Live /\ Scheduled' = Scheduled
  BY <1>2 DEF Live, Scheduled
<1>5. Queues'
  BY <1>1, <1>2, <1>4 DEF Queues
<1>6. Drafting'
  BY <1>1, <1>2 DEF Drafting, Decoding
<1>7. Members' = Members /\ \A r : Verify(r)' = Verify(r) /\ (Decoding(r)' <=> Decoding(r))
  BY <1>2 DEF Members, Verify, Decoding
<1>8. Granted'
  BY <1>1, <1>2, <1>4, <1>7 DEF Granted
<1>9. InOrder' /\ Sampling'
  BY <1>1, <1>2, <1>4 DEF InOrder, Sampling
<1>10. LastBuild'
  BY <1>1, <1>2, <1>4 DEF LastBuild
<1>11. Cached'
  <2>1. Held' = Held
    BY <1>2, <1>7 DEF Held
  <2>2. Intact => Intact'
    BY <1>2, <1>7, <2>1 DEF Intact
  <2> QED
    BY <1>1, <1>2, <1>4, <1>7, <2>2, CacheKept
<1>12. ServedBlocksCurrent'
  BY <1>1, <1>2 DEF ServedBlocksCurrent, Served, Geometry
<1>13. CatchupNeverServed'
  BY <1>2 DEF IInv, CatchupNeverServed, Served
<1> QED
  BY <1>3, <1>5, <1>6, <1>8, <1>9, <1>10, <1>11, <1>12, <1>13 DEF IInv

LEMMA StepInv == IInv /\ [Next]_vars => IInv'
<1> SUFFICES ASSUME IInv, [Next]_vars PROVE IInv'
  OBVIOUS
<1>1. CASE Schedule
  <2>1. Scheduling
    BY <1>1 DEF Schedule, Scheduling
  <2>2. CASE ScheduleRunning
    BY <2>1, <2>2, RunInv
  <2>3. CASE \E r \in Req : ScheduleAdmit(r)
    BY <2>1, <2>3, AdmitInv
  <2> QED
    BY <1>1, <2>2, <2>3 DEF Schedule
<1>2. CASE \E r \in Req : Abort(r)
  BY <1>2, AbortInv
<1>3. CASE ExecuteEmpty
  BY <1>3, EmptyInv
<1>4. CASE ExecuteHit
  BY <1>4, HitInv
<1>5. CASE ExecuteLate
  BY <1>5, BuildInv DEF ExecuteLate
<1>6. CASE ExecuteFull
  BY <1>6, BuildInv DEF ExecuteFull
<1>7. CASE Sample
  BY <1>7, SampleInv
<1>8. CASE UNCHANGED vars
  BY <1>8, StutterInv
<1> QED
  BY <1>1, <1>2, <1>3, <1>4, <1>5, <1>6, <1>7, <1>8 DEF Next

LEMMA IInvAlways == Spec => []IInv
<1> QED
  BY InitInv, StepInv, PTL DEF Spec
-----------------------------------------------------------------------------
(* The theorems.                                                           *)

\* The scheduler's queues are apart and name no request twice, the blocks of
\* the running requests fit in the pool, no request is computed beyond what it
\* knows or the model length, and _update_states leaves exactly the scheduled
\* requests in the batch, each in one row.
THEOREM TypesHold == Spec => []TypeOK
<1>1. IInv => TypeOK
  <2> SUFFICES ASSUME IInv PROVE TypeOK
    OBVIOUS
  <2>1. Types /\ Queues /\ Sampling
    BY DEF IInv
  <2>2. blocks \in [Req -> 0 .. Pool]
    <3>1. blocks \in [Req -> Nat]
      BY <2>1 DEF Types
    <3>2. \A r \in Req : blocks[r] <= Pool
      BY <2>1, BlocksFit, Numbers DEF Queues
    <3> QED
      BY <3>1, <3>2, Numbers
  <2> QED
    BY <2>1, <2>2 DEF TypeOK, Types, Queues, Sampling
<1> QED
  BY <1>1, IInvAlways, PTL

\* _e5_md_hit: metadata is served from the cache only for the block geometry
\* it was built from, and no request of the batch lost its blocks since the
\* capture, although the fingerprint only counts them.
THEOREM ServedBlocksAreCurrent == Spec => []ServedBlocksCurrent
<1>1. IInv => ServedBlocksCurrent
  BY DEF IInv
<1> QED
  BY <1>1, IInvAlways, PTL

\* _e5_md_hit and _e5_cache_capture: the round after a prefill, in which the
\* drafter catches up, is never served from the cache, and only a verify round
\* is ever captured, although the shape of the drafts of a single request is
\* not looked at.
THEOREM CatchupIsNeverServed == Spec => []CatchupNeverServed
<1>1. IInv => CatchupNeverServed
  BY DEF IInv
<1> QED
  BY <1>1, IInvAlways, PTL
-----------------------------------------------------------------------------
(* One request at a time, as the serve script runs the engine.             *)

\* Nobody is preempted, and a request past its prompt knows one token more than
\* it has computed.
Solo ==
    /\ preempted = <<>>
    /\ \A r \in ToSet(running) : known[r] = Prompt[r] \/ known[r] = computed[r] + 1
    /\ PrefillNeverUniform

\* With one request at a time and at most three drafts: a decoding request has
\* its drafts until it is near the model length.
NearEnd(r) == computed[r] + (IF pc = "sample" THEN 1 ELSE 0) > MaxLen - K - 2

Drafted ==
    \A r \in ToSet(running) : Decoding(r) =>
        IF pc = "schedule" THEN drafted[r] = K \/ computed[r] >= MaxLen - 2 * K + 1
        ELSE so.spec[r] = K \/ computed[r] + 1 > MaxLen - K - 2

\* While the request of the capture lives, the saved arguments and constants
\* are those of a verify round, unless it comes too near the model length for
\* another.
Reusable ==
    \A r \in Members : r \in Live =>
        /\ r \in ToSet(running) /\ Decoding(r)
        /\ (bargs = <<K1>> /\ consts = <<K1>>) \/ NearEnd(r)

Reused == Drafted /\ Reusable /\ ConstantsResident /\ FlashArgsCurrent
LEMMA HeadOnly ==
    ASSUME Types, Queues, MaxSeqs = 1, NEW r \in ToSet(running)
    PROVE  /\ r \in Req /\ running # <<>> /\ running[1] = r
           /\ \A s \in ToSet(running) : s = r
<1>1. Len(running) \in Nat /\ Len(running) <= 1 /\ DOMAIN running = 1 .. Len(running)
  BY PlacesFacts DEF Types, Queues
<1>2. \A i \in DOMAIN running : i = 1
  BY <1>1
<1>3. \A s \in ToSet(running) : running[1] = s
  BY <1>2 DEF ToSet
<1>4. running # <<>>
  BY DEF ToSet
<1> QED
  BY <1>3, <1>4, RunningFacts

LEMMA NoneLeft ==
    ASSUME NEW q \in Seq(Req), \A x : x \notin ToSet(q)
    PROVE  q = <<>>
<1>1. q # <<>> => 1 \in DOMAIN q
  BY PlacesFacts
<1>2. q # <<>> => q[1] \in ToSet(q)
  BY <1>1 DEF ToSet
<1> QED
  BY <1>2

\* A round of the running request: it stays.
LEMMA SoloRun ==
    ASSUME IInv, ScheduleRunning, MaxSeqs = 1, preempted = <<>>
    PROVE  /\ preempted' = <<>>
           /\ \A r : r \in ToSet(running') <=> r \in ToSet(running)
           /\ known' = known /\ fresh' = fresh
           /\ \A r \in ToSet(running) :
                /\ computed'[r] = computed[r] /\ so'.tok[r] = Grant(r)
                /\ so'.spec[r] = Most(0, computed[r] + Grant(r) - known[r])
<1> DEFINE out == ToSet(running) \ Staying
           tok == [r \in Req |-> IF r \in Staying THEN Grant(r) ELSE 0]
<1>1. Types /\ Queues /\ Drafting
  BY DEF IInv
<1>2. /\ running' = Only(running, Staying) /\ preempted' = Only(running, out) \o preempted
      /\ computed' = [r \in Req |-> IF r \in out THEN 0 ELSE computed[r]]
      /\ so' = Output(tok, {}, {}) /\ fresh' = fresh /\ known' = known
  BY DEF ScheduleRunning
<1>3. \A r \in ToSet(running) : r \in Staying /\ r \in Req
  BY <1>1, HeadOnly, StayingFacts
<1>4. running \in Seq(Req) /\ preempted \in Seq(Req)
  BY <1>1 DEF Types
<1>5. \A r : r \in ToSet(running') <=> r \in ToSet(running)
  BY <1>2, <1>3, <1>4, OnlyFacts
<1>6. preempted' = <<>>
  <2> DEFINE o == Only(running, out)
  <2>1. o \in Seq(Req)
    BY <1>4, OnlyFacts
  <2>2. \A x : x \in ToSet(o) <=> x \in ToSet(running) /\ x \in out
    BY <1>4, OnlyFacts
  <2>3. \A x : x \notin ToSet(o)
    BY <1>3, <2>2
  <2>4. preempted' = o \o <<>>
    BY <1>2
  <2> HIDE DEF o
  <2>5. o = <<>>
    BY <2>1, <2>3, NoneLeft
  <2> QED
    BY <2>4, <2>5
<1>7. ASSUME NEW r \in ToSet(running)
      PROVE  /\ computed'[r] = computed[r] /\ so'.tok[r] = Grant(r)
             /\ so'.spec[r] = Most(0, computed[r] + Grant(r) - known[r])
  BY <1>2, <1>3, <1>7 DEF Output
<1> QED
  BY <1>2, <1>5, <1>6, <1>7

\* A request joins: it is the only one, and new.
LEMMA SoloAdmit ==
    ASSUME IInv, NEW r \in Req, ScheduleAdmit(r), MaxSeqs = 1, preempted = <<>>
    PROVE  /\ preempted' = <<>> /\ known' = known /\ computed' = computed
           /\ \A s : s \in ToSet(running') <=> s = r
           /\ r \in fresh /\ \A s : s \notin ToSet(running)
           /\ known[r] = Prompt[r] /\ computed[r] = 0
<1>1. Types /\ Queues
  BY DEF IInv
<1>2. /\ Len(running) < MaxSeqs /\ r \in fresh /\ running' = Append(running, r)
      /\ preempted' = Only(preempted, Req \ {r}) /\ known' = known /\ computed' = computed
  BY DEF ScheduleAdmit
<1>3. running \in Seq(Req) /\ IsInjective(running) /\ Len(running) \in Nat
      /\ DOMAIN running = 1 .. Len(running) /\ preempted \in Seq(Req)
  BY <1>1, PlacesFacts DEF Types
<1>4. \A s : s \notin ToSet(running)
  <2>1. \A i \in DOMAIN running : FALSE
    BY <1>2, <1>3
  <2> QED
    BY <2>1 DEF ToSet
<1>5. \A s : s \in ToSet(running') <=> s = r
  BY <1>2, <1>3, <1>4, AppendFacts
<1>6. preempted' = <<>>
  <2> DEFINE o == Only(preempted, Req \ {r})
  <2>1. o \in Seq(Req)
    BY <1>3, OnlyFacts
  <2>2. \A x : x \in ToSet(o) <=> x \in ToSet(preempted) /\ x \in Req \ {r}
    BY <1>3, OnlyFacts
  <2>3. \A x : x \notin ToSet(preempted)
    BY DEF ToSet
  <2> HIDE DEF o
  <2>4. o = <<>>
    BY <2>1, <2>2, <2>3, NoneLeft
  <2> QED
    BY <1>2, <2>4 DEF o
<1>7. known[r] = Prompt[r] /\ computed[r] = 0
  BY <1>1, <1>2, <1>4 DEF Queues, Live
<1> QED
  BY <1>2, <1>4, <1>5, <1>6, <1>7

LEMMA SoloAbort ==
    ASSUME IInv, NEW r \in Req, Abort(r), preempted = <<>>
    PROVE  /\ preempted' = <<>>
           /\ \A s : s \in ToSet(running') <=> s \in ToSet(running) /\ s # r
<1>1. Types
  BY DEF IInv
<1>2. running' = Only(running, Req \ {r}) /\ preempted' = Only(preempted, Req \ {r})
  BY DEF Abort
<1>3. running \in Seq(Req) /\ preempted \in Seq(Req) /\ \A s \in ToSet(running) : s \in Req
  BY <1>1, MembersFinite DEF Types
<1>4. \A s : s \in ToSet(running') <=> s \in ToSet(running) /\ s # r
  BY <1>2, <1>3, OnlyFacts
<1>5. preempted' = <<>>
  <2> DEFINE o == Only(preempted, Req \ {r})
  <2>1. o \in Seq(Req)
    BY <1>3, OnlyFacts
  <2>2. \A x : x \in ToSet(o) <=> x \in ToSet(preempted) /\ x \in Req \ {r}
    BY <1>3, OnlyFacts
  <2>3. \A x : x \notin ToSet(preempted)
    BY DEF ToSet
  <2> HIDE DEF o
  <2>4. o = <<>>
    BY <2>1, <2>2, <2>3, NoneLeft
  <2> QED
    BY <1>2, <2>4 DEF o
<1> QED
  BY <1>4, <1>5

\* The batch is the one request that runs, given a verify round's tokens, or
\* fewer and then all it has, or the whole budget.
LEMMA SoloBatch ==
    ASSUME IInv, pc = "execute", Scheduled # {}, MaxSeqs = 1
    PROVE  \E r \in Req :
             /\ UpdateStates \in Seq(Req) /\ Len(UpdateStates) = 1 /\ UpdateStates[1] = r
             /\ \A s : s \in ToSet(UpdateStates) <=> s = r
             /\ \A s : s \in Scheduled <=> s = r
             /\ r \in ToSet(running) /\ so.tok[r] \in Nat /\ Sched(UpdateStates) = so.tok[r]
             /\ Layout(UpdateStates) = <<so.tok[r]>>
             /\ so.tok[r] < Budget => computed[r] + so.tok[r] >= known[r]
<1> DEFINE rows == UpdateStates
<1>1. Types /\ Queues /\ Granted /\ InOrder
  BY DEF IInv
<1>2. rows \in Seq(Req) /\ IsInjective(rows) /\ ToSet(rows) = Scheduled
  BY <1>1, UpdatedFacts
<1>3. PICK r : r \in Scheduled
  OBVIOUS
<1>4. r \in ToSet(running) /\ \A s \in Scheduled : s \in ToSet(running)
  BY <1>1, <1>3 DEF Granted
<1>5. /\ r \in Req /\ running # <<>> /\ running[1] = r
      /\ \A s : s \in Scheduled <=> s = r
  BY <1>1, <1>3, <1>4, HeadOnly
<1>6. Scheduled = {r}
  BY <1>5
<1>7. so.tok[r] \in Nat
  BY <1>1, <1>5 DEF Types, SchedulerOutput
<1>8. Sched(rows) = so.tok[r]
  BY <1>2, <1>6, <1>7, TotalOne DEF Sched
<1> HIDE DEF rows
<1>9. Len(rows) = 1 /\ rows[1] = r
  <2>1. Len(rows) \in Nat /\ DOMAIN rows = 1 .. Len(rows)
        /\ \A i, j \in DOMAIN rows : rows[i] = rows[j] => i = j
    BY <1>2, PlacesFacts DEF IsInjective
  <2>2. \A i \in DOMAIN rows : rows[i] = r
    BY <1>2, <1>5 DEF ToSet
  <2>3. \E i \in DOMAIN rows : TRUE
    BY <1>2, <1>3 DEF ToSet
  <2>4. \A i, j \in DOMAIN rows : i = j
    BY <2>1, <2>2
  <2>5. Len(rows) >= 1
    BY <2>1, <2>3
  <2>6. 1 \in DOMAIN rows /\ Len(rows) \in DOMAIN rows
    BY <2>1, <2>5
  <2> QED
    BY <2>2, <2>4, <2>6
<1>10. Layout(rows) = <<so.tok[r]>>
  <2>1. DOMAIN rows = {1}
    BY <1>2, <1>9
  <2> QED
    BY <1>9, <2>1 DEF Layout
<1>11. so.tok[r] < Budget => computed[r] + so.tok[r] >= known[r]
  BY <1>1, <1>5 DEF InOrder
<1> QED
  BY <1>2, <1>4, <1>5, <1>7, <1>8, <1>9, <1>10, <1>11 DEF rows

\* A round in flight: its request has known tokens, more than it has computed.
LEMMA SoloNumbers ==
    ASSUME IInv, NEW r \in ToSet(running)
    PROVE  /\ r \in Req /\ r \in Live /\ known[r] \in Nat /\ computed[r] \in Nat
           /\ so.tok[r] \in Nat /\ computed[r] < known[r] /\ known[r] < MaxLen
           /\ Prompt[r] \in Nat /\ Prompt[r] >= 1 /\ Prompt[r] <= known[r]
           /\ pc # "schedule" =>
                /\ so.spec[r] = K /\ so.tok[r] > 0 => so.tok[r] = known[r] + K - computed[r]
                /\ so.tok[r] > 0 => /\ so.spec[r] = Most(0, computed[r] + so.tok[r] - known[r])
                                    /\ computed[r] + so.tok[r] <= MaxLen - 1
<1>1. Types /\ Queues /\ Granted
  BY DEF IInv
<1>2. /\ r \in Req /\ r \in Live /\ known[r] \in Nat /\ computed[r] \in Nat
      /\ computed[r] < known[r] /\ known[r] < MaxLen
  BY <1>1, RunningFacts
<1>3. Prompt[r] \in Nat /\ Prompt[r] >= 1 /\ Prompt[r] <= known[r]
  BY <1>1, <1>2, Numbers DEF Queues
<1>4. so.tok[r] \in Nat
  BY <1>1, <1>2 DEF Types, SchedulerOutput
<1>5. ASSUME pc # "schedule", so.tok[r] > 0
      PROVE  so.spec[r] = Most(0, computed[r] + so.tok[r] - known[r])
             /\ computed[r] + so.tok[r] <= MaxLen - 1
  BY <1>1, <1>2, <1>5 DEF Granted, Scheduled
<1>6. ASSUME pc # "schedule", so.tok[r] > 0, so.spec[r] = K
      PROVE  so.tok[r] = known[r] + K - computed[r]
  BY <1>2, <1>4, <1>5, <1>6, Numbers DEF Most
<1> QED
  BY <1>2, <1>3, <1>4, <1>5, <1>6

\* After a round its request has sampled, or is still in its prompt.
LEMMA SoloSample ==
    ASSUME IInv, Solo, Sample, MaxSeqs = 1
    PROVE  /\ preempted' = <<>> /\ pc = "sample" /\ pc' = "schedule"
           /\ \A r : r \in ToSet(running') => r \in ToSet(running)
           /\ \A r \in ToSet(running') :
                /\ so.tok[r] > 0 /\ Scheduled = {r} /\ r \in Req
                /\ \/ /\ r \in Sampled /\ computed[r] + so.tok[r] >= known[r]
                      /\ known'[r] = computed'[r] + 1 /\ computed'[r] >= known[r]
                      /\ computed'[r] \in Nat
                      /\ drafted'[r] = K \/ ~InputFitsInDrafter
                   \/ known'[r] = Prompt[r] /\ computed'[r] < Prompt[r] /\ ~Decoding(r)
<1>1. Types /\ Queues /\ Granted /\ InOrder /\ pc = "sample"
  BY DEF IInv, Sample
<1>2. PICK new \in [Sampled -> 1 .. K1], stop \in SUBSET Sampled :
        /\ \A r \in Sampled : new[r] <= so.spec[r] + 1
        /\ known' = [r \in Req |-> known[r] + (IF r \in Sampled THEN new[r] ELSE 0)]
        /\ computed' = [r \in Req |-> IF r \in Sampled THEN known[r] + new[r] - 1
                                      ELSE computed[r] + so.tok[r]]
        /\ LET done == stop \union {r \in Sampled : known[r] + new[r] >= MaxLen} IN
           /\ running' = Only(running, Req \ done)
           /\ blocks' = [r \in Req |-> IF r \in done THEN 0 ELSE blocks[r]]
           /\ drafted' = [r \in Req |-> IF r \in Sampled \ done /\ InputFitsInDrafter
                                        THEN K ELSE 0]
           /\ finished' = done
           /\ moved' = moved \union done
  BY DEF Sample
<1> DEFINE done == stop \union {r \in Sampled : known[r] + new[r] >= MaxLen}
<1>3. running' = Only(running, Req \ done)
      /\ drafted' = [r \in Req |-> IF r \in Sampled \ done /\ InputFitsInDrafter THEN K ELSE 0]
  BY <1>2
<1> HIDE DEF done
<1>4. \A r : r \in ToSet(running') => r \in ToSet(running) /\ r \notin done
  <2>1. running \in Seq(Req)
    BY <1>1 DEF Types
  <2>2. \A x : x \in ToSet(Only(running, Req \ done)) <=> x \in ToSet(running) /\ x \in Req \ done
    BY <2>1, OnlyFacts
  <2> QED
    BY <1>3, <2>2
<1>5. preempted' = <<>> /\ pc' = "schedule"
  BY DEF Sample, Solo
<1>6. ASSUME NEW r \in ToSet(running')
      PROVE  /\ so.tok[r] > 0 /\ Scheduled = {r} /\ r \in Req
             /\ \/ /\ r \in Sampled /\ computed[r] + so.tok[r] >= known[r]
                   /\ known'[r] = computed'[r] + 1 /\ computed'[r] >= known[r]
                   /\ computed'[r] \in Nat
                   /\ drafted'[r] = K \/ ~InputFitsInDrafter
                \/ known'[r] = Prompt[r] /\ computed'[r] < Prompt[r] /\ ~Decoding(r)
  <2>1. r \in ToSet(running) /\ r \notin done
    BY <1>4, <1>6
  <2>2. /\ r \in Req /\ known[r] \in Nat /\ computed[r] \in Nat /\ so.tok[r] \in Nat
        /\ computed[r] < known[r] /\ Prompt[r] \in Nat
    BY <2>1, SoloNumbers
  <2>3. running # <<>> /\ running[1] = r /\ \A s \in ToSet(running) : s = r
    BY <1>1, <2>1, HeadOnly
  <2>4. so.tok[r] > 0
    BY <1>1, <2>3 DEF InOrder
  <2>5. Scheduled = {r}
    <3>1. \A s \in Scheduled : s = r
      BY <1>1, <2>3 DEF Granted
    <3>2. r \in Scheduled
      BY <2>2, <2>4 DEF Scheduled
    <3> QED
      BY <3>1, <3>2
  <2>6. CASE r \in Sampled
    <3>1. new[r] \in Nat /\ new[r] >= 1
      <4>1. new[r] \in 1 .. K1
        BY <1>2, <2>6
      <4> QED
        BY <4>1, Numbers
    <3>2. known'[r] = known[r] + new[r] /\ computed'[r] = known[r] + new[r] - 1
      BY <1>2, <2>2, <2>6
    <3>3. computed[r] + so.tok[r] >= known[r]
      BY <2>6 DEF Sampled
    <3>4. drafted'[r] = K \/ ~InputFitsInDrafter
      BY <1>3, <2>1, <2>2, <2>6
    <3>5. known'[r] = computed'[r] + 1 /\ computed'[r] >= known[r] /\ computed'[r] \in Nat
      BY <2>2, <3>1, <3>2
    <3> QED
      BY <2>2, <2>4, <2>5, <2>6, <3>3, <3>4, <3>5
  <2>7. CASE r \notin Sampled
    <3>1. known'[r] = known[r] + 0 /\ computed'[r] = computed[r] + so.tok[r]
      BY <1>2, <2>2, <2>7
    <3>2. ~(computed[r] + so.tok[r] >= known[r])
      BY <2>5, <2>7 DEF Sampled
    <3>3. known[r] = Prompt[r] \/ known[r] = computed[r] + 1
      BY <2>1 DEF Solo
    <3>4. known[r] # computed[r] + 1
      BY <2>2, <2>4, <3>2
    <3> QED
      BY <2>2, <2>4, <2>5, <3>1, <3>2, <3>3, <3>4 DEF Decoding
  <2> QED
    BY <2>6, <2>7
<1> QED
  BY <1>1, <1>4, <1>5, <1>6

\* The verify graph is replayed only for a request that brings its drafts: what
\* has K + 1 tokens left past its prompt can only be its last token and drafts.
LEMMA SoloExecute ==
    ASSUME IInv, Solo, MaxSeqs = 1, pc = "execute", Scheduled # {},
           NEW hit \in BOOLEAN, NEW late \in BOOLEAN, Execute(UpdateStates, hit, late)
    PROVE  Solo'
<1>1. PICK r \in Req :
        /\ Len(UpdateStates) = 1
        /\ \A s : s \in ToSet(UpdateStates) <=> s = r
        /\ r \in ToSet(running) /\ so.tok[r] \in Nat /\ Sched(UpdateStates) = so.tok[r]
        /\ so.tok[r] < Budget => computed[r] + so.tok[r] >= known[r]
  BY SoloBatch
<1>2. /\ running' = running /\ preempted' = preempted /\ known' = known /\ computed' = computed
      /\ so' = so /\ batch' = UpdateStates
      /\ round'.uniform = UniformDecode(UpdateStates)
  BY DEF Execute, sched
<1>3. ASSUME UniformDecode(UpdateStates) PROVE AllDrafted(UpdateStates)
  <2>1. so.tok[r] = K1 * 1 /\ computed[r] >= Prompt[r]
    BY <1>1, <1>3 DEF UniformDecode
  <2>2. so.tok[r] = K + 1 /\ so.tok[r] < Budget /\ so.tok[r] > 0
    BY <2>1, Numbers
  <2>3. /\ known[r] \in Nat /\ computed[r] \in Nat /\ computed[r] < known[r] /\ Prompt[r] \in Nat
        /\ so.spec[r] = Most(0, computed[r] + so.tok[r] - known[r])
    BY <1>1, <2>2, SoloNumbers
  <2>4. known[r] = computed[r] + 1
    <3>1. known[r] = Prompt[r] \/ known[r] = computed[r] + 1
      BY <1>1 DEF Solo
    <3> QED
      BY <2>1, <2>3, <3>1
  <2>5. so.spec[r] = K
    BY <2>2, <2>3, <2>4, Numbers DEF Most
  <2> QED
    BY <1>1, <2>5 DEF AllDrafted
<1>4. PrefillNeverUniform'
  BY <1>2, <1>3 DEF PrefillNeverUniform, AllDrafted
<1> QED
  BY <1>2, <1>4 DEF Solo

LEMMA SoloInit ==
    ASSUME Init
    PROVE  Solo
<1>1. running = <<>> /\ preempted = <<>> /\ pc = "schedule"
  BY DEF Init
<1>2. \A r : r \notin ToSet(running)
  BY <1>1 DEF ToSet
<1> QED
  BY <1>1, <1>2 DEF Solo, PrefillNeverUniform

LEMMA SoloStep ==
    ASSUME IInv, Solo, MaxSeqs = 1, [Next]_vars
    PROVE  Solo'
<1>1. /\ preempted = <<>>
      /\ \A r \in ToSet(running) : known[r] = Prompt[r] \/ known[r] = computed[r] + 1
  BY DEF Solo
<1>2. CASE Schedule
  <2>1. pc' = "execute"
    BY <1>2 DEF Schedule
  <2>2. CASE ScheduleRunning
    BY <1>1, <2>1, <2>2, SoloRun DEF Solo, PrefillNeverUniform
  <2>3. ASSUME NEW r \in Req, ScheduleAdmit(r) PROVE Solo'
    BY <1>1, <2>1, <2>3, SoloAdmit DEF Solo, PrefillNeverUniform
  <2> QED
    BY <1>2, <2>2, <2>3 DEF Schedule
<1>3. ASSUME NEW r \in Req, Abort(r) PROVE Solo'
  <2>1. pc' = "schedule" /\ known' = known /\ computed' = computed
    BY <1>3 DEF Abort
  <2> QED
    BY <1>1, <1>3, <2>1, SoloAbort DEF Solo, PrefillNeverUniform
<1>4. CASE ExecuteEmpty
  <2>1. /\ pc' = "schedule" /\ running' = running /\ preempted' = preempted
        /\ known' = known /\ computed' = computed
    BY <1>4 DEF ExecuteEmpty, sched
  <2> QED
    BY <1>1, <2>1 DEF Solo, PrefillNeverUniform
<1>5. CASE ExecuteHit
  BY <1>5, SoloExecute DEF ExecuteHit
<1>6. CASE ExecuteLate
  BY <1>6, SoloExecute DEF ExecuteLate
<1>7. CASE ExecuteFull
  BY <1>7, SoloExecute DEF ExecuteFull
<1>8. CASE Sample
  BY <1>8, SoloSample DEF Solo, PrefillNeverUniform
<1>9. CASE UNCHANGED vars
  <2>1. /\ pc' = pc /\ running' = running /\ preempted' = preempted /\ so' = so
        /\ known' = known /\ computed' = computed /\ round' = round /\ batch' = batch
    BY <1>9 DEF vars, sched
  <2>2. PrefillNeverUniform'
    BY <2>1 DEF Solo, PrefillNeverUniform, AllDrafted
  <2> QED
    BY <1>1, <2>1, <2>2 DEF Solo
<1> QED
  BY <1>2, <1>3, <1>4, <1>5, <1>6, <1>7, <1>8, <1>9 DEF Next

\* _determine_batch_execution_and_padding, with one request at a time: "a
\* prefill batch is never a uniform decode".  With more, a request recomputed
\* after a preemption can look like one.
THEOREM PrefillIsNeverUniform ==
    ASSUME MaxSeqs = 1
    PROVE  Spec => []PrefillNeverUniform
<1>1. Init => IInv /\ Solo
  BY InitInv, SoloInit
<1>2. (IInv /\ Solo) /\ [Next]_vars => (IInv /\ Solo)'
  BY StepInv, SoloStep
<1>3. IInv /\ Solo => PrefillNeverUniform
  BY DEF Solo
<1> QED
  BY <1>1, <1>2, <1>3, PTL DEF Spec

\* A request with its drafts decodes, and has K + 1 tokens in this round.
LEMMA VerifyRound ==
    ASSUME IInv, pc # "schedule", NEW r \in Scheduled, so.spec[r] = K
    PROVE  Decoding(r) /\ so.tok[r] = K1 /\ computed[r] \in Nat /\ computed[r] <= MaxLen - K - 2
<1>1. Granted
  BY DEF IInv
<1>2. r \in ToSet(running) /\ so.tok[r] > 0 /\ Decoding(r)
  BY <1>1, Numbers DEF Granted, Scheduled
<1>3. /\ known[r] \in Nat /\ computed[r] \in Nat /\ so.tok[r] = known[r] + K - computed[r]
      /\ computed[r] + so.tok[r] <= MaxLen - 1
  BY <1>2, SoloNumbers
<1> QED
  BY <1>2, <1>3, Numbers DEF Decoding

\* A decoding request is given its last token and drafts, up to the model length.
LEMMA SoloDrafts ==
    ASSUME IInv, Drafted, MaxSeqs = 1, K <= 3, pc = "schedule",
           NEW r \in ToSet(running), Decoding(r)
    PROVE  \/ Most(0, computed[r] + Grant(r) - known[r]) = K
           \/ computed[r] + 1 > MaxLen - K - 2
<1>1. Types /\ Queues /\ Drafting
  BY DEF IInv
<1>2. /\ known[r] \in Nat /\ computed[r] \in Nat /\ known[r] = computed[r] + 1
      /\ drafted[r] \in Nat /\ drafted[r] <= K
  BY <1>1, RunningFacts DEF Decoding
<1>3. running # <<>> /\ running[1] = r
  BY <1>1, HeadOnly
<1>4. /\ Grant(r) \in Nat /\ Grant(r) <= Want(r) /\ (Grant(r) = Want(r) \/ Grant(r) = Budget)
  <2>1. 1 \in DOMAIN running /\ Ahead(running[1]) = {}
    BY <1>1, <1>3, HeadGrant
  <2>2. Total(Wants, Ahead(running[1])) = 0
    BY <2>1, TotalEmpty
  <2> QED
    BY <1>1, <1>3, <2>1, <2>2, GrantFacts
<1>5. Want(r) = Least(1 + drafted[r], MaxLen - 1 - computed[r])
  <2>1. known[r] + drafted[r] - computed[r] = 1 + drafted[r]
    BY <1>2
  <2> QED
    BY <2>1 DEF Want
<1>6. Grant(r) = Want(r)
  BY <1>2, <1>4, <1>5, Numbers DEF Least
<1>7. CASE drafted[r] = K
  BY <1>2, <1>5, <1>6, <1>7, Numbers DEF Least, Most
<1>8. CASE computed[r] >= MaxLen - 2 * K + 1
  BY <1>2, <1>8, Numbers
<1> QED
  BY <1>7, <1>8 DEF Drafted

\* What a hit reuses is what this round needs.
LEMMA SoloHit ==
    ASSUME IInv, Reused, MaxSeqs = 1, pc = "execute", Scheduled # {}, MdHit(UpdateStates)
    PROVE  /\ cache.spec /\ bargs = <<K1>> /\ consts = <<K1>> /\ Layout(UpdateStates) = <<K1>>
           /\ \A m \in Members : m \in Scheduled
           /\ \A m \in Scheduled : m \in ToSet(running) /\ Decoding(m)
<1>1. PICK r \in Req :
        /\ \A s : s \in ToSet(UpdateStates) <=> s = r
        /\ \A s : s \in Scheduled <=> s = r
        /\ r \in ToSet(running) /\ Layout(UpdateStates) = <<so.tok[r]>>
  BY SoloBatch
<1>2. cache.spec /\ Members = Scheduled
  BY HitFacts
<1>3. so.spec[r] = K
  BY <1>1 DEF MdHit, AllDrafted
<1>4. Decoding(r) /\ so.tok[r] = K1 /\ computed[r] \in Nat /\ computed[r] <= MaxLen - K - 2
  BY <1>1, <1>3, VerifyRound
<1>5. r \in Members /\ r \in Live
  BY <1>1, <1>2 DEF Live
<1>6. (bargs = <<K1>> /\ consts = <<K1>>) \/ NearEnd(r)
  BY <1>5 DEF Reused, Reusable
<1>7. ~NearEnd(r)
  BY <1>4, Numbers DEF NearEnd
<1> QED
  BY <1>1, <1>2, <1>4, <1>6, <1>7

LEMMA OneArg ==
    ASSUME consts' = <<K1>>, Layout(batch)' = <<K1>>, Len(batch') = 1
    PROVE  ConstantsResident'
<1> DEFINE q == <<K1>>
<1>1. q \in Seq(Nat) /\ Len(q) = 1
  BY Numbers
<1>2. consts' = q /\ Layout(batch)' = q
  OBVIOUS
<1> HIDE DEF q
<1>3. SubSeq(q, 1, Len(q)) = q
  BY <1>1, SubSeqFull
<1>4. Len(consts') >= Len(batch')
  BY <1>1, <1>2
<1>5. SubSeq(consts', 1, Len(batch')) = Layout(batch)'
  BY <1>1, <1>2, <1>3
<1> QED
  BY <1>4, <1>5 DEF ConstantsResident

LEMMA ReusedHit ==
    ASSUME IInv, Reused, MaxSeqs = 1, ExecuteHit
    PROVE  Reused'
<1>1. /\ pc = "execute" /\ Scheduled # {} /\ MdHit(UpdateStates)
      /\ cache' = cache /\ bargs' = bargs /\ pc' = "sample" /\ batch' = UpdateStates
      /\ consts' = (IF cache.spec THEN consts ELSE Layout(UpdateStates))
      /\ running' = running /\ preempted' = preempted /\ fresh' = fresh
      /\ known' = known /\ computed' = computed /\ so' = so
  BY DEF ExecuteHit, Execute, Resident, sched
<1>2. /\ cache.spec /\ bargs = <<K1>> /\ consts = <<K1>> /\ Layout(UpdateStates) = <<K1>>
      /\ \A m \in Members : m \in Scheduled
      /\ \A m \in Scheduled : m \in ToSet(running) /\ Decoding(m)
  BY <1>1, SoloHit
<1>3. consts' = <<K1>> /\ bargs' = <<K1>> /\ Layout(batch)' = <<K1>>
  BY <1>1, <1>2 DEF Layout
<1>4. Drafted'
  BY <1>1 DEF Reused, Drafted, Decoding
<1>5. Reusable'
  BY <1>1, <1>2, <1>3 DEF Reusable, Members, Decoding
<1>6. Len(batch') = 1
  <2>1. Len(UpdateStates) = 1
    BY <1>1, SoloBatch
  <2> QED
    BY <1>1, <2>1
<1>7. ConstantsResident' /\ FlashArgsCurrent'
  BY <1>3, <1>6, OneArg DEF FlashArgsCurrent
<1> QED
  BY <1>4, <1>5, <1>7 DEF Reused

\* A build of the running request; when it is kept, it is a verify round's.
LEMMA ReusedBuild ==
    ASSUME IInv, Reused, MaxSeqs = 1, pc = "execute", Scheduled # {}, NEW hit \in BOOLEAN,
           hit <=> MdHit(UpdateStates), Execute(UpdateStates, hit, hit),
           bargs' = Layout(UpdateStates), CacheCapture(UpdateStates, PreprocessMamba)
    PROVE  Reused'
<1> DEFINE rows  == UpdateStates
           fp    == StateFp(rows, PreprocessMamba)
           count == IF fp = lastFp THEN Least(3, fpRounds + 1) ELSE 1
           shape == /\ Len(rows) <= E5MaxReqs
                    /\ Sched(rows) = K1 * Len(rows)
                    /\ Len(rows) > 1 => AllK1(rows) /\ AllDrafted(rows)
           taken == shape /\ count = 3
<1>1. PICK r \in Req :
        /\ rows \in Seq(Req) /\ Len(rows) = 1 /\ rows[1] = r
        /\ \A s : s \in ToSet(rows) <=> s = r
        /\ \A s : s \in Scheduled <=> s = r
        /\ r \in ToSet(running) /\ Layout(rows) = <<so.tok[r]>>
  BY SoloBatch
<1>2. Types /\ Queues /\ Granted
  BY DEF IInv
<1>3. /\ cache' = (IF taken THEN Captured(rows, PreprocessMamba) ELSE cache)
      /\ bargs' = <<so.tok[r]>> /\ pc' = "sample" /\ batch' = rows
      /\ consts' = (IF hit /\ cache.spec THEN consts ELSE Layout(rows))
      /\ running' = running /\ preempted' = preempted /\ fresh' = fresh
      /\ known' = known /\ computed' = computed /\ so' = so
      /\ round'.md = "built"
      /\ round'.prep = IF hit /\ cache.spec THEN "fast" ELSE "full"
  BY <1>1 DEF CacheCapture, Execute, Resident, sched
<1>4. hit => /\ cache.spec /\ consts = <<K1>> /\ Layout(rows) = <<K1>>
  BY SoloHit
<1>5. consts' = <<so.tok[r]>> /\ Layout(batch)' = <<so.tok[r]>>
  BY <1>1, <1>3, <1>4 DEF Layout
<1>6. taken => AllDrafted(rows) /\ fp = lastFp
  <2>1. fpRounds \in 0 .. 3
    BY <1>2 DEF Types
  <2>2. count = 3 => fp = lastFp
    OBVIOUS
  <2>3. ASSUME taken PROVE AllDrafted(rows)
    BY <2>2, <2>3, CapturedShape
  <2> QED
    BY <2>2, <2>3
<1>7. taken => \A m \in Members' : m = r
  <2>1. PreprocessMamba \in [Req -> NoState .. Pool]
    BY <1>2, MambaFacts
  <2>2. DOMAIN fp = DOMAIN rows /\ \A i \in DOMAIN rows : fp[i][1] = rows[i]
    <3> HIDE DEF rows
    <3> QED
      BY <1>1, <1>2, <2>1, FpFacts
  <2>3. \A i \in DOMAIN rows : rows[i] = r
    BY <1>1 DEF ToSet
  <2>4. taken => cache'.fp = fp
    BY <1>3 DEF Captured
  <2> HIDE DEF rows, fp, taken
  <2> QED
    BY <2>2, <2>3, <2>4 DEF Members
<1> HIDE DEF rows, fp, shape, count, taken
<1>8. Drafted'
  BY <1>3 DEF Reused, Drafted, Decoding
<1>9. so.spec[r] = K => so.tok[r] = K1 /\ Decoding(r)
  BY <1>1, VerifyRound
<1>10. ASSUME NEW m \in Members', m \in Live'
       PROVE  m = r /\ Decoding(r) /\ (so.spec[r] = K \/ computed[r] + 1 > MaxLen - K - 2)
  <2>1. CASE taken
    <3>1. m = r /\ so.spec[r] = K
      BY <1>1, <1>6, <1>7, <2>1 DEF AllDrafted
    <3> QED
      BY <1>9, <3>1
  <2>2. CASE ~taken
    <3>1. m \in Members /\ m \in Live
      <4>1. cache' = cache
        BY <1>3, <2>2
      <4>2. Members' = Members
        BY <4>1 DEF Members
      <4>3. Live' = Live
        BY <1>3 DEF Live
      <4> QED
        BY <1>10, <4>2, <4>3
    <3>2. m \in ToSet(running) /\ Decoding(m)
      BY <3>1 DEF Reused, Reusable
    <3>3. m = r
      BY <1>1, <1>2, <3>2, HeadOnly
    <3> QED
      BY <1>1, <3>2, <3>3 DEF Reused, Drafted
  <2> QED
    BY <2>1, <2>2
<1>11. Reusable'
  <2> SUFFICES ASSUME NEW m \in Members', m \in Live'
               PROVE  /\ m \in ToSet(running') /\ Decoding(m)'
                      /\ (bargs' = <<K1>> /\ consts' = <<K1>>) \/ NearEnd(m)'
    BY DEF Reusable
  <2>1. m = r /\ Decoding(r) /\ (so.spec[r] = K \/ computed[r] + 1 > MaxLen - K - 2)
    BY <1>10
  <2>2. Decoding(m)' <=> Decoding(m)
    BY <1>3 DEF Decoding
  <2>3. NearEnd(m)' <=> computed[m] + 1 > MaxLen - K - 2
    BY <1>3 DEF NearEnd
  <2> QED
    BY <1>1, <1>3, <1>5, <1>9, <2>1, <2>2, <2>3
<1>12. ConstantsResident'
  <2>1. CASE hit
    <3>1. consts' = <<K1>> /\ Layout(batch)' = <<K1>> /\ Len(batch') = 1
      BY <1>1, <1>3, <1>4, <1>5, <2>1
    <3> QED
      BY <3>1, OneArg
  <2>2. CASE ~hit
    BY <1>3, <2>2 DEF ConstantsResident
  <2> QED
    BY <2>1, <2>2
<1>13. FlashArgsCurrent'
  BY <1>3 DEF FlashArgsCurrent, Served
<1> QED
  BY <1>8, <1>11, <1>12, <1>13 DEF Reused

\* Only what lives can run, and none comes back.
LEMMA StillLive ==
    ASSUME IInv, preempted' = <<>>, fresh' \subseteq fresh,
           \A s : s \in ToSet(running') => s \in Live, NEW m \in Live'
    PROVE  m \in Live
BY DEF Live, ToSet

LEMMA ReusedInit ==
    ASSUME Init
    PROVE  Reused
<1>1. running = <<>> /\ pc = "schedule" /\ cache.fp = <<>>
  BY DEF Init
<1>2. (\A r : r \notin ToSet(running)) /\ \A m : m \notin Members
  BY <1>1 DEF ToSet, Members
<1>3. Drafted /\ Reusable
  BY <1>2 DEF Drafted, Reusable
<1> QED
  BY <1>1, <1>3 DEF Reused, ConstantsResident, FlashArgsCurrent, Served

LEMMA ReusedRun ==
    ASSUME IInv, Solo, Reused, MaxSeqs = 1, K <= 3, Schedule
    PROVE  Reused'
<1>1. Types /\ Queues /\ Drafting /\ preempted = <<>>
  BY DEF IInv, Solo
<1>2. pc = "schedule" /\ pc' = "execute" /\ cache' = cache /\ bargs' = bargs /\ consts' = consts
  BY DEF Schedule
<1>3. ConstantsResident' /\ FlashArgsCurrent'
  BY <1>2 DEF ConstantsResident, FlashArgsCurrent, Served
<1>4. Members' = Members
  BY <1>2 DEF Members
<1>5. CASE ScheduleRunning
  <2>1. /\ preempted' = <<>> /\ known' = known /\ fresh' = fresh
        /\ \A r : r \in ToSet(running') <=> r \in ToSet(running)
        /\ \A r \in ToSet(running) :
             /\ computed'[r] = computed[r]
             /\ so'.spec[r] = Most(0, computed[r] + Grant(r) - known[r])
    BY <1>1, <1>5, SoloRun
  <2>2. Drafted'
    <3> SUFFICES ASSUME NEW r \in ToSet(running), Decoding(r)'
                 PROVE  so'.spec[r] = K \/ computed'[r] + 1 > MaxLen - K - 2
      BY <1>2, <2>1 DEF Drafted
    <3>1. Decoding(r) /\ Drafted
      BY <2>1 DEF Decoding, Reused
    <3> QED
      BY <1>2, <2>1, <3>1, SoloDrafts
  <2>3. ASSUME NEW m \in Members, m \in Live'
        PROVE  /\ m \in ToSet(running') /\ Decoding(m)'
               /\ (bargs' = <<K1>> /\ consts' = <<K1>>) \/ NearEnd(m)'
    <3>1. m \in Live
      BY <2>1, <2>3, StillLive DEF Live
    <3>2. /\ m \in ToSet(running) /\ Decoding(m)
          /\ (bargs = <<K1>> /\ consts = <<K1>>) \/ NearEnd(m)
      BY <2>3, <3>1 DEF Reused, Reusable
    <3> QED
      BY <1>2, <2>1, <3>2 DEF Decoding, NearEnd
  <2> QED
    BY <1>3, <1>4, <2>2, <2>3 DEF Reused, Reusable
<1>6. ASSUME NEW r \in Req, ScheduleAdmit(r) PROVE Reused'
  <2>1. /\ preempted' = <<>> /\ known' = known /\ computed' = computed
        /\ \A s : s \in ToSet(running') <=> s = r
        /\ r \in fresh /\ \A s : s \notin ToSet(running)
        /\ known[r] = Prompt[r] /\ computed[r] = 0
    BY <1>1, <1>6, SoloAdmit
  <2>2. fresh' \subseteq fresh
    BY <1>6 DEF ScheduleAdmit
  <2>3. Drafted'
    <3>1. ~Decoding(r)'
      BY <2>1, Numbers DEF Decoding
    <3> QED
      BY <2>1, <3>1 DEF Drafted
  <2>4. \A m \in Members : m \notin Live'
    <3>1. \A m \in Members : m \notin Live
      BY <2>1 DEF Reused, Reusable
    <3>2. \A s : s \in ToSet(running') => s \in Live
      BY <2>1 DEF Live
    <3> QED
      BY <2>1, <2>2, <3>1, <3>2, StillLive
  <2> QED
    BY <1>3, <1>4, <2>3, <2>4 DEF Reused, Reusable
<1> QED
  BY <1>5, <1>6 DEF Schedule

LEMMA ReusedAbort ==
    ASSUME IInv, Solo, Reused, MaxSeqs = 1, NEW r \in Req, Abort(r)
    PROVE  Reused'
<1>1. Types /\ Queues /\ preempted = <<>>
  BY DEF IInv, Solo
<1>2. /\ pc = "schedule" /\ pc' = pc /\ cache' = cache /\ bargs' = bargs /\ consts' = consts
      /\ known' = known /\ computed' = computed /\ fresh' = fresh
      /\ drafted' = [drafted EXCEPT ![r] = 0]
      /\ r \in ToSet(running) \union ToSet(preempted)
  BY DEF Abort
<1>3. /\ preempted' = <<>>
      /\ \A s : s \in ToSet(running') <=> s \in ToSet(running) /\ s # r
  BY <1>1, SoloAbort
<1>4. ConstantsResident' /\ FlashArgsCurrent'
  BY <1>2 DEF ConstantsResident, FlashArgsCurrent, Served
<1>5. Members' = Members
  BY <1>2 DEF Members
<1>6. Drafted'
  <2>1. \A s \in ToSet(running') : drafted'[s] = drafted[s] /\ s \in ToSet(running)
    <3>1. \A s \in ToSet(running) : s \in Req
      BY <1>1, RunningFacts
    <3> QED
      BY <1>1, <1>2, <1>3, <3>1 DEF Types
  <2> QED
    BY <1>2, <2>1 DEF Reused, Drafted, Decoding
<1>7. ASSUME NEW m \in Members, m \in Live'
      PROVE  /\ m \in ToSet(running') /\ Decoding(m)'
             /\ (bargs' = <<K1>> /\ consts' = <<K1>>) \/ NearEnd(m)'
  <2>1. \A s : s \in ToSet(running') => s \in Live
    BY <1>3 DEF Live
  <2>2. m \in Live
    BY <1>2, <1>3, <1>7, <2>1, StillLive
  <2>3. /\ m \in ToSet(running) /\ Decoding(m)
        /\ (bargs = <<K1>> /\ consts = <<K1>>) \/ NearEnd(m)
    BY <1>7, <2>2 DEF Reused, Reusable
  <2>4. m \in ToSet(running')
    <3>1. m \notin fresh /\ m \notin ToSet(preempted')
      BY <1>1, <1>3, <2>3 DEF Queues, ToSet
    <3> QED
      BY <1>2, <1>7, <3>1 DEF Live
  <2> QED
    BY <1>2, <2>3, <2>4 DEF Decoding, NearEnd
<1> QED
  BY <1>4, <1>5, <1>6, <1>7 DEF Reused, Reusable

LEMMA ReusedSample ==
    ASSUME IInv, Solo, Reused, MaxSeqs = 1, Sample
    PROVE  Reused'
<1>1. Types /\ Queues /\ Granted
  BY DEF IInv
<1>2. /\ cache' = cache /\ bargs' = bargs /\ consts' = consts /\ fresh' = fresh
  BY DEF Sample
<1>3. /\ preempted' = <<>> /\ pc = "sample" /\ pc' = "schedule"
      /\ \A r : r \in ToSet(running') => r \in ToSet(running)
      /\ \A r \in ToSet(running') :
           /\ so.tok[r] > 0 /\ Scheduled = {r} /\ r \in Req
           /\ \/ /\ r \in Sampled /\ computed[r] + so.tok[r] >= known[r]
                 /\ known'[r] = computed'[r] + 1 /\ computed'[r] >= known[r]
                 /\ computed'[r] \in Nat
                 /\ drafted'[r] = K \/ ~InputFitsInDrafter
              \/ known'[r] = Prompt[r] /\ computed'[r] < Prompt[r] /\ ~Decoding(r)
  BY SoloSample
<1>4. ConstantsResident' /\ FlashArgsCurrent'
  BY <1>3 DEF ConstantsResident, FlashArgsCurrent, Served
<1>5. Members' = Members
  BY <1>2 DEF Members
<1>6. Drafted'
  <2> SUFFICES ASSUME NEW r \in ToSet(running'), Decoding(r)'
               PROVE  drafted'[r] = K \/ computed'[r] >= MaxLen - 2 * K + 1
    BY <1>3 DEF Drafted
  <2>1. r \in ToSet(running) /\ so.tok[r] > 0 /\ Scheduled = {r}
    BY <1>3
  <2>2. /\ known[r] \in Nat /\ computed[r] \in Nat /\ so.tok[r] \in Nat /\ Prompt[r] \in Nat
        /\ so.spec[r] = Most(0, computed[r] + so.tok[r] - known[r])
    BY <1>3, <2>1, SoloNumbers
  <2>3. ~(known'[r] = Prompt[r] /\ computed'[r] < Prompt[r])
    <3>1. known'[r] = computed'[r] + 1 /\ computed'[r] >= Prompt[r]
      BY DEF Decoding
    <3>2. computed'[r] \in Int
      <4>1. Types'
        BY SampleInv DEF IInv
      <4>2. computed'[r] \in 0 .. MaxLen - 1
        BY <1>3, <4>1 DEF Types
      <4> QED
        BY <4>2, Numbers
    <3> QED
      BY <2>2, <3>1, <3>2
  <2>4. /\ computed[r] + so.tok[r] >= known[r] /\ computed'[r] >= known[r]
        /\ computed'[r] \in Nat /\ (drafted'[r] = K \/ ~InputFitsInDrafter)
    BY <1>3, <2>3
  <2>5. CASE ~InputFitsInDrafter
    <3>1. ~(computed[r] + so.tok[r] + K <= MaxLen)
      BY <2>1, <2>5 DEF InputFitsInDrafter
    <3>2. so.spec[r] <= K
      BY <1>1, <1>3, <2>1 DEF Granted
    <3> QED
      BY <2>2, <2>4, <3>1, <3>2, Numbers DEF Most
  <2> QED
    BY <2>4, <2>5
<1>7. ASSUME NEW m \in Members, m \in Live'
      PROVE  /\ m \in ToSet(running') /\ Decoding(m)'
             /\ (bargs' = <<K1>> /\ consts' = <<K1>>) \/ NearEnd(m)'
  <2>1. \A s : s \in ToSet(running') => s \in Live
    BY <1>3 DEF Live
  <2>2. m \in Live
    BY <1>2, <1>3, <1>7, <2>1, StillLive
  <2>3. /\ m \in ToSet(running) /\ Decoding(m)
        /\ (bargs = <<K1>> /\ consts = <<K1>>) \/ NearEnd(m)
    BY <1>7, <2>2 DEF Reused, Reusable
  <2>4. m \in ToSet(running')
    <3>1. m \notin fresh /\ m \notin ToSet(preempted')
      BY <1>1, <1>3, <2>3 DEF Queues, ToSet
    <3> QED
      BY <1>2, <1>7, <3>1 DEF Live
  <2>5. /\ known'[m] = computed'[m] + 1 /\ computed'[m] >= known[m] /\ computed'[m] \in Nat
    BY <1>3, <2>3, <2>4
  <2>6. /\ known[m] = computed[m] + 1 /\ known[m] \in Nat /\ computed[m] \in Nat
        /\ Prompt[m] \in Nat /\ Prompt[m] <= known[m]
    BY <2>3, SoloNumbers DEF Decoding
  <2>7. Decoding(m)'
    BY <2>5, <2>6 DEF Decoding
  <2>8. NearEnd(m) => NearEnd(m)'
    BY <1>3, <2>5, <2>6, Numbers DEF NearEnd
  <2> QED
    BY <1>2, <2>3, <2>4, <2>7, <2>8
<1> QED
  BY <1>4, <1>5, <1>6, <1>7 DEF Reused, Reusable

LEMMA ReusedStep ==
    ASSUME IInv, Solo, Reused, MaxSeqs = 1, K <= 3, [Next]_vars
    PROVE  Reused'
<1>1. CASE Schedule
  BY <1>1, ReusedRun
<1>2. ASSUME NEW r \in Req, Abort(r) PROVE Reused'
  BY <1>2, ReusedAbort
<1>3. CASE ExecuteEmpty
  <2>1. /\ pc = "execute" /\ pc' = "schedule" /\ cache' = cache /\ bargs' = bargs
        /\ consts' = consts /\ running' = running /\ preempted' = preempted /\ fresh' = fresh
        /\ known' = known /\ computed' = computed /\ Scheduled = {}
    BY <1>3 DEF ExecuteEmpty, sched, e5
  <2>2. \A r : r \notin ToSet(running)
    <3>1. Types /\ InOrder
      BY DEF IInv
    <3>2. ASSUME running # <<>> PROVE FALSE
      <4>1. running[1] \in Req /\ so.tok[running[1]] > 0
        BY <2>1, <3>1, <3>2, PlacesFacts DEF Types, InOrder
      <4> QED
        BY <2>1, <4>1 DEF Scheduled
    <3> QED
      BY <3>2 DEF ToSet
  <2>3. Drafted'
    BY <2>1, <2>2 DEF Drafted
  <2>4. Members' = Members /\ Live' = Live
    BY <2>1 DEF Members, Live
  <2>5. Reusable'
    BY <2>1, <2>2, <2>4 DEF Reused, Reusable
  <2> QED
    BY <2>1, <2>3, <2>5 DEF Reused, ConstantsResident, FlashArgsCurrent, Served
<1>4. CASE ExecuteHit
  BY <1>4, ReusedHit
<1>5. CASE ExecuteLate
  BY <1>5, ReusedBuild DEF ExecuteLate
<1>6. CASE ExecuteFull
  BY <1>6, ReusedBuild DEF ExecuteFull
<1>7. CASE Sample
  BY <1>7, ReusedSample
<1>8. CASE UNCHANGED vars
  <2>1. /\ pc' = pc /\ cache' = cache /\ bargs' = bargs /\ consts' = consts
        /\ running' = running /\ preempted' = preempted /\ fresh' = fresh /\ so' = so
        /\ known' = known /\ computed' = computed /\ drafted' = drafted
        /\ round' = round /\ batch' = batch
    BY <1>8 DEF vars, sched, e5
  <2>2. Members' = Members /\ Live' = Live /\ \A r : Decoding(r)' <=> Decoding(r)
    BY <2>1 DEF Members, Live, Decoding
  <2>3. Drafted'
    BY <2>1, <2>2 DEF Reused, Drafted
  <2>4. Reusable'
    BY <2>1, <2>2 DEF Reused, Reusable, NearEnd
  <2>5. ConstantsResident' /\ FlashArgsCurrent'
    BY <2>1 DEF Reused, ConstantsResident, FlashArgsCurrent, Served, Layout
  <2> QED
    BY <2>3, <2>4, <2>5 DEF Reused
<1> QED
  BY <1>1, <1>2, <1>3, <1>4, <1>5, <1>6, <1>7, <1>8 DEF Next

LEMMA ReusedAlways ==
    ASSUME MaxSeqs = 1, K <= 3
    PROVE  Spec => [](IInv /\ Solo /\ Reused)
<1>1. Init => IInv /\ Solo /\ Reused
  BY InitInv, SoloInit, ReusedInit
<1>2. (IInv /\ Solo /\ Reused) /\ [Next]_vars => (IInv /\ Solo /\ Reused)'
  BY StepInv, SoloStep, ReusedStep
<1> QED
  BY <1>1, <1>2, PTL DEF Spec

\* _e5_fast_prepare_v2: the row constants a fast preparation skips are those of
\* the batch it serves, with one request at a time and up to three drafts, as
\* the serve script starts the engine.  With more, the rounds without drafts
\* near the model length can leave others behind.
THEOREM ConstantsAreResident ==
    ASSUME MaxSeqs = 1, K <= 3
    PROVE  Spec => []ConstantsResident
<1>1. IInv /\ Solo /\ Reused => ConstantsResident
  BY DEF Reused
<1> QED
  BY <1>1, ReusedAlways, PTL

\* On a hit the flash group is rebuilt with the arguments saved by the last
\* full build: they describe the batch that is served, under the same limits.
THEOREM FlashArgsAreCurrent ==
    ASSUME MaxSeqs = 1, K <= 3
    PROVE  Spec => []FlashArgsCurrent
<1>1. IInv /\ Solo /\ Reused => FlashArgsCurrent
  BY DEF Reused
<1> QED
  BY <1>1, ReusedAlways, PTL
=============================================================================
