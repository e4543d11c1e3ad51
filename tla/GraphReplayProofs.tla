------------------------- MODULE GraphReplayProofs -------------------------
(***************************************************************************)
(* First the linear kernels: for every shape of a layer and every number   *)
(* of rows, a launch of a repacked layer is one its kernel accepts, and    *)
(* the order in which a row is added up follows from the layer and the     *)
(* number of row tiles.  Then what every captured graph has recorded, for  *)
(* every model, every set of switches and every set of capture sizes:      *)
(* kernels that accept their call and add up in the layer's own order, and *)
(* buffers that hold, whenever it is replayed, the tokens of the round.    *)
(***************************************************************************)
EXTENDS GraphReplay, RowsProofs, SequenceTheorems

(* The linear kernels.                                                     *)

Layer == [kind : {"fp4", "w4a16", "fp8"}, n : Nat, k : Nat]
Cfgs == [split : {4, 8, 16, 32}, nacc : {1, 2}]

\* A configuration whose split divides the k-tiles of the layer.
LEMMA Cfg2Divides ==
    ASSUME NEW k \in Nat, NEW n \in Nat, Cfg2(k, n) # NoCfg
    PROVE  Cfg2(k, n) \in Cfgs /\ Cfg2(k, n).split # 4 /\ Splits(k, Cfg2(k, n).split)
<1> DEFINE known == {t \in Measured(Table2, k, n) : Splits(k, t.split)}
           wide  == {s \in {8, 16, 32} : Splits(k, s) /\ (n \div 32) * s >= 640}
           with(s) == [split |-> s, nacc |-> IF s >= 16 THEN 2 ELSE 1]
<1>1. CASE known # {}
  <2>1. PICK t \in known : Cfg2(k, n) = Of(t)
    BY <1>1 DEF Cfg2
  <2>2. t \in Table2 /\ Splits(k, t.split)
    BY <2>1 DEF Measured
  <2>3. t.split \in {8, 16, 32} /\ t.nacc \in {1, 2}
    BY <2>2 DEF Table2, Entry
  <2> QED
    BY <2>1, <2>2, <2>3 DEF Of, Cfgs
<1>2. CASE known = {} /\ wide # {}
  <2> DEFINE s == CHOOSE s \in wide : \A r \in wide : s <= r
  <2>1. \E x \in wide : \A r \in wide : x <= r
    <3>1. CASE 8 \in wide
      BY <3>1
    <3>2. CASE 8 \notin wide /\ 16 \in wide
      BY <3>2
    <3>3. CASE 8 \notin wide /\ 16 \notin wide
      BY <3>3, <1>2
    <3> QED
      BY <3>1, <3>2, <3>3
  <2>2. s \in wide
    BY <2>1
  <2>3. Cfg2(k, n) = with(s)
    BY <1>2 DEF Cfg2
  <2>4. s \in {8, 16, 32} /\ Splits(k, s)
    BY <2>2
  <2> HIDE DEF s
  <2>5. with(s) \in Cfgs /\ with(s).split = s
    BY <2>4 DEF Cfgs
  <2> QED
    BY <2>3, <2>4, <2>5
<1>3. CASE known = {} /\ wide = {}
  <2>1. Cfg2(k, n) = IF Splits(k, 16) THEN with(16) ELSE IF Splits(k, 8) THEN with(8) ELSE NoCfg
    BY <1>3 DEF Cfg2
  <2> QED
    BY <2>1 DEF Cfgs
<1> QED
  BY <1>1, <1>2, <1>3

\* There is none only when eight does not divide the k-tiles.
LEMMA NoCfg2 ==
    ASSUME NEW k \in Nat, NEW n \in Nat, k % 128 = 0
    PROVE  Cfg2(k, n) # NoCfg
<1> DEFINE known == {t \in Measured(Table2, k, n) : Splits(k, t.split)}
           wide  == {s \in {8, 16, 32} : Splits(k, s) /\ (n \div 32) * s >= 640}
           with(s) == [split |-> s, nacc |-> IF s >= 16 THEN 2 ELSE 1]
<1>1. Splits(k, 8)
  BY DEF Splits
<1>2. CASE known # {}
  <2>1. PICK t \in known : Cfg2(k, n) = Of(t)
    BY <1>2 DEF Cfg2
  <2>2. t.split # 0
    BY <2>1 DEF Measured, Table2, Entry
  <2> QED
    BY <2>1, <2>2 DEF Of, NoCfg
<1>3. CASE known = {} /\ wide # {}
  <2> DEFINE s == CHOOSE s \in wide : \A r \in wide : s <= r
  <2>1. \E x \in wide : \A r \in wide : x <= r
    <3>1. CASE 8 \in wide
      BY <3>1
    <3>2. CASE 8 \notin wide /\ 16 \in wide
      BY <3>2
    <3>3. CASE 8 \notin wide /\ 16 \notin wide
      BY <3>3, <1>3
    <3> QED
      BY <3>1, <3>2, <3>3
  <2>2. s \in wide
    BY <2>1
  <2>3. Cfg2(k, n) = with(s)
    BY <1>3 DEF Cfg2
  <2> QED
    BY <2>2, <2>3 DEF NoCfg
<1>4. CASE known = {} /\ wide = {}
  <2>1. Cfg2(k, n) = IF Splits(k, 16) THEN with(16) ELSE IF Splits(k, 8) THEN with(8) ELSE NoCfg
    BY <1>4 DEF Cfg2
  <2> QED
    BY <2>1, <1>1 DEF NoCfg
<1> QED
  BY <1>2, <1>3, <1>4

LEMMA Cfg8Divides ==
    ASSUME NEW k \in Nat, NEW n \in Nat
    PROVE  Cfg8(k, n) \in Cfgs /\ Cfg8(k, n).split # 32
           /\ (k % 64 = 0 => Splits(k, Cfg8(k, n).split))
<1> DEFINE known == Measured(Table8, k, n)
           cfg   == IF known # {} THEN Of(CHOOSE t \in known : TRUE)
                    ELSE [split |-> 16, nacc |-> 2]
<1>1. cfg.split \in {8, 16} /\ cfg.nacc \in {1, 2} /\ cfg = [split |-> cfg.split, nacc |-> cfg.nacc]
  <2>1. CASE known # {}
    <3>1. PICK t \in known : cfg = Of(t)
      BY <2>1
    <3>2. t.split \in {8, 16} /\ t.nacc \in {1, 2}
      BY <3>1 DEF Measured, Table8, Entry
    <3> QED
      BY <3>1, <3>2 DEF Of
  <2>2. CASE known = {}
    BY <2>2
  <2> QED
    BY <2>1, <2>2
<1>2. k % 64 = 0 => Splits(k, 4)
  BY DEF Splits
<1>3. Cfg8(k, n) = IF Splits(k, cfg.split) THEN cfg
        ELSE IF Splits(k, 8) THEN [split |-> 8, nacc |-> 2] ELSE [split |-> 4, nacc |-> 1]
  BY DEF Cfg8
<1> HIDE DEF cfg
<1> QED
  BY <1>1, <1>2, <1>3 DEF Cfgs

\* Capping keeps what a kernel demands of the split, and brings it in range.
LEMMA CappedDivides ==
    ASSUME NEW k \in Nat, NEW cfg \in Cfgs, Splits(k, cfg.split), NEW mt \in {2, 4}
    PROVE  /\ Capped(cfg, mt).split \in (IF mt = 2 THEN {4, 8, 16} ELSE {4, 8})
           /\ Splits(k, Capped(cfg, mt).split)
           /\ Capped(cfg, mt).nacc = cfg.nacc
           /\ Capped(cfg, mt) \in Cfgs
<1>1. cfg.split = 32 => Splits(k, 16) /\ Splits(k, 8)
  BY DEF Splits
<1>2. cfg.split = 16 => Splits(k, 8)
  BY DEF Splits
<1>3. cfg = [split |-> cfg.split, nacc |-> cfg.nacc]
  BY DEF Cfgs
<1>4. cfg.split \in {4, 8, 16, 32} /\ cfg.nacc \in {1, 2}
  BY DEF Cfgs
<1>5. CASE mt = 2
  <2>1. Capped(cfg, mt) = [split |-> IF cfg.split > 16 THEN 16 ELSE cfg.split, nacc |-> cfg.nacc]
    BY <1>3, <1>5 DEF Capped
  <2> QED
    BY <2>1, <1>1, <1>4, <1>5 DEF Cfgs
<1>6. CASE mt = 4
  <2>1. Capped(cfg, mt) = [split |-> IF cfg.split > 8 THEN 8 ELSE cfg.split, nacc |-> cfg.nacc]
    BY <1>3, <1>6 DEF Capped
  <2> QED
    BY <2>1, <1>1, <1>2, <1>4, <1>6 DEF Cfgs
<1> QED
  BY <1>5, <1>6

LEMMA CappedKeepsFour ==
    ASSUME NEW cfg \in Cfgs, cfg.split # 4, NEW mt \in {2, 4}
    PROVE  Capped(cfg, mt).split # 4
BY DEF Capped, Cfgs

-----------------------------------------------------------------------------
(* Acceptance.                                                             *)

LEMMA PlainAccepted ==
    ASSUME NEW l, l.k \in Nat, l.n \in Nat, l.k % 64 = 0, l.n % 32 = 0, NEW m \in Nat, NEW copy
    PROVE  /\ m \in 1 .. 16 => Accepts(Plain("qpn", copy, m), l)
           /\ m \in 1 .. 3 => Accepts(Plain("qpn_simt", copy, m), l)
           /\ Accepts(Plain("none", copy, m), l)
           /\ Accepts(Plain("marlin", copy, m), l)
           /\ Accepts(Plain("dequant", copy, m), l)
           /\ Accepts(Plain("qpn8_dequant", copy, m), l)
           /\ m \in 17 .. 64 /\ l.k % 128 = 0 => Accepts(Plain("wmma", copy, m), l)
<1>1. l.k % 16 = 0 /\ Packable(l)
  BY DEF Packable
<1>2. ASSUME NEW kernel
      PROVE  Plain(kernel, copy, m).kernel = kernel /\ Plain(kernel, copy, m).m = m
  BY DEF Plain, Launch
<1>3. m \in 1 .. 16 => Accepts(Plain("qpn", copy, m), l)
  BY <1>1, <1>2 DEF Accepts
<1>4. m \in 1 .. 3 => Accepts(Plain("qpn_simt", copy, m), l)
  BY <1>1, <1>2 DEF Accepts
<1>5. /\ Accepts(Plain("none", copy, m), l)
      /\ Accepts(Plain("marlin", copy, m), l)
  BY <1>2 DEF Accepts
<1>6. /\ Accepts(Plain("dequant", copy, m), l)
      /\ Accepts(Plain("qpn8_dequant", copy, m), l)
  BY <1>1, <1>2 DEF Accepts
<1>7. m \in 17 .. 64 /\ l.k % 128 = 0 => Accepts(Plain("wmma", copy, m), l)
  BY <1>1, <1>2 DEF Accepts
<1> QED
  BY <1>3, <1>4, <1>5, <1>6, <1>7

LEMMA RouteAccepted ==
    ASSUME NEW l \in Layer, Packable(l), NEW m \in Nat \ {0}, NEW copies, "qpn" \in copies
    PROVE  Accepts(SkinnyRoute(l, m, copies), l)
<1> DEFINE cfg == Cfg2(l.k, l.n)
           route == SkinnyRoute(l, m, copies)
<1>1. l.k \in Nat /\ l.n \in Nat /\ l.k % 64 = 0 /\ l.n % 32 = 0 /\ m \in Nat /\ m >= 1
  BY DEF Layer, Packable
<1>2. cfg # NoCfg => /\ cfg \in Cfgs /\ cfg.split \in {8, 16, 32} /\ cfg.nacc \in {1, 2}
                     /\ Splits(l.k, cfg.split)
  BY <1>1, Cfg2Divides DEF Cfgs
<1>3. l.k % 128 = 0 => cfg # NoCfg
  BY <1>1, NoCfg2
<1> HIDE DEF cfg
<1>4. CASE m <= 8 /\ cfg # NoCfg
  <2>1. route = Launch("qpn2", "qpn", m, cfg, 1)
    BY <1>4 DEF SkinnyRoute, cfg
  <2> HIDE DEF route
  <2>2. route.kernel = "qpn2" /\ route.m = m /\ route.split = cfg.split /\ route.nacc = cfg.nacc
    BY <2>1 DEF Launch
  <2>3. Accepts(route, l)
    BY <2>2, <1>1, <1>2, <1>4 DEF Accepts
  <2> QED
    BY <2>3 DEF route
<1>5. CASE m \in 9 .. 32 /\ cfg # NoCfg
  <2> DEFINE mt == RowTiles(m)
             cap == Capped(cfg, mt)
  <2>1. mt \in {2, 4} /\ m \in 1 .. 8 * mt
    BY <1>5 DEF RowTiles
  <2>2. route = Launch("qpn2_mtt", "qpn", m, cap, mt)
    BY <1>5 DEF SkinnyRoute, cfg
  <2> HIDE DEF mt, cap, route
  <2>3. /\ route.kernel = "qpn2_mtt" /\ route.m = m /\ route.mt = mt
        /\ route.split = cap.split /\ route.nacc = cap.nacc
    BY <2>2 DEF Launch
  <2>4. /\ cap.split \in (IF mt = 2 THEN {4, 8, 16} ELSE {4, 8}) /\ Splits(l.k, cap.split)
        /\ cap.nacc = cfg.nacc /\ cap.split # 4
    BY <2>1, <1>1, <1>2, <1>5, CappedDivides, CappedKeepsFour DEF cap
  <2>5. Geometry(route, {8, 16} \X {1, 2}, {8} \X {1, 2})
    BY <2>1, <2>3, <2>4, <1>2, <1>5 DEF Geometry
  <2>6. Accepts(route, l)
    BY <2>1, <2>3, <2>4, <2>5 DEF Accepts
  <2> QED
    BY <2>6 DEF route
<1>6. CASE m > 32 \/ cfg = NoCfg
  <2>1. CASE m \in 4 .. 16
    <3>1. route = Plain("qpn", "qpn", m)
      BY <1>6, <2>1 DEF SkinnyRoute, cfg
    <3> QED
      BY <3>1, <2>1, <1>1, PlainAccepted
  <2>2. CASE m <= 3 /\ "ct" \notin copies
    <3>1. route = Plain("qpn_simt", "qpn", m)
      BY <1>1, <1>6, <2>2 DEF SkinnyRoute, cfg
    <3> QED
      BY <3>1, <2>2, <1>1, PlainAccepted
  <2>3. CASE (m <= 3 /\ "ct" \in copies) \/ m \in 17 .. 32
    <3>1. l.k % 128 # 0
      BY <1>1, <1>6, <2>3, <1>3
    <3>2. route = Plain("none", "ct", m)
      BY <1>1, <1>6, <2>3, <3>1 DEF SkinnyRoute, cfg
    <3> QED
      BY <3>2, <1>1, PlainAccepted
  <2>4. CASE m > 32
    <3>1. \/ route = Plain("wmma", "ct", m) /\ l.k % 128 = 0 /\ m <= 64
          \/ route = Plain("none", "ct", m)
      BY <1>1, <1>6, <2>4 DEF SkinnyRoute, cfg, SkinnyMaxM
    <3> QED
      BY <3>1, <2>4, <1>1, PlainAccepted
  <2> QED
    BY <1>1, <2>1, <2>2, <2>3, <2>4
<1> QED
  BY <1>1, <1>4, <1>5, <1>6

\* Whatever the shape, the number of rows, the verdict of the self-check and
\* whether a graph is being captured: _skinny_linear of a layer whose weights
\* were repacked launches only kernels that accept the call.
THEOREM RepackedFp4Accepted ==
    ASSUME NEW l \in Layer, Packable(l), NEW m \in Nat \ {0}, NEW copies, "qpn" \in copies,
           NEW passed, NEW capturing
    PROVE  Accepts(Fp4Launch(l, m, copies, passed, capturing), l)
<1> DEFINE route == SkinnyRoute(l, m, copies)
           a == Fp4Launch(l, m, copies, passed, capturing)
<1>1. Accepts(route, l)
  BY RouteAccepted
<1>2. \/ a = route
      \/ a = Plain("unpack_wmma", "qpn", m) /\ l.k % 256 = 0 /\ l.n % 64 = 0
      \/ a = Plain("dequant", "qpn", m)
      \/ a = Plain("marlin", "marlin", m)
  BY DEF Fp4Launch
<1> HIDE DEF route, a
<1>3. l.k % 64 = 0 /\ l.n % 32 = 0 /\ l.k \in Nat /\ l.n \in Nat /\ m \in Nat
  BY DEF Layer, Packable
<1>4. CASE a = Plain("unpack_wmma", "qpn", m) /\ l.k % 256 = 0 /\ l.n % 64 = 0
  <2>1. l.k % 128 = 0
    BY <1>3, <1>4
  <2>2. Accepts(Plain("unpack_wmma", "qpn", m), l)
    BY <2>1, <1>3, <1>4 DEF Plain, Launch, Accepts
  <2> QED
    BY <2>2, <1>4 DEF a
<1>5. Accepts(Plain("dequant", "qpn", m), l) /\ Accepts(Plain("marlin", "marlin", m), l)
  BY <1>3, PlainAccepted
<1>6. CASE a = route \/ a = Plain("dequant", "qpn", m) \/ a = Plain("marlin", "marlin", m)
  <2>1. Accepts(a, l)
    BY <1>1, <1>5, <1>6
  <2> QED
    BY <2>1 DEF a
<1> QED
  BY <1>2, <1>4, <1>6

\* Layers whose weights were not repacked are served from the published bytes
\* or by Marlin.  Python tests K against 128 where the WMMA kernel wants 256 at
\* up to 16 rows: no call is refused if K is a multiple of 256, or if the
\* weights were left as they are because they cannot be repacked.
THEOREM Fp4Accepted ==
    ASSUME NEW l \in Layer, l.k > 0, NEW m \in Nat \ {0}, NEW copies, NEW passed, NEW capturing,
           "qpn" \in copies => Packable(l),
           "qpn" \notin copies => ~Packable(l) \/ l.k % 256 = 0
    PROVE  Accepts(Fp4Launch(l, m, copies, passed, capturing), l)
<1> DEFINE route == SkinnyRoute(l, m, copies)
           a == Fp4Launch(l, m, copies, passed, capturing)
<1>1. CASE "qpn" \in copies
  BY <1>1, RepackedFp4Accepted
<1>2. CASE "qpn" \notin copies
  <2>1. l.k \in Nat /\ l.n \in Nat /\ m \in Nat /\ m >= 1
    BY DEF Layer
  <2>2. \A kernel, copy : /\ Plain(kernel, copy, m).kernel = kernel
                          /\ Plain(kernel, copy, m).m = m
    BY DEF Plain, Launch
  <2>3. \/ route = Plain("simt", "ct", m) /\ m <= 7 /\ l.k % 128 = 0 /\ l.n % 8 = 0
        \/ route = Plain("wmma", "ct", m) /\ m <= 64 /\ l.k % 128 = 0 /\ l.n % 64 = 0
        \/ route = Plain("none", "ct", m)
    BY <1>2 DEF SkinnyRoute, SkinnyMaxM
  <2>4. \/ a = route
        \/ a = Plain("marlin", "marlin", m)
    BY <1>2 DEF Fp4Launch
  <2> HIDE DEF route, a
  <2>5. CASE a = Plain("simt", "ct", m) /\ m <= 7 /\ l.k % 128 = 0 /\ l.n % 8 = 0
    <3>1. l.k >= 128
      BY <2>1, <2>5
    <3>2. Accepts(a, l)
      BY <2>1, <2>2, <2>5, <3>1 DEF Accepts
    <3> QED
      BY <3>2 DEF a
  <2>6. CASE a = Plain("wmma", "ct", m) /\ m <= 64 /\ l.k % 128 = 0 /\ l.n % 64 = 0
    <3>1. l.n % 32 = 0 /\ l.k % 64 = 0
      BY <2>1, <2>6
    <3>2. l.k % 256 = 0
      BY <1>2, <3>1 DEF Packable
    <3>3. Accepts(a, l)
      BY <2>1, <2>2, <2>6, <3>1, <3>2 DEF Accepts
    <3> QED
      BY <3>3 DEF a
  <2>7. CASE a = Plain("none", "ct", m) \/ a = Plain("marlin", "marlin", m)
    <3>1. Accepts(a, l)
      BY <2>2, <2>7 DEF Accepts
    <3> QED
      BY <3>1 DEF a
  <2> QED
    BY <2>3, <2>4, <2>5, <2>6, <2>7
<1> QED
  BY <1>1, <1>2

\* The same of the FP8 layers, repacked or left as published.
THEOREM Fp8Accepted ==
    ASSUME NEW l \in Layer, NEW m \in Nat \ {0}, NEW copies, copies = {"qpn8"} => Packable(l)
    PROVE  Accepts(Fp8Launch(l, m, copies), l)
<1> DEFINE cfg == Cfg8(l.k, l.n)
           fast(c) == [c EXCEPT !.nacc = IF @ >= 3 THEN @ ELSE @ + 2]
           a == Fp8Launch(l, m, copies)
<1>1. CASE copies # {"qpn8"}
  <2>1. a = Plain("reference", "raw", m)
    BY <1>1 DEF Fp8Launch
  <2> QED
    BY <2>1 DEF Plain, Launch, Accepts
<1>2. CASE copies = {"qpn8"}
  <2>1. l.k \in Nat /\ l.n \in Nat /\ l.k % 64 = 0 /\ l.n % 32 = 0 /\ Packable(l)
    BY <1>2 DEF Layer, Packable
  <2>2. cfg \in Cfgs /\ cfg.split # 32 /\ Splits(l.k, cfg.split)
    BY <2>1, Cfg8Divides
  <2>3. cfg.split \in {4, 8, 16, 32} /\ cfg.nacc \in {1, 2}
    BY <2>2 DEF Cfgs
  <2>4. CASE m <= 8
    <3>1. a = Launch("qpn8", "qpn8", m, cfg, 1)
      BY <1>2, <2>4 DEF Fp8Launch
    <3> HIDE DEF cfg
    <3> QED
      BY <3>1, <2>1, <2>2, <2>3, <2>4 DEF Launch, Accepts
  <2>5. CASE m \in 9 .. 32
    <3> DEFINE mt == RowTiles(m)
               cap == Capped(cfg, mt)
    <3>1. mt \in {2, 4} /\ m \in 1 .. 8 * mt
      BY <2>5 DEF RowTiles
    <3>2. a = Launch("qpn8_mtt", "qpn8", m, fast(cap), mt)
      BY <1>2, <2>5 DEF Fp8Launch
    <3>3. /\ cap.split \in (IF mt = 2 THEN {4, 8, 16} ELSE {4, 8}) /\ Splits(l.k, cap.split)
          /\ cap.nacc = cfg.nacc /\ cap \in Cfgs
      BY <3>1, <2>1, <2>2, CappedDivides
    <3> HIDE DEF mt, cap, cfg
    <3>4. fast(cap).split = cap.split /\ fast(cap).nacc = cap.nacc + 2
      BY <3>3, <2>3 DEF Cfgs
    <3> HIDE DEF fast
    <3>5. /\ a.kernel = "qpn8_mtt" /\ a.m = m /\ a.mt = mt /\ a.split = cap.split
          /\ a.nacc = cap.nacc + 2
      BY <3>2, <3>4 DEF Launch
    <3> HIDE DEF a
    <3>6. a.nacc \in {3, 4}
      BY <3>5, <3>3, <2>3
    <3>7. Geometry(a, {4, 8, 16} \X {3, 4}, {4, 8} \X {3, 4})
      BY <3>1, <3>3, <3>5, <3>6 DEF Geometry
    <3> QED
      BY <3>1, <3>3, <3>5, <3>7, <2>1 DEF Accepts, a
  <2>6. CASE m \in 33 .. ChunkMax
    <3>1. a = Launch("qpn8", "qpn8", 8, cfg, 1)
      BY <1>2, <2>6 DEF Fp8Launch, ChunkMax
    <3> HIDE DEF cfg
    <3> QED
      BY <3>1, <2>1, <2>2, <2>3, <2>6 DEF Launch, Accepts
  <2>7. CASE m > ChunkMax
    <3>1. a = Plain("qpn8_dequant", "qpn8", m)
      BY <1>2, <2>7 DEF Fp8Launch, ChunkMax
    <3> QED
      BY <3>1, <2>1, PlainAccepted
  <2> QED
    BY <2>4, <2>5, <2>6, <2>7 DEF ChunkMax
<1> QED
  BY <1>1, <1>2

-----------------------------------------------------------------------------
(* The order of additions.                                                 *)

\* The configuration a layer's kernels of kind SplitK have with mt row tiles.
Own(l) == IF l.kind = "fp8" THEN Cfg8(l.k, l.n) ELSE Cfg2(l.k, l.n)
Tiled(l, mt) == IF mt = 1 THEN Own(l) ELSE Capped(Own(l), mt)

\* A launch adds up in the layer's own order, capped for its row tiles.
Configured(a, l) ==
    a.kernel \in SplitK =>
        a.mt \in {1, 2, 4} /\ Order(a) = <<Tiled(l, a.mt).split, Tiled(l, a.mt).nacc>>

LEMMA TiledConfigured ==
    ASSUME NEW l, NEW mt \in {1, 2, 4}, Tiled(l, mt) \in Cfgs, NEW kernel, NEW copy, NEW m
    PROVE  /\ Configured(Launch(kernel, copy, m, Tiled(l, mt), mt), l)
           /\ Configured(Launch(kernel, copy, m, [Tiled(l, mt) EXCEPT !.nacc = @ + 2], mt), l)
<1> DEFINE cfg == Tiled(l, mt)
           a == Launch(kernel, copy, m, cfg, mt)
           b == Launch(kernel, copy, m, [cfg EXCEPT !.nacc = @ + 2], mt)
<1>1. cfg \in Cfgs
  OBVIOUS
<1> HIDE DEF cfg
<1>2. a.mt = mt /\ b.mt = mt
  BY DEF Launch
<1>3. Order(a) = <<cfg.split, cfg.nacc>> /\ Order(b) = <<cfg.split, cfg.nacc>>
  BY <1>1 DEF Order, Launch, Cfgs
<1> HIDE DEF a, b
<1>4. Configured(a, l) /\ Configured(b, l)
  BY <1>2, <1>3 DEF Configured, cfg
<1> QED
  BY <1>4 DEF a, b, cfg

LEMMA LaunchConfigured ==
    ASSUME NEW l \in Layer, NEW m \in Nat \ {0}, NEW copies, copies = {"qpn8"} => Packable(l),
           NEW passed, NEW capturing
    PROVE  Configured(LayerLaunch(l, m, copies, passed, capturing), l)
<1>1. CASE l.kind # "fp8"
  <2> DEFINE cfg == Cfg2(l.k, l.n)
             route == SkinnyRoute(l, m, copies)
             a == Fp4Launch(l, m, copies, passed, capturing)
  <2>1. \/ a = route
        \/ \E kernel \in {"unpack_wmma", "dequant", "marlin"}, copy \in {"qpn", "marlin"} :
              a = Plain(kernel, copy, m)
    BY DEF Fp4Launch
  <2>2. \/ route = Launch("qpn2", "qpn", m, cfg, 1) /\ cfg # NoCfg
        \/ /\ route = Launch("qpn2_mtt", "qpn", m, Capped(cfg, RowTiles(m)), RowTiles(m))
           /\ cfg # NoCfg
        \/ \E kernel \in {"qpn", "qpn_simt", "simt", "wmma", "none"}, copy \in {"qpn", "ct"} :
              route = Plain(kernel, copy, m)
    BY DEF SkinnyRoute
  <2>3. cfg # NoCfg => cfg \in Cfgs /\ Splits(l.k, cfg.split)
    BY Cfg2Divides DEF Layer
  <2>4. RowTiles(m) \in {2, 4}
    BY DEF RowTiles
  <2>5. cfg # NoCfg => Capped(cfg, RowTiles(m)) \in Cfgs
    BY <2>3, <2>4, CappedDivides DEF Layer
  <2>6. Own(l) = cfg
    BY <1>1 DEF Own
  <2>7. \A kernel, copy : Plain(kernel, copy, m).kernel = kernel
    BY DEF Plain, Launch
  <2>8. LayerLaunch(l, m, copies, passed, capturing) = a
    BY <1>1 DEF LayerLaunch
  <2> HIDE DEF cfg, route, a
  <2>9. CASE a = Launch("qpn2", "qpn", m, cfg, 1) /\ cfg # NoCfg
    <3>1. Tiled(l, 1) = cfg
      BY <2>6 DEF Tiled
    <3>2. Configured(Launch("qpn2", "qpn", m, cfg, 1), l)
      BY <2>3, <2>9, <3>1, TiledConfigured
    <3> QED
      BY <2>8, <2>9, <3>2
  <2>10. CASE a = Launch("qpn2_mtt", "qpn", m, Capped(cfg, RowTiles(m)), RowTiles(m)) /\ cfg # NoCfg
    <3>1. Tiled(l, RowTiles(m)) = Capped(cfg, RowTiles(m))
      BY <2>4, <2>6 DEF Tiled
    <3>2. Configured(Launch("qpn2_mtt", "qpn", m, Capped(cfg, RowTiles(m)), RowTiles(m)), l)
      BY <2>4, <2>5, <2>10, <3>1, TiledConfigured
    <3> QED
      BY <2>8, <2>10, <3>2
  <2>11. CASE \E kernel, copy : a = Plain(kernel, copy, m) /\ kernel \notin SplitK
    BY <2>7, <2>8, <2>11 DEF Configured
  <2> QED
    BY <2>1, <2>2, <2>9, <2>10, <2>11 DEF SplitK
<1>2. CASE l.kind = "fp8"
  <2> DEFINE cfg == Cfg8(l.k, l.n)
             cap == Capped(cfg, RowTiles(m))
             a == Fp8Launch(l, m, copies)
  <2>1. LayerLaunch(l, m, copies, passed, capturing) = a /\ Own(l) = cfg
    BY <1>2 DEF LayerLaunch, Own
  <2>2. CASE copies # {"qpn8"} \/ m > ChunkMax
    <3>1. a = Plain("reference", "raw", m) \/ a = Plain("qpn8_dequant", "qpn8", m)
      BY <2>2 DEF Fp8Launch, ChunkMax
    <3>2. a.kernel \notin SplitK
      BY <3>1 DEF Plain, Launch, SplitK
    <3> QED
      BY <2>1, <3>2 DEF Configured
  <2>3. CASE copies = {"qpn8"} /\ m <= ChunkMax
    <3>1. cfg \in Cfgs /\ Splits(l.k, cfg.split)
      BY <2>3, Cfg8Divides DEF Layer, Packable
    <3>2. RowTiles(m) \in {2, 4}
      BY DEF RowTiles
    <3>3. cap \in Cfgs
      BY <3>1, <3>2, CappedDivides DEF Layer
    <3>4. [cap EXCEPT !.nacc = IF @ >= 3 THEN @ ELSE @ + 2] = [cap EXCEPT !.nacc = @ + 2]
      <4> HIDE DEF cap
      <4> QED
        BY <3>3 DEF Cfgs
    <3>5. \/ \E rows : a = Launch("qpn8", "qpn8", rows, cfg, 1)
          \/ a = Launch("qpn8_mtt", "qpn8", m, [cap EXCEPT !.nacc = @ + 2], RowTiles(m))
      BY <2>3, <3>4 DEF Fp8Launch
    <3> HIDE DEF a, cfg
    <3>6. CASE \E rows : a = Launch("qpn8", "qpn8", rows, cfg, 1)
      <4>1. Tiled(l, 1) = cfg
        BY <2>1 DEF Tiled
      <4>2. \A rows : Configured(Launch("qpn8", "qpn8", rows, cfg, 1), l)
        BY <3>1, <4>1, TiledConfigured
      <4> QED
        BY <2>1, <3>6, <4>2
    <3> HIDE DEF cap
    <3>7. CASE a = Launch("qpn8_mtt", "qpn8", m, [cap EXCEPT !.nacc = @ + 2], RowTiles(m))
      <4>1. Tiled(l, RowTiles(m)) = cap
        BY <2>1, <3>2 DEF Tiled, cap
      <4> QED
        BY <2>1, <3>2, <3>3, <3>7, <4>1, TiledConfigured
    <3> QED
      BY <3>5, <3>6, <3>7
  <2> QED
    BY <2>2, <2>3 DEF ChunkMax
<1> QED
  BY <1>1, <1>2

LEMMA OwnSplit ==
    ASSUME NEW l \in Layer
    PROVE  /\ Own(l) = [split |-> Own(l).split, nacc |-> Own(l).nacc]
           /\ Own(l).split \in {0, 4, 8, 16, 32}
<1>1. l.k \in Nat /\ l.n \in Nat
  BY DEF Layer
<1>2. CASE l.kind # "fp8"
  <2>1. Own(l) \in Cfgs \/ Own(l) = NoCfg
    BY <1>1, <1>2, Cfg2Divides DEF Own
  <2> HIDE DEF Own
  <2> QED
    BY <2>1 DEF Cfgs, NoCfg
<1>3. CASE l.kind = "fp8"
  <2>1. Own(l) \in Cfgs
    BY <1>1, <1>3, Cfg8Divides DEF Own
  <2> QED
    BY <2>1 DEF Cfgs
<1> QED
  BY <1>2, <1>3

\* Two launches of one layer add a row's products up in the same order, unless
\* one is capped below the split of the other: whatever the shape and the
\* numbers of rows.
THEOREM SameOrder ==
    ASSUME NEW l \in Layer, NEW a, NEW b, Configured(a, l), Configured(b, l),
           a.kernel \in SplitK, b.kernel \in SplitK, a.mt <= b.mt
    PROVE  \/ Order(a) = Order(b)
           \/ b.mt = 2 /\ a.split > 16 /\ b.split = 16
           \/ b.mt = 4 /\ a.split > 8 /\ b.split = 8
<1> DEFINE s == Own(l).split
<1>1. /\ a.mt \in {1, 2, 4} /\ Order(a) = <<Tiled(l, a.mt).split, Tiled(l, a.mt).nacc>>
      /\ b.mt \in {1, 2, 4} /\ Order(b) = <<Tiled(l, b.mt).split, Tiled(l, b.mt).nacc>>
  BY DEF Configured
<1>2. a.split = Tiled(l, a.mt).split /\ b.split = Tiled(l, b.mt).split
  BY <1>1 DEF Order
<1>3. s \in {0, 4, 8, 16, 32}
  BY OwnSplit
<1>4. /\ Tiled(l, 1) = [split |-> s, nacc |-> Own(l).nacc]
      /\ Tiled(l, 2) = [split |-> IF s > 16 THEN 16 ELSE s, nacc |-> Own(l).nacc]
      /\ Tiled(l, 4) = [split |-> IF s > 8 THEN 8 ELSE s, nacc |-> Own(l).nacc]
  BY OwnSplit DEF Tiled, Capped
<1> HIDE DEF s
<1>5. CASE a.mt = b.mt
  BY <1>1, <1>5
<1>6. CASE a.mt = 1 /\ b.mt = 2
  BY <1>1, <1>2, <1>3, <1>4, <1>6
<1>7. CASE a.mt \in {1, 2} /\ b.mt = 4
  BY <1>1, <1>2, <1>3, <1>4, <1>7
<1> QED
  BY <1>1, <1>5, <1>6, <1>7

-----------------------------------------------------------------------------
(* The graphs.                                                             *)

Descriptors == Piecewise \union Full

\* The shapes are such, or repacking is on: what the Python side leaves
\* untested is one shape at 8 to 16 rows of a layer that could be repacked.
ShapesFit ==
    \A i \in Layers : /\ Model[i].k > 0
                      /\ (Model[i].k % 256 = 0 \/ \A e \in Boots : e.qpn)

Types ==
    /\ env \in Boots /\ ok \in BOOLEAN
    /\ todo \subseteq Descriptors
    /\ pc # "serve" => round = Nobody \/ round.how \in Descriptors

\* What a layer holds, once it is loaded, stays.
Loaded ==
    IF pc = "load" THEN graphs = <<>>
    ELSE \A i \in Layers : \/ held[i] = {"raw"} /\ Model[i].kind = "fp8"
                           \/ held[i] = CopiesOf(Model[i], env)

GraphsConfigured ==
    \A d \in DOMAIN graphs : \A i \in Layers : Configured(graphs[d].lin[i], Model[i])

GInv == Types /\ Loaded /\ GraphsConfigured /\ (ShapesFit => GraphsSound)

-----------------------------------------------------------------------------
LEMMA ModelLayers == Layers = 1 .. Len(Model) /\ \A i \in Layers : Model[i] \in Layer
<1>1. Model \in Seq(Layer)
  BY GraphReplayAssumption DEF Layer
<1>2. ASSUME NEW S, NEW s \in Seq(S)
      PROVE  DOMAIN s = 1 .. Len(s) /\ \A i \in DOMAIN s : s[i] \in S
  OBVIOUS
<1> QED
  BY <1>1, <1>2 DEF Layers

\* The copy a launch reads is one the loader left, or its fallback was never
\* built and the self-check has spoken.
LEMMA CopyPresent ==
    ASSUME NEW l \in Layer, NEW e, NEW copies, NEW m, NEW o, NEW capturing,
           (copies = {"raw"} /\ l.kind = "fp8") \/ copies = CopiesOf(l, e)
    PROVE  LayerLaunch(l, m, copies, o, capturing).copy \in copies \/ (e.unify /\ ~o)
<1>1. CASE l.kind = "fp8"
  <2>1. copies = {"raw"} \/ copies = {"qpn8"}
    BY <1>1 DEF CopiesOf
  <2>2. Fp8Launch(l, m, copies).copy = IF copies = {"qpn8"} THEN "qpn8" ELSE "raw"
    BY DEF Fp8Launch, Plain, Launch
  <2> QED
    BY <1>1, <2>1, <2>2 DEF LayerLaunch
<1>2. CASE l.kind # "fp8"
  <2> DEFINE a == Fp4Launch(l, m, copies, o, capturing)
             route == SkinnyRoute(l, m, copies)
  <2>1. copies = CopiesOf(l, e)
    BY <1>2
  <2>2. "marlin" \in copies \/ (e.unify /\ "qpn" \in copies)
    BY <1>2, <2>1 DEF CopiesOf
  <2>3. \A kernel, copy : /\ Plain(kernel, copy, m).copy = copy
                          /\ Plain(kernel, copy, m).kernel = kernel
    BY DEF Plain, Launch
  <2>4. route.kernel = "none" \/ route.copy \in copies
    BY DEF SkinnyRoute, Launch, Plain
  <2>5. \/ a = route /\ route.kernel # "none"
        \/ \E kernel : a = Plain(kernel, "qpn", m) /\ "qpn" \in copies
        \/ a = Plain("marlin", "marlin", m) /\ ("marlin" \in copies \/ ~o)
    BY <2>2 DEF Fp4Launch
  <2>6. LayerLaunch(l, m, copies, o, capturing) = a
    BY <1>2 DEF LayerLaunch
  <2> HIDE DEF a, route
  <2> QED
    BY <2>2, <2>3, <2>4, <2>5, <2>6
<1> QED
  BY <1>1, <1>2

LEMMA InitInv == Init => GInv
<1> SUFFICES ASSUME Init PROVE GInv
  OBVIOUS
<1>1. Types
  BY DEF Init, Types
<1>2. DOMAIN graphs = {}
  BY DEF Init
<1> QED
  BY <1>1, <1>2 DEF GInv, Loaded, GraphsConfigured, GraphsSound, Init

\* A step that leaves the graphs, the weights and the switches alone, and can
\* only turn the verdict down.
LEMMA Kept ==
    ASSUME GInv, env' = env, held' = held, graphs' = graphs, ok' => ok, ok' \in BOOLEAN,
           pc # "load", pc' # "load", Types'
    PROVE  GInv'
<1>1. Loaded'
  BY DEF GInv, Loaded
<1>2. GraphsConfigured'
  BY DEF GInv, GraphsConfigured
<1>3. ShapesFit => GraphsSound'
  BY DEF GInv, GraphsSound, Sound
<1> QED
  BY <1>1, <1>2, <1>3 DEF GInv, ShapesFit, Layers

\* One pass over the layers: what it launches, and what becomes of the verdict.
LEMMA ForwardLaunches ==
    ASSUME NEW m, NEW capturing \in BOOLEAN, ok \in BOOLEAN, Forward(m, capturing)
    PROVE  /\ ok' \in BOOLEAN /\ (ok' => ok)
           /\ \E o \in [Layers -> BOOLEAN] :
                /\ lin' = [i \in Layers |-> LayerLaunch(Model[i], m, held[i], o[i], capturing)]
                /\ \A i \in Layers : (~o[i] => ~ok') /\ (o[i] => ok)
<1>1. PICK fails : /\ lin' = [i \in Layers |->
                                LayerLaunch(Model[i], m, held[i], ok /\ (fails = 0 \/ i <= fails),
                                            capturing)]
                   /\ ok' = (ok /\ fails = 0)
  BY DEF Forward
<1>2. ok' \in BOOLEAN /\ (ok' => ok)
  BY <1>1
<1> DEFINE o == [i \in Layers |-> ok /\ (fails = 0 \/ i <= fails)]
<1>3. o \in [Layers -> BOOLEAN] /\ \A i \in Layers : (~o[i] => ~ok') /\ (o[i] => ok)
  BY <1>1
<1>4. lin' = [i \in Layers |-> LayerLaunch(Model[i], m, held[i], o[i], capturing)]
  BY <1>1
<1> QED
  BY <1>2, <1>3, <1>4

LEMMA DescriptorRows ==
    ASSUME NEW d \in Descriptors
    PROVE  d.n \in Nat \ {0}
BY GraphReplayAssumption DEF Descriptors, Piecewise, Full

\* One pass over the layers launches nothing unsound.
LEMMA ForwardSound ==
    ASSUME ShapesFit, GInv, pc # "load", NEW m \in Nat \ {0}, NEW capturing \in BOOLEAN,
           Forward(m, capturing), env' = env, held' = held
    PROVE  \A i \in Layers : Sound(lin[i], i)'
<1>1. /\ ok \in BOOLEAN /\ env \in Boots
      /\ \A i \in Layers : \/ held[i] = {"raw"} /\ Model[i].kind = "fp8"
                           \/ held[i] = CopiesOf(Model[i], env)
  BY DEF GInv, Types, Loaded
<1>2. PICK o \in [Layers -> BOOLEAN] :
        /\ lin' = [i \in Layers |-> LayerLaunch(Model[i], m, held[i], o[i], capturing)]
        /\ \A i \in Layers : ~o[i] => ~ok'
  BY <1>1, ForwardLaunches
<1> TAKE i \in Layers
<1>3. Model[i] \in Layer /\ Model[i].k > 0 /\ (held[i] = {"qpn8"} => Packable(Model[i]))
  <2>1. Model[i] \in Layer /\ Model[i].k > 0
    <3>1. Model[i] \in Layer
      BY ModelLayers
    <3>2. Model[i].k > 0
      BY DEF ShapesFit
    <3> QED
      BY <3>1, <3>2
  <2>2. ASSUME held[i] = {"qpn8"} PROVE Packable(Model[i])
    BY <1>1, <2>2 DEF CopiesOf
  <2> QED
    BY <2>1, <2>2
<1>4. Accepts(LayerLaunch(Model[i], m, held[i], o[i], capturing), Model[i])
  <2>1. CASE Model[i].kind = "fp8"
    BY <1>3, <2>1, Fp8Accepted DEF LayerLaunch
  <2>2. CASE Model[i].kind # "fp8"
    <3>1. held[i] = CopiesOf(Model[i], env)
      BY <1>1, <2>2
    <3>2. /\ "qpn" \in held[i] => Packable(Model[i])
          /\ "qpn" \notin held[i] => ~Packable(Model[i]) \/ ~env.qpn
      BY <2>2, <3>1 DEF CopiesOf
    <3>3. "qpn" \notin held[i] => ~Packable(Model[i]) \/ Model[i].k % 256 = 0
      BY <1>1, <3>2 DEF ShapesFit
    <3>4. Accepts(Fp4Launch(Model[i], m, held[i], o[i], capturing), Model[i])
      BY <1>3, <3>2, <3>3, Fp4Accepted
    <3> QED
      BY <2>2, <3>4 DEF LayerLaunch
  <2> QED
    BY <2>1, <2>2
<1>5. \/ LayerLaunch(Model[i], m, held[i], o[i], capturing).copy \in held[i]
      \/ env.unify /\ ~o[i]
  BY <1>1, <1>3, CopyPresent
<1> QED
  BY <1>2, <1>4, <1>5 DEF Sound

\* What is recorded is sound and in order.
LEMMA CaptureInv ==
    ASSUME GInv, Capture
    PROVE  GInv'
<1> DEFINE d == round.how
<1>1. /\ pc \in {"estimate", "capture"} /\ round # Nobody /\ Forward(d.n, TRUE)
      /\ graphs' = [x \in DOMAIN graphs \union {d} |->
                      IF x \in DOMAIN graphs THEN graphs[x] ELSE [lin |-> lin', attn |-> Bound(d)]]
      /\ todo' \subseteq todo /\ round' = Nobody /\ env' = env /\ pc' = pc /\ held' = held
  BY DEF Capture, weights
<1>2. d \in Descriptors /\ d.n \in Nat \ {0} /\ Descriptors' = Descriptors
  BY <1>1, DescriptorRows DEF GInv, Types, Descriptors, Full, Piecewise, QueryLen
<1>3. /\ ok \in BOOLEAN /\ env \in Boots
      /\ \A i \in Layers : \/ held[i] = {"raw"} /\ Model[i].kind = "fp8"
                           \/ held[i] = CopiesOf(Model[i], env)
  BY <1>1 DEF GInv, Types, Loaded
<1>4. PICK o \in [Layers -> BOOLEAN] :
        /\ lin' = [i \in Layers |-> LayerLaunch(Model[i], d.n, held[i], o[i], TRUE)]
        /\ \A i \in Layers : ~o[i] => ~ok'
  BY <1>1, <1>3, ForwardLaunches
<1>5. ok' \in BOOLEAN /\ (ok' => ok)
  BY <1>1, <1>3, ForwardLaunches
<1>6. ASSUME NEW e \in DOMAIN graphs', NEW i \in Layers
      PROVE  \/ e \in DOMAIN graphs /\ graphs'[e].lin[i] = graphs[e].lin[i]
             \/ graphs'[e].lin[i] = LayerLaunch(Model[i], d.n, held[i], o[i], TRUE)
  <2>1. graphs' = [x \in DOMAIN graphs \union {d} |->
                    IF x \in DOMAIN graphs THEN graphs[x] ELSE [lin |-> lin', attn |-> Bound(d)]]
    BY <1>1
  <2>2. CASE e \in DOMAIN graphs
    BY <2>1, <2>2
  <2>3. CASE e \notin DOMAIN graphs
    <3>1. graphs'[e].lin = lin'
      BY <1>6, <2>1, <2>3
    <3> QED
      BY <3>1, <1>4
  <2> QED
    BY <2>2, <2>3
<1>7. ASSUME NEW i \in Layers
      PROVE  /\ Model[i] \in Layer
             /\ held[i] = {"qpn8"} => Packable(Model[i])
  <2>1. Model[i] \in Layer
    BY ModelLayers
  <2> QED
    BY <1>3, <2>1 DEF CopiesOf, ShapesFit, Layer
<1>8. ASSUME NEW i \in Layers
      PROVE  Configured(LayerLaunch(Model[i], d.n, held[i], o[i], TRUE), Model[i])
  BY <1>2, <1>7, LaunchConfigured
<1>9. ShapesFit => \A i \in Layers : Sound(lin[i], i)'
  BY <1>1, <1>2, ForwardSound
<1>11. Types'
  BY <1>1, <1>2, <1>3, <1>5 DEF Types, GInv
<1>12. Loaded'
  BY <1>1, <1>3 DEF Loaded
<1>13. GraphsConfigured'
  BY <1>6, <1>8 DEF GraphsConfigured, GInv, Layers
<1>14. ShapesFit' => GraphsSound'
  <2> SUFFICES ASSUME ShapesFit, NEW e \in DOMAIN graphs', NEW i \in Layers
               PROVE  Sound(graphs[e].lin[i], i)'
    BY DEF GraphsSound, ShapesFit, Layers
  <2>1. CASE e \in DOMAIN graphs /\ graphs'[e].lin[i] = graphs[e].lin[i]
    BY <1>1, <1>5, <2>1 DEF GInv, GraphsSound, Sound
  <2>2. CASE graphs'[e].lin[i] = LayerLaunch(Model[i], d.n, held[i], o[i], TRUE)
    BY <1>4, <1>9, <2>2 DEF Sound
  <2> QED
    BY <1>6, <2>1, <2>2
<1> QED
  BY <1>11, <1>12, <1>13, <1>14 DEF GInv

LEMMA StepInv == GInv /\ [Next]_vars => GInv'
<1> SUFFICES ASSUME GInv, [Next]_vars PROVE GInv'
  OBVIOUS
<1> USE DEF weights, verdict, builder
<1>1. env' = env
  BY DEF Next, vars, Load, Profile, Warm, Capture, EndEstimate, Pool, Ready, Serve
<1>2. Descriptors' = Descriptors
  BY <1>1 DEF Descriptors, Piecewise, Full, QueryLen
<1>3. CASE Load
  <2>1. Types'
    BY <1>1, <1>2, <1>3 DEF Load, Types, GInv
  <2>2. pc = "load" /\ pc' = "profile" /\ graphs' = graphs
    BY <1>3 DEF Load
  <2>3. graphs' = <<>>
    BY <2>2 DEF GInv, Loaded
  <2>4. \A i \in Layers : \/ held'[i] = {"raw"} /\ Model[i].kind = "fp8"
                          \/ held'[i] = CopiesOf(Model[i], env)
    BY <1>3 DEF Load
  <2>5. Loaded'
    BY <1>1, <2>2, <2>4 DEF Loaded, Layers
  <2> QED
    BY <2>1, <2>3, <2>5 DEF GInv, GraphsConfigured, GraphsSound
<1>4. CASE Profile
  <2>1. ok' \in BOOLEAN /\ (ok' => ok)
    BY <1>4, ForwardLaunches DEF Profile, GInv, Types
  <2>2. Types'
    BY <1>1, <1>2, <1>4, <2>1 DEF Profile, Types, GInv, Descriptors
  <2>3. pc = "profile" /\ pc' # "load" /\ held' = held /\ graphs' = graphs
    BY <1>4 DEF Profile
  <2> QED
    BY <1>1, <2>1, <2>2, <2>3, Kept
<1>5. CASE Warm
  <2>1. ok' \in BOOLEAN /\ (ok' => ok)
    BY <1>5, ForwardLaunches DEF Warm, GInv, Types
  <2>2. Types'
    BY <1>1, <1>2, <1>5, <2>1 DEF Warm, Types, GInv
  <2>3. pc # "load" /\ pc' # "load" /\ held' = held /\ graphs' = graphs
    BY <1>5 DEF Warm
  <2> QED
    BY <1>1, <2>1, <2>2, <2>3, Kept
<1>6. CASE Capture
  BY <1>6, CaptureInv
<1>7. CASE EndEstimate
  <2>1. Types'
    BY <1>1, <1>2, <1>7 DEF EndEstimate, Types, GInv
  <2>2. pc = "estimate" /\ pc' = "pool" /\ held' = held /\ graphs' = <<>>
    BY <1>7 DEF EndEstimate, ClearGraphs
  <2>3. Loaded'
    BY <1>1, <2>2 DEF GInv, Loaded, Layers
  <2> QED
    BY <2>1, <2>2, <2>3 DEF GInv, GraphsConfigured, GraphsSound
<1>8. CASE Pool
  <2>1. Types'
    BY <1>1, <1>2, <1>8 DEF Pool, Types, GInv, Descriptors
  <2>2. pc = "pool" /\ pc' = "capture" /\ held' = held /\ graphs' = graphs /\ ok' = ok
    BY <1>8 DEF Pool
  <2> QED
    BY <1>1, <2>1, <2>2, Kept DEF Types
<1>9. CASE Ready
  <2>1. Types'
    BY <1>1, <1>2, <1>9 DEF Ready, Types, GInv
  <2>2. pc = "capture" /\ pc' = "serve" /\ held' = held /\ graphs' = graphs /\ ok' = ok
    BY <1>9 DEF Ready
  <2> QED
    BY <1>1, <2>1, <2>2, Kept DEF Types
<1>10. CASE Serve
  <2>1. pc = "serve" /\ pc' = "serve" /\ held' = held /\ graphs' = graphs /\ todo' = todo
    BY <1>10 DEF Serve
  <2>2. ok' = ok \/ \E m : Forward(m, FALSE)
    BY <1>10 DEF Serve
  <2>3. ok' \in BOOLEAN /\ (ok' => ok)
    <3>1. CASE ok' = ok
      BY <3>1 DEF GInv, Types
    <3>2. CASE \E m : Forward(m, FALSE)
      <4>1. PICK m : Forward(m, FALSE)
        BY <3>2
      <4>2. ok \in BOOLEAN /\ FALSE \in BOOLEAN
        BY DEF GInv, Types
      <4> QED
        BY <4>1, <4>2, ForwardLaunches
    <3> QED
      BY <2>2, <3>1, <3>2
  <2>4. Types'
    BY <1>1, <1>2, <2>1, <2>3 DEF Types, GInv
  <2> QED
    BY <1>1, <2>1, <2>3, <2>4, Kept
<1>11. CASE UNCHANGED vars
  <2>1. Types'
    BY <1>2, <1>11 DEF vars, Types, GInv, Nobody, Eager
  <2>2. Loaded' /\ GraphsConfigured'
    BY <1>11 DEF vars, GInv, Loaded, GraphsConfigured
  <2>3. ShapesFit => GraphsSound'
    BY <1>11 DEF vars, GInv, GraphsSound, Sound
  <2> QED
    BY <2>1, <2>2, <2>3 DEF GInv, ShapesFit, Layers
<1> QED
  BY <1>3, <1>4, <1>5, <1>6, <1>7, <1>8, <1>9, <1>10, <1>11 DEF Next

LEMMA Invariant == Spec => []GInv
BY InitInv, StepInv, PTL DEF Spec

-----------------------------------------------------------------------------
\* Graphs of different sizes add a row's products up in the same order, unless
\* the larger one caps the split: for every model and every set of sizes, not
\* only the layers of the run.
THEOREM RowOrderHolds == Spec => []RowsAgree
<1>1. ASSUME GInv PROVE RowsAgree
  <2> SUFFICES ASSUME NEW d \in DOMAIN graphs, NEW e \in DOMAIN graphs, NEW i \in Layers,
                      graphs[d].lin[i].kernel \in SplitK, graphs[e].lin[i].kernel \in SplitK,
                      graphs[d].lin[i].mt <= graphs[e].lin[i].mt
               PROVE  LET a == graphs[d].lin[i]
                          b == graphs[e].lin[i]
                      IN  \/ Order(a) = Order(b)
                          \/ b.mt = 2 /\ a.split > 16 /\ b.split = 16
                          \/ b.mt = 4 /\ a.split > 8 /\ b.split = 8
    BY DEF RowsAgree
  <2>1. Model[i] \in Layer
    BY ModelLayers
  <2>2. Configured(graphs[d].lin[i], Model[i]) /\ Configured(graphs[e].lin[i], Model[i])
    BY <1>1 DEF GInv, GraphsConfigured
  <2> QED
    BY <2>1, <2>2, SameOrder
<1> QED
  BY <1>1, Invariant, PTL

\* Where K is a multiple of 256, or repacking is on, no graph holds a
\* launch its kernel refuses, nor one that reads a copy the loader dropped
\* (until the self-check refutes the kernels of a unified boot).
THEOREM RecordedLaunchesSound ==
    ASSUME ShapesFit PROVE Spec => []GraphsSound
<1>1. ASSUME GInv PROVE GraphsSound
  BY <1>1 DEF GInv
<1> QED
  BY <1>1, Invariant, PTL

-----------------------------------------------------------------------------
(* The logits head.                                                        *)

\* A profile run of at most 8 rows wants every copy that any later run wants.
LEMMA WantsLess ==
    ASSUME NEW m, ProfileRows <= 8
    PROVE  Wants(m) \subseteq Wants(ProfileRows)
<1>1. ProfileRows \in Nat
  BY GraphReplayAssumption DEF ProfileRows
<1>2. ASSUME HeadLaunch(HeadLayer, m, {}).kernel = "qpn2"
      PROVE  HeadLaunch(HeadLayer, ProfileRows, {}).kernel = "qpn2"
  <2>1. Cfg2(HeadLayer.k, HeadLayer.n) # NoCfg /\ Packable(HeadLayer)
    BY <1>2 DEF HeadLaunch, Plain, Launch
  <2>2. ~(ProfileRows > 64)
    BY <1>1
  <2> QED
    BY <2>1, <2>2 DEF HeadLaunch, Launch
<1> QED
  BY <1>2 DEF Wants

HeadInv ==
    /\ MaxSeqs <= 8 => late = {}
    /\ pc \notin {"load", "profile"} => Wants(ProfileRows) \subseteq head

LEMMA HeadStep == HeadInv /\ [Next]_vars => HeadInv'
<1> SUFFICES ASSUME HeadInv, [Next]_vars PROVE HeadInv'
  OBVIOUS
<1> USE DEF weights, verdict, builder
<1>1. Wants(ProfileRows)' = Wants(ProfileRows)
  BY DEF Next, vars, Load, Profile, Warm, Capture, EndEstimate, Pool, Ready, Serve, Wants
<1>2. CASE Load
  BY <1>2 DEF Load, HeadInv
<1>3. CASE Profile
  BY <1>1, <1>3 DEF Profile, Logits, HeadInv
<1>4. CASE Warm \/ Capture \/ EndEstimate \/ Pool \/ Ready \/ UNCHANGED vars
  <2>1. head' = head /\ late' = late
    BY <1>4 DEF Warm, Capture, EndEstimate, Pool, Ready, vars
  <2>2. pc' \notin {"load", "profile"} => pc \notin {"load", "profile"}
    BY <1>4 DEF Warm, Capture, EndEstimate, Pool, Ready, vars
  <2> QED
    BY <1>1, <2>1, <2>2 DEF HeadInv
<1>5. CASE Serve
  <2>1. PICK m : head' = head \union Wants(m)
    BY <1>5 DEF Serve, Logits
  <2>2. late' = late \union (head' \ head) /\ pc = "serve"
    BY <1>5 DEF Serve
  <2>3. Wants(ProfileRows) \subseteq head
    BY <2>2 DEF HeadInv
  <2>4. ASSUME MaxSeqs <= 8 PROVE late' = {}
    <3>1. ProfileRows <= 8
      BY <2>4, GraphReplayAssumption DEF ProfileRows
    <3>2. Wants(m) \subseteq head
      BY <2>3, <3>1, WantsLess
    <3> QED
      BY <2>1, <2>2, <2>4, <3>2 DEF HeadInv
  <2> QED
    BY <1>1, <2>1, <2>3, <2>4 DEF HeadInv
<1> QED
  BY <1>2, <1>3, <1>4, <1>5 DEF Next

\* Nothing of the size of a weight is made after the pool was sized, for any
\* head and any batches, as long as a profile run samples at most 8 rows.
THEOREM HeadIsAccounted == Spec => []HeadBeforePool
<1>1. Init => HeadInv
  BY DEF Init, HeadInv
<1>2. HeadInv => HeadBeforePool
  BY DEF HeadInv, HeadBeforePool
<1> QED
  BY <1>1, <1>2, HeadStep, PTL DEF Spec

-----------------------------------------------------------------------------
(* The batches that are served.                                            *)

LEMMA MaxFacts ==
    ASSUME NEW B \in Nat, NEW S \in SUBSET (0 .. B), S # {}
    PROVE  MaxOf(S) \in S /\ \A y \in S : y <= MaxOf(S)
<1>1. \E x \in S : \A y \in S : y <= x
  BY GreatestExists
<1> QED
  BY <1>1 DEF MaxOf

\* A request has tokens to compute, after what it has; the host never takes its
\* context for shorter than it is, and one that decodes has a context before
\* its queries.
Wellformed(r) ==
    /\ r.q \in Nat \ {0} /\ r.seq \in Nat /\ r.upper \in Nat
    /\ r.q <= r.seq /\ r.seq <= r.upper /\ r.upper <= MaxModelLen
    /\ ~r.prefill => r.q <= 16 /\ r.q # r.upper

Batch(b) ==
    /\ Len(b) \in Nat \ {0} /\ DOMAIN b = 1 .. Len(b)
    /\ \A j \in 1 .. Len(b) : Wellformed(b[j])

LEMMA AskFacts ==
    ASSUME NEW k \in 0 .. 15, NEW id, NEW r \in Asks(id, k)
    PROVE  Wellformed(r)
<1>1. /\ MaxModelLen \in Nat /\ Lens \subseteq 17 .. MaxModelLen - 16 /\ Lens # {}
      /\ Prompts \subseteq 1 .. MaxModelLen
  BY GraphReplayAssumption
<1>2. MaxModelLen >= 33
  <2>1. PICK l \in Lens : TRUE
    BY <1>1
  <2>2. l \in 17 .. MaxModelLen - 16
    BY <1>1, <2>1
  <2> QED
    BY <1>1, <2>2
<1>3. MaxOf(Lens) \in Lens
  <2>1. Lens \in SUBSET (0 .. MaxModelLen)
    BY <1>1
  <2> QED
    BY <1>1, <2>1, MaxFacts
<1>4. CASE \E seq \in Lens, over \in {0, k} : r = Ask(id, seq, over, k + 1, FALSE)
  <2>1. PICK seq \in Lens, over \in {0, k} : r = Ask(id, seq, over, k + 1, FALSE)
    BY <1>4
  <2>2. seq \in 17 .. MaxModelLen - 16 /\ over \in 0 .. 15 /\ over \in {0, k}
    BY <1>1, <2>1
  <2>3. r.q = k + 1 /\ r.seq = seq /\ r.upper = seq + over /\ r.prefill = FALSE
    BY <2>1 DEF Ask
  <2> QED
    BY <1>1, <2>2, <2>3 DEF Wellformed
<1>5. CASE r = Ask(id, MaxOf(Lens), 0, 1, FALSE)
  <2> DEFINE l == MaxOf(Lens)
  <2>1. r.q = 1 /\ r.seq = l /\ r.upper = l + 0 /\ r.prefill = FALSE
    BY <1>5 DEF Ask
  <2>2. l \in 17 .. MaxModelLen - 16
    BY <1>1, <1>3
  <2> HIDE DEF l
  <2> QED
    BY <1>1, <2>1, <2>2 DEF Wellformed
<1>6. CASE \E q \in Prompts \union {k + 1} : r = Ask(id, q, 0, q, TRUE)
  <2>1. PICK q \in Prompts \union {k + 1} : r = Ask(id, q, 0, q, TRUE)
    BY <1>6
  <2>2. q \in Nat \ {0} /\ q <= MaxModelLen
    BY <1>1, <1>2, <2>1
  <2>3. r.q = q /\ r.seq = q /\ r.upper = q + 0 /\ r.prefill = TRUE
    BY <2>1 DEF Ask
  <2> QED
    BY <1>1, <2>2, <2>3 DEF Wellformed
<1> QED
  BY <1>4, <1>5, <1>6 DEF Asks, Ask

LEMMA BatchFacts ==
    ASSUME env \in Boots, NEW batch \in Batches[env.drafts]
    PROVE  Batch(batch)
<1> DEFINE k == env.drafts
           A == UNION {Asks(i, k) : i \in Ids}
<1>1. k \in 0 .. 15 /\ MaxSeqs \in Nat \ {0}
  BY GraphReplayAssumption
<1>2. PICK n \in 1 .. MaxSeqs : batch \in [1 .. n -> A]
  BY DEF Batches
<1>3. \A r \in A : Wellformed(r)
  BY <1>1, AskFacts
<1> HIDE DEF A
<1>4. n \in Nat \ {0} /\ DOMAIN batch = 1 .. n /\ \A j \in 1 .. n : batch[j] \in A
  BY <1>1, <1>2
<1>5. Len(batch) = n
  <2>1. batch \in Seq(A)
    BY <1>2, <1>4
  <2>2. Len(batch) \in Nat /\ DOMAIN batch = 1 .. Len(batch)
    BY <2>1, LenProperties
  <2> QED
    BY <1>4, <2>2
<1> QED
  BY <1>3, <1>4, <1>5 DEF Batch

\* The tokens, and the rows of logits, of each request.
Logged(batch) == [j \in DOMAIN batch |-> IF batch[j].prefill THEN 1 ELSE batch[j].q]

LEMMA LaidOut ==
    ASSUME NEW batch, Batch(batch),
           NEW w, DOMAIN w = DOMAIN batch, w = [j \in DOMAIN batch |-> w[j]],
           \A j \in DOMAIN batch : w[j] \in Nat \ {0}
    PROVE  /\ Lengths(w) /\ Len(w) = Len(batch)
           /\ Ends(w)[Len(batch)] \in Nat \ {0}
<1> DEFINE n == Len(batch)
<1>1. n \in Nat \ {0} /\ DOMAIN batch = 1 .. n
  BY DEF Batch
<1>2. w \in Seq(Nat)
  BY <1>1
<1>3. Len(w) = n
  <2>1. Len(w) \in Nat /\ DOMAIN w = 1 .. Len(w)
    BY <1>2, LenProperties
  <2> QED
    BY <1>1, <2>1
<1>4. Lengths(w)
  BY <1>1, <1>3 DEF Lengths
<1>5. Ends(w)[1] = Ends(w)[0] + w[1] /\ Ends(w)[0] = 0 /\ Ends(w)[n] \in Nat
      /\ w[1] \in Nat \ {0}
  BY <1>1, <1>3, <1>4, EndsFacts
<1>6. Ends(w)[1] <= Ends(w)[n]
  BY <1>1, <1>3, <1>4, EndsMonotone
<1> QED
  BY <1>3, <1>4, <1>5, <1>6

LEMMA BatchRows ==
    ASSUME NEW batch, Batch(batch)
    PROVE  /\ Lengths(Widths(batch)) /\ Len(Widths(batch)) = Len(batch)
           /\ \A j \in 1 .. Len(batch) : Widths(batch)[j] = batch[j].q
           /\ Tokens(batch) \in Nat \ {0} /\ Sampled(batch) \in Nat \ {0}
<1>1. DOMAIN batch = 1 .. Len(batch) /\ \A j \in DOMAIN batch : batch[j].q \in Nat \ {0}
  BY DEF Batch, Wellformed
<1>2. /\ Lengths(Widths(batch)) /\ Len(Widths(batch)) = Len(batch)
      /\ Ends(Widths(batch))[Len(batch)] \in Nat \ {0}
  <2> DEFINE w == Widths(batch)
  <2>1. DOMAIN w = DOMAIN batch /\ w = [j \in DOMAIN batch |-> w[j]]
        /\ \A j \in DOMAIN batch : w[j] \in Nat \ {0}
    BY <1>1 DEF Widths
  <2> HIDE DEF w
  <2>2. Lengths(w) /\ Len(w) = Len(batch) /\ Ends(w)[Len(batch)] \in Nat \ {0}
    BY <2>1, LaidOut
  <2> QED
    BY <2>2 DEF w
<1>3. Ends(Logged(batch))[Len(batch)] \in Nat \ {0}
  <2> DEFINE w == Logged(batch)
  <2>1. DOMAIN w = DOMAIN batch /\ w = [j \in DOMAIN batch |-> w[j]]
        /\ \A j \in DOMAIN batch : w[j] \in Nat \ {0}
    BY <1>1 DEF Logged
  <2> HIDE DEF w
  <2>2. Ends(w)[Len(batch)] \in Nat \ {0}
    BY <2>1, LaidOut
  <2> QED
    BY <2>2 DEF w
<1> QED
  BY <1>1, <1>2, <1>3 DEF Tokens, Sampled, Logged, Widths

\* The longest of the contexts, and of the queries.
LEMMA LongestFacts ==
    ASSUME NEW batch, Batch(batch)
    PROVE  /\ Longest(batch) \in Nat /\ Longest(batch) <= MaxModelLen
           /\ \A j \in 1 .. Len(batch) : batch[j].upper <= Longest(batch)
           /\ LongestQuery(batch) \in Nat \ {0}
           /\ \A j \in 1 .. Len(batch) : batch[j].q <= LongestQuery(batch)
           /\ \E j \in 1 .. Len(batch) : batch[j].q = LongestQuery(batch)
<1> DEFINE U == {r.upper : r \in Range(batch)}
           Q == {r.q : r \in Range(batch)}
<1>1. MaxModelLen \in Nat
  BY GraphReplayAssumption
<1>2. /\ Len(batch) \in Nat \ {0}
      /\ \A j \in 1 .. Len(batch) : batch[j] \in Range(batch)
      /\ \A r \in Range(batch) : Wellformed(r) /\ \E j \in 1 .. Len(batch) : r = batch[j]
  BY DEF Batch, Range
<1>3. U \in SUBSET (0 .. MaxModelLen) /\ Q \in SUBSET (0 .. MaxModelLen)
  BY <1>1, <1>2 DEF Wellformed
<1>4. U # {} /\ Q # {}
  BY <1>2
<1>5. MaxOf(U) \in U /\ \A y \in U : y <= MaxOf(U)
  BY <1>1, <1>3, <1>4, MaxFacts
<1>6. MaxOf(Q) \in Q /\ \A y \in Q : y <= MaxOf(Q)
  BY <1>1, <1>3, <1>4, MaxFacts
<1>7. Longest(batch) = MaxOf(U) /\ LongestQuery(batch) = MaxOf(Q)
  BY DEF Longest, LongestQuery
<1>8. Longest(batch) \in Nat /\ Longest(batch) <= MaxModelLen
  BY <1>1, <1>3, <1>5, <1>7
<1>9. \A j \in 1 .. Len(batch) : batch[j].upper <= Longest(batch)
  BY <1>2, <1>5, <1>7
<1>10. \A j \in 1 .. Len(batch) : batch[j].q <= LongestQuery(batch)
  BY <1>2, <1>6, <1>7
<1>11. \E j \in 1 .. Len(batch) : batch[j].q = LongestQuery(batch)
  BY <1>2, <1>6, <1>7
<1>12. LongestQuery(batch) \in Nat \ {0}
  BY <1>11 DEF Batch, Wellformed
<1> QED
  BY <1>8, <1>9, <1>10, <1>11, <1>12

-----------------------------------------------------------------------------
(* The launches of the round in hand.                                      *)

\* A graph for uniform rounds that takes a batch.
Takes(d, batch) ==
    /\ Uniform(batch) /\ Tokens(batch) <= d.n
    /\ d.bucket = 0 \/ Longest(batch) <= d.bucket

\* A round is served by a graph that was captured and takes it, or eagerly.
LEMMA DispatchFinds ==
    ASSUME NEW batch, Tokens(batch) \in Nat, DOMAIN graphs \subseteq Descriptors
    PROVE  /\ Dispatch(batch) \in DOMAIN graphs \/ Dispatch(batch) = Eager(Tokens(batch))
           /\ Dispatch(batch).full =>
                Dispatch(batch) \in DOMAIN graphs /\ Takes(Dispatch(batch), batch)
<1> DEFINE ctx == ContextLen(batch)
           fits(full) == {d \in DOMAIN graphs :
                            /\ d.full = full /\ d.n >= Tokens(batch)
                            /\ (d.bucket = 0 \/ ctx <= d.bucket)}
           key(d) == d.n * (MaxModelLen + 1) + (IF d.bucket = 0 THEN MaxModelLen ELSE d.bucket)
           tightest(S) == CHOOSE d \in S : \A e \in S : key(d) <= key(e)
<1>1. ASSUME NEW d \in Descriptors PROVE key(d) \in Nat
  <2>1. /\ d.n \in Nat /\ d.bucket \in Nat /\ MaxModelLen \in Nat
    BY GraphReplayAssumption DEF Descriptors, Piecewise, Full
  <2>2. d.n * (MaxModelLen + 1) \in Nat
    BY <2>1
  <2> QED
    BY <2>1, <2>2
<1>2. ASSUME NEW S, S \subseteq Descriptors, S # {}
      PROVE  tightest(S) \in S
  <2> DEFINE T == {key(d) : d \in S}
  <2> HIDE DEF key
  <2>1. T \in SUBSET Nat /\ T # {}
    BY <1>1, <1>2
  <2>2. PICK x \in T : \A y \in T : x <= y
    BY <2>1, LeastExists
  <2>3. \E d \in S : \A e \in S : key(d) <= key(e)
    BY <2>2
  <2> QED
    BY <2>3
<1>3. /\ \A full : fits(full) \subseteq DOMAIN graphs
      /\ \A d \in fits(FALSE) : d.full = FALSE
      /\ \A d \in fits(TRUE) :
            /\ d \in DOMAIN graphs /\ Tokens(batch) <= d.n
            /\ d.bucket = 0 \/ Longest(batch) <= d.bucket
  BY GraphReplayAssumption DEF Descriptors, Piecewise, Full, ContextLen
<1>4. Dispatch(batch) = IF Uniform(batch) /\ fits(TRUE) # {} THEN tightest(fits(TRUE))
                        ELSE IF fits(FALSE) # {} THEN tightest(fits(FALSE))
                        ELSE Eager(Tokens(batch))
  BY DEF Dispatch
<1>5. Eager(Tokens(batch)).full = FALSE
  BY DEF Eager
<1> HIDE DEF fits, tightest
<1>6. CASE Uniform(batch) /\ fits(TRUE) # {}
  <2>1. Dispatch(batch) \in fits(TRUE)
    BY <1>2, <1>3, <1>4, <1>6
  <2> DEFINE d == Dispatch(batch)
  <2>2. d \in DOMAIN graphs /\ Tokens(batch) <= d.n
        /\ (d.bucket = 0 \/ Longest(batch) <= d.bucket)
    BY <1>3, <2>1
  <2>3. Takes(d, batch)
    BY <1>6, <2>2 DEF Takes
  <2> QED
    BY <2>2, <2>3
<1>7. CASE ~(Uniform(batch) /\ fits(TRUE) # {}) /\ fits(FALSE) # {}
  <2>1. Dispatch(batch) \in fits(FALSE)
    BY <1>2, <1>3, <1>4, <1>7
  <2> QED
    BY <1>3, <2>1
<1>8. CASE ~(Uniform(batch) /\ fits(TRUE) # {}) /\ fits(FALSE) = {}
  BY <1>4, <1>5, <1>8
<1> QED
  BY <1>6, <1>7, <1>8

\* Where what is launched, dispatched and served comes from.
LaunchInv ==
    /\ DOMAIN graphs \subseteq Descriptors
    /\ \A d \in DOMAIN graphs : DOMAIN graphs[d].lin = Layers
    /\ pc = "load" => lin = <<>>
    /\ DOMAIN lin \subseteq Layers
    /\ ShapesFit => \A i \in DOMAIN lin : Sound(lin[i], i)
    /\ round.batch # <<>> => round.batch \in Batches[env.drafts] /\ pc = "serve"

LEMMA ForwardLayers ==
    ASSUME NEW m, NEW capturing, Forward(m, capturing)
    PROVE  DOMAIN lin' = Layers
BY DEF Forward

LEMMA LaunchKept ==
    ASSUME GInv, LaunchInv, env' = env, held' = held, pc # "load", pc' # "load",
           DOMAIN graphs' \subseteq DOMAIN graphs,
           \A d \in DOMAIN graphs' : graphs'[d] = graphs[d],
           \/ lin' = lin /\ ok' = ok
           \/ DOMAIN lin' = Layers /\ (ShapesFit => \A i \in Layers : Sound(lin[i], i)'),
           round'.batch # <<>> => round'.batch \in Batches[env.drafts] /\ pc' = "serve"
    PROVE  LaunchInv'
<1>1. (DOMAIN graphs \subseteq Descriptors)' /\ \A d \in DOMAIN graphs' : DOMAIN graphs'[d].lin = Layers
  BY DEF LaunchInv, Descriptors, Full, Piecewise, QueryLen
<1>2. DOMAIN lin' \subseteq Layers
  BY DEF LaunchInv
<1>3. ASSUME ShapesFit, NEW i \in DOMAIN lin' PROVE Sound(lin[i], i)'
  <2>1. CASE lin' = lin /\ ok' = ok
    BY <1>3, <2>1 DEF LaunchInv, Sound
  <2>2. CASE DOMAIN lin' = Layers /\ (ShapesFit => \A j \in Layers : Sound(lin[j], j)')
    BY <1>3, <2>2
  <2> QED
    BY <2>1, <2>2
<1> QED
  BY <1>1, <1>2, <1>3 DEF LaunchInv, ShapesFit, Layers

LEMMA LaunchStep ==
    ASSUME GInv, LaunchInv, [Next]_vars
    PROVE  LaunchInv'
<1> USE DEF weights, verdict, builder
<1>1. env' = env
  BY DEF Next, vars, Load, Profile, Warm, Capture, EndEstimate, Pool, Ready, Serve
<1>2. CASE Load
  BY <1>1, <1>2 DEF Load, LaunchInv, GInv, Loaded, Layers
<1>3. CASE Profile
  <2>1. Forward(MaxTokens, FALSE) /\ MaxTokens \in Nat \ {0} /\ FALSE \in BOOLEAN
    BY <1>3, GraphReplayAssumption DEF Profile
  <2>2. /\ pc = "profile" /\ pc' \in {"estimate", "pool"} /\ held' = held /\ graphs' = graphs
        /\ round' = round
    BY <1>3 DEF Profile
  <2>3. ShapesFit => \A i \in Layers : Sound(lin[i], i)'
    BY <1>1, <2>1, <2>2, ForwardSound
  <2>4. DOMAIN lin' = Layers
    BY <2>1, ForwardLayers
  <2>5. round.batch = <<>>
    BY <2>2 DEF LaunchInv
  <2> QED
    BY <1>1, <2>2, <2>3, <2>4, <2>5, LaunchKept
<1>4. CASE Warm
  <2>1. PICK d \in todo : Forward(d.n, FALSE) /\ round' = [batch |-> <<>>, how |-> d]
    BY <1>4 DEF Warm
  <2>2. pc \in {"estimate", "capture"} /\ pc' = pc /\ held' = held /\ graphs' = graphs
    BY <1>4 DEF Warm
  <2>3. d.n \in Nat \ {0} /\ FALSE \in BOOLEAN
    BY <2>1, DescriptorRows DEF GInv, Types
  <2>4. ShapesFit => \A i \in Layers : Sound(lin[i], i)'
    BY <1>1, <2>1, <2>2, <2>3, ForwardSound
  <2>5. DOMAIN lin' = Layers
    BY <2>1, ForwardLayers
  <2>6. round'.batch = <<>>
    BY <2>1
  <2> QED
    BY <1>1, <2>2, <2>4, <2>5, <2>6, LaunchKept
<1>5. CASE Capture
  <2> DEFINE d == round.how
  <2>1. /\ pc \in {"estimate", "capture"} /\ round # Nobody /\ Forward(d.n, TRUE)
        /\ graphs' = [x \in DOMAIN graphs \union {d} |->
                IF x \in DOMAIN graphs THEN graphs[x] ELSE [lin |-> lin', attn |-> Bound(d)]]
        /\ round' = Nobody /\ pc' = pc /\ held' = held
    BY <1>5 DEF Capture
  <2>2. d \in Descriptors /\ d.n \in Nat \ {0} /\ TRUE \in BOOLEAN
    BY <2>1, DescriptorRows DEF GInv, Types
  <2>3. ShapesFit => \A i \in Layers : Sound(lin[i], i)'
    BY <1>1, <2>1, <2>2, ForwardSound
  <2>4. DOMAIN lin' = Layers
    BY <2>1, ForwardLayers
  <2>5. Descriptors' = Descriptors
    BY <1>1 DEF Descriptors, Full, Piecewise, QueryLen
  <2>6. DOMAIN graphs' \subseteq Descriptors
    BY <2>1, <2>2 DEF LaunchInv
  <2>7. ASSUME NEW e \in DOMAIN graphs' PROVE DOMAIN graphs'[e].lin = Layers
    BY <2>1, <2>4 DEF LaunchInv
  <2>8. round'.batch = <<>> /\ pc' # "load"
    BY <2>1 DEF Nobody
  <2> HIDE DEF d
  <2>9. (ShapesFit => \A i \in DOMAIN lin : Sound(lin[i], i))'
    BY <2>3, <2>4 DEF ShapesFit, Layers
  <2> QED
    BY <2>4, <2>5, <2>6, <2>7, <2>8, <2>9 DEF LaunchInv, Layers
<1>6. CASE EndEstimate \/ Pool \/ Ready
  <2>1. /\ pc \in {"estimate", "pool", "capture"} /\ pc' # "load" /\ held' = held
        /\ graphs' = graphs \/ graphs' = <<>>
        /\ lin' = lin /\ ok' = ok /\ round' = round
    BY <1>6 DEF EndEstimate, ClearGraphs, Pool, Ready
  <2>2. round.batch = <<>>
    BY <2>1 DEF LaunchInv
  <2> QED
    BY <1>1, <2>1, <2>2, LaunchKept
<1>7. CASE Serve
  <2>1. PICK batch \in Batches[env.drafts] :
            LET d == Dispatch(batch) IN
            /\ IF d \in DOMAIN graphs THEN lin' = graphs[d].lin /\ UNCHANGED verdict
               ELSE Forward(d.n, FALSE)
            /\ round' = [batch |-> batch, how |-> d]
    BY <1>7 DEF Serve
  <2> DEFINE d == Dispatch(batch)
  <2>2. pc = "serve" /\ pc' = "serve" /\ held' = held /\ graphs' = graphs
    BY <1>7 DEF Serve
  <2>3. Tokens(batch) \in Nat \ {0}
    BY <2>1, BatchFacts, BatchRows DEF GInv, Types
  <2>4. d \in DOMAIN graphs \/ d = Eager(Tokens(batch))
    BY <2>3, DispatchFinds DEF LaunchInv
  <2>5. CASE d \in DOMAIN graphs
    <3>1. lin' = graphs[d].lin /\ ok' = ok
      BY <2>1, <2>5
    <3>2. DOMAIN lin' = Layers
      BY <2>5, <3>1 DEF LaunchInv
    <3>3. ASSUME ShapesFit, NEW i \in Layers PROVE Sound(lin[i], i)'
      BY <1>1, <2>2, <2>5, <3>1, <3>3 DEF GInv, GraphsSound, Sound
    <3> QED
      BY <1>1, <2>1, <2>2, <3>2, <3>3, LaunchKept
  <2>6. CASE d \notin DOMAIN graphs
    <3>. d.n = Tokens(batch) /\ FALSE \in BOOLEAN
      BY <2>4, <2>6 DEF Eager
    <3>1. Forward(d.n, FALSE) /\ d.n \in Nat \ {0}
      BY <2>1, <2>3, <2>6
    <3>2. DOMAIN lin' = Layers
      BY <3>1, ForwardLayers
    <3>3. ShapesFit => \A i \in Layers : Sound(lin[i], i)'
      BY <1>1, <2>2, <3>1, ForwardSound
    <3> QED
      BY <1>1, <2>1, <2>2, <3>2, <3>3, LaunchKept
  <2> QED
    BY <2>5, <2>6
<1>8. CASE UNCHANGED vars
  BY <1>8 DEF vars, LaunchInv, Sound, Descriptors, Full, Piecewise, QueryLen, Layers, ShapesFit
<1> QED
  BY <1>2, <1>3, <1>4, <1>5, <1>6, <1>7, <1>8 DEF Next

LEMMA LaunchInvariant == Spec => []LaunchInv
<1>1. Init => LaunchInv
  <2> SUFFICES ASSUME Init PROVE LaunchInv
    OBVIOUS
  <2>1. DOMAIN graphs = {} /\ DOMAIN lin = {} /\ lin = <<>> /\ round.batch = <<>>
    BY DEF Init, Nobody
  <2> QED
    BY <2>1 DEF LaunchInv
<1>2. GInv /\ LaunchInv /\ [Next]_vars => LaunchInv'
  BY LaunchStep
<1> QED
  BY <1>1, <1>2, Invariant, PTL DEF Spec

\* A head of whole tiles: every kernel that may compute its logits takes it.
HeadFits ==
    /\ HeadLayer.n \in Nat /\ HeadLayer.k \in Nat \ {0}
    /\ HeadLayer.n % 64 = 0 /\ HeadLayer.k % 256 = 0

LEMMA HeadAccepted ==
    ASSUME HeadFits, NEW m \in Nat \ {0}, NEW copies
    PROVE  Accepts(HeadLaunch(HeadLayer, m, copies), HeadLayer)
<1> DEFINE n == HeadLayer.n
           k == HeadLayer.k
           cfg == Cfg2(k, n)
           a == HeadLaunch(HeadLayer, m, copies)
<1>1. /\ n \in Nat /\ k \in Nat /\ k >= 128 /\ n % 8 = 0 /\ n % 32 = 0 /\ n % 64 = 0
      /\ k % 256 = 0 /\ k % 128 = 0
  BY DEF HeadFits
<1>2. \/ a = Plain("dense", "raw", m)
      \/ a = Launch("qpn2", "qpn", m, cfg, 1) /\ m <= 8 /\ cfg # NoCfg /\ Packable(HeadLayer)
      \/ a = Plain("simt", "ct", m) /\ m <= 7
      \/ a = Plain("wmma", "ct", m) /\ m <= 64
  BY DEF HeadLaunch
<1>3. \A kernel, copy : /\ Plain(kernel, copy, m).kernel = kernel
                        /\ Plain(kernel, copy, m).m = m
  BY DEF Plain, Launch
<1>4. CASE a = Plain("dense", "raw", m)
  BY <1>3, <1>4 DEF Accepts
<1>5. CASE a = Launch("qpn2", "qpn", m, cfg, 1) /\ m <= 8 /\ cfg # NoCfg /\ Packable(HeadLayer)
  <2>1. cfg \in Cfgs /\ cfg.split # 4 /\ Splits(k, cfg.split)
    BY <1>1, <1>5, Cfg2Divides
  <2>2. a.kernel = "qpn2" /\ a.m = m /\ a.split = cfg.split /\ a.nacc = cfg.nacc
    BY <1>5 DEF Launch
  <2>3. cfg.split \in {8, 16, 32} /\ cfg.nacc \in {1, 2}
    BY <2>1 DEF Cfgs
  <2>4. a.m \in 1 .. 8 /\ Packable(HeadLayer) /\ Splits(HeadLayer.k, a.split)
    BY <1>5, <2>1, <2>2
  <2>5. a.split \in {8, 16, 32} /\ a.nacc \in {1, 2}
    BY <2>2, <2>3
  <2> HIDE DEF a, cfg
  <2>6. Accepts(a, HeadLayer)
    BY <2>2, <2>4, <2>5 DEF Accepts
  <2> QED
    BY <2>6 DEF a
<1>6. CASE a = Plain("simt", "ct", m) /\ m <= 7
  BY <1>1, <1>3, <1>6 DEF Accepts
<1>7. CASE a = Plain("wmma", "ct", m) /\ m <= 64
  BY <1>1, <1>3, <1>7 DEF Accepts
<1> QED
  BY <1>2, <1>4, <1>5, <1>6, <1>7

\* Where K is a multiple of 256 or repacking is on, and the head is made of
\* whole tiles, no pass ever launches a kernel that refuses its call, nor
\* one that reads a copy the loader dropped: whatever is recorded, replayed or
\* run eagerly, for any batch.
THEOREM LaunchesAreSound ==
    ASSUME ShapesFit, HeadFits PROVE Spec => []LaunchesSound
<1>1. ASSUME GInv, LaunchInv PROVE LaunchesSound
  <2>1. (\A i \in DOMAIN lin : Sound(lin[i], i)) /\ GraphsSound
    BY <1>1 DEF LaunchInv, GInv
  <2>2. ASSUME round.batch # <<>>
        PROVE  Accepts(HeadLaunch(HeadLayer, Sampled(round.batch), head), HeadLayer)
    <3>1. round.batch \in Batches[env.drafts] /\ env \in Boots
      BY <1>1, <2>2 DEF LaunchInv, GInv, Types
    <3>2. Sampled(round.batch) \in Nat \ {0}
      BY <3>1, BatchFacts, BatchRows
    <3> QED
      BY <3>2, HeadAccepted
  <2> QED
    BY <2>1, <2>2 DEF LaunchesSound
<1> QED
  BY <1>1, Invariant, LaunchInvariant, PTL

-----------------------------------------------------------------------------
(* The attention of the rounds.                                            *)

LEMMA DraftsBounded ==
    ASSUME env \in Boots
    PROVE  QueryLen \in 1 .. 16
<1>1. env.drafts \in 0 .. 15
  BY GraphReplayAssumption
<1> QED
  BY <1>1 DEF QueryLen

LEMMA FullOnes ==
    ASSUME NEW d \in Descriptors, d.full
    PROVE  d \in Full /\ d.full = TRUE
<1>1. \A x \in Piecewise : x.full = FALSE
  BY DEF Piecewise
<1>2. \A x \in Full : x.full = TRUE
  BY DEF Full
<1> QED
  BY <1>1, <1>2 DEF Descriptors

\* The batch a graph is captured with: queries of the uniform length.
LEMMA DummyQuery ==
    ASSUME env \in Boots, NEW d \in Full, NEW seq, NEW upper
    PROVE  /\ LongestQuery(Dummy(d, seq, upper)) = QueryLen
           /\ upper \in Nat => Longest(Dummy(d, seq, upper)) = upper
<1> DEFINE b == Dummy(d, seq, upper)
           ln == d.n \div QueryLen
<1>1. QueryLen \in 1 .. 16 /\ d.n \in Nat \ {0} /\ d.n % QueryLen = 0
  BY DraftsBounded, GraphReplayAssumption DEF Full
<1>2. ln \in Nat /\ ln >= 1
  <2>1. \A n \in Nat \ {0} : \A q \in 1 .. 16 : n % q = 0 => n \div q \in Nat /\ n \div q >= 1
    <3> SUFFICES ASSUME NEW n \in Nat \ {0}, NEW q \in 1 .. 16, n % q = 0
                 PROVE  n \div q \in Nat /\ n \div q >= 1
      OBVIOUS
    <3>1. \/ q = 1 \/ q = 2 \/ q = 3 \/ q = 4 \/ q = 5 \/ q = 6 \/ q = 7 \/ q = 8
          \/ q = 9 \/ q = 10 \/ q = 11 \/ q = 12 \/ q = 13 \/ q = 14 \/ q = 15 \/ q = 16
      OBVIOUS
    <3> QED
      BY <3>1
  <2> QED
    BY <1>1, <2>1
<1>3. DOMAIN b = 1 .. ln /\ \A j \in 1 .. ln : b[j].q = QueryLen /\ b[j].upper = upper
  BY DEF Dummy
<1>4. {r.q : r \in Range(b)} = {QueryLen} /\ {r.upper : r \in Range(b)} = {upper}
  <2>1. \A r \in Range(b) : r.q = QueryLen /\ r.upper = upper
    BY <1>3 DEF Range
  <2>2. 1 \in DOMAIN b
    BY <1>2, <1>3
  <2>3. b[1] \in Range(b)
    BY <2>2 DEF Range
  <2> QED
    BY <2>1, <2>3
<1>5. \A x \in Nat : MaxOf({x}) = x
  BY DEF MaxOf
<1> HIDE DEF b
<1>6. LongestQuery(b) = MaxOf({QueryLen}) /\ Longest(b) = MaxOf({upper})
  BY <1>4 DEF LongestQuery, Longest
<1>7. QueryLen \in Nat
  BY <1>1
<1> QED
  BY <1>5, <1>6, <1>7 DEF b

\* What the buffers hold, and which graph takes the round, once it is served.
Served ==
    LET b == round.batch
        d == round.how
        q == LongestQuery(b)
        size == Partitions(Longest(b))
    IN  b # <<>> =>
        /\ d.full => d \in DOMAIN graphs /\ Takes(d, b)
        /\ q \in 2 .. 16 /\ Prefixed(b) =>
                \A i \in 1 .. Wide : i \in DOMAIN small /\ small[i] = SmallRows(b, Wide)[i]
        /\ q = 1 /\ single # <<>> => \A i \in 1 .. Wide : single[i] = SingleRows(b, Wide)[i]
        /\ q = 1 /\ active # 0 => active = (Longest(b) + size - 1) \div size

\* A graph is bound to the builders in use, whenever it may be replayed.
AttnInv ==
    /\ pc \in {"load", "profile", "pool"} => graphs = <<>>
    /\ \A d \in DOMAIN graphs : graphs[d].attn = Bound(d)
    /\ Served

\* The kernel an eager run would take, and what it finds.
LEMMA RouteFacts ==
    ASSUME NEW b, Batch(b)
    PROVE  /\ LongestQuery(b) = 1 => Route(b, FALSE) = "decode"
           /\ LongestQuery(b) \in 2 .. 16 /\ Prefixed(b) => Route(b, FALSE) = "smallq"
           /\ LongestQuery(b) > 16 /\ Prefixed(b) => Route(b, FALSE) = "paged"
           /\ LongestQuery(b) # 1 /\ ~Prefixed(b) => Route(b, FALSE) = "dense"
<1>1. LongestQuery(b) \in Nat \ {0}
  BY LongestFacts
<1> QED
  BY <1>1 DEF Route, PrefillRoute, PrefixRoute, SmallQuery

\* A uniform batch has the uniform query length, and context before its queries
\* if that is more than one.
LEMMA UniformFacts ==
    ASSUME NEW b, Batch(b), Uniform(b)
    PROVE  /\ LongestQuery(b) = QueryLen
           /\ QueryLen > 1 => Prefixed(b)
<1>1. Len(b) \in Nat \ {0} /\ DOMAIN b = 1 .. Len(b) /\ \A j \in 1 .. Len(b) : Wellformed(b[j])
  BY DEF Batch
<1>2. \A j \in 1 .. Len(b) : b[j] \in Range(b)
  BY <1>1 DEF Range
<1>3. \A j \in 1 .. Len(b) : b[j].q = QueryLen /\ (QueryLen > 1 => ~b[j].prefill)
  BY <1>2 DEF Uniform
<1>4. PICK j \in 1 .. Len(b) : b[j].q = LongestQuery(b)
  BY LongestFacts
<1>5. LongestQuery(b) = QueryLen
  BY <1>3, <1>4
<1>6. ASSUME QueryLen > 1 PROVE b[1].q # b[1].upper /\ b[1] \in Range(b)
  BY <1>1, <1>2, <1>3, <1>6 DEF Wellformed
<1> QED
  BY <1>5, <1>6 DEF Prefixed

\* The kernel a graph has recorded is the one an eager run would take.
LEMMA RecordedRoute ==
    ASSUME env \in Boots, DOMAIN graphs \subseteq Descriptors, AttnInv, Batch(round.batch),
           round.batch # <<>>
    PROVE  Kernel = Route(round.batch, FALSE)
<1>1. CASE ~Replayed
  BY <1>1 DEF Kernel
<1>2. CASE Replayed
  <2> DEFINE d == round.how
             b == round.batch
             c == Dummy(d, QueryLen, DummyUpper(d))
             kernel == IF QueryLen = 1 THEN "decode" ELSE "smallq"
             recorded == Route(c, TRUE)
             eager == Route(b, FALSE)
  <2>1. d \in Full /\ d.full = TRUE /\ d \in DOMAIN graphs
    BY <1>2, FullOnes DEF Replayed
  <2>2. Takes(d, b)
    BY <1>2 DEF AttnInv, Served, Replayed
  <2>3. LongestQuery(b) = QueryLen /\ (QueryLen > 1 => Prefixed(b))
    BY <2>2, UniformFacts DEF Takes
  <2>4. LongestQuery(c) = QueryLen
    BY <2>1, DummyQuery
  <2>5. Kernel = recorded
    <3>1. graphs[d].attn = Bound(d)
      BY <2>1 DEF AttnInv
    <3>2. Bound(d).route = Route(c, TRUE)
      BY <2>1 DEF Bound
    <3>3. Kernel = graphs[d].attn.route
      BY <1>2 DEF Kernel, Recorded
    <3> QED
      BY <3>1, <3>2, <3>3
  <2>6. QueryLen \in 1 .. 16
    BY DraftsBounded
  <2>7. recorded = kernel
    BY <2>4, <2>6 DEF Route, CaptureRoute, SmallQuery, PrefixRoute
  <2>8. eager = kernel
    <3>1. QueryLen = 1 \/ QueryLen \in 2 .. 16
      BY <2>6
    <3>2. Batch(b)
      OBVIOUS
    <3> HIDE DEF b
    <3>3. CASE QueryLen = 1
      BY <2>3, <3>2, <3>3, RouteFacts
    <3>4. CASE QueryLen \in 2 .. 16
      <4>1. Prefixed(b) /\ LongestQuery(b) \in 2 .. 16 /\ QueryLen # 1
        BY <2>3, <3>4
      <4> QED
        BY <3>2, <4>1, RouteFacts
    <3> QED
      BY <3>1, <3>3, <3>4
  <2> HIDE DEF recorded, eager, kernel
  <2>9. Kernel = eager
    BY <2>5, <2>7, <2>8
  <2> QED
    BY <2>9 DEF eager
<1> QED
  BY <1>1, <1>2

\* Every token of a batch finds its own context, the padding none, and nothing
\* lies beyond what a launch reaches.
Reads(b, seen, reach) ==
    /\ \A j \in DOMAIN b : \A o \in 1 .. b[j].q :
        seen[Ends(Widths(b))[j - 1] + o] = [id |-> b[j].id, len |-> b[j].seq - b[j].q + o]
    /\ \A i \in DOMAIN seen :
        /\ i > Tokens(b) => seen[i].len = 0
        /\ seen[i].len <= reach

\* A token and the request it belongs to.
LEMMA Located ==
    ASSUME NEW b, Batch(b)
    PROVE  /\ \A i \in 1 .. Tokens(b) :
                LET j == RowAt(Widths(b), i) IN
                j \in 1 .. Len(b) /\ i - Ends(Widths(b))[j - 1] \in 1 .. b[j].q
           /\ \A j \in 1 .. Len(b) : \A o \in 1 .. b[j].q :
                LET i == Ends(Widths(b))[j - 1] + o IN
                /\ i \in 1 .. Tokens(b) /\ RowAt(Widths(b), i) = j
                /\ i - Ends(Widths(b))[j - 1] = o
<1> DEFINE w == Widths(b)
           E == Ends(w)
           n == Len(b)
<1>1. /\ Lengths(w) /\ Len(w) = n /\ n \in Nat \ {0} /\ \A j \in 1 .. n : w[j] = b[j].q
      /\ Tokens(b) = E[n] /\ E[n] \in Nat
  BY BatchRows DEF Batch, Tokens
<1> HIDE DEF w, n
<1>2. /\ \A j \in 1 .. n : E[j] = E[j - 1] + w[j] /\ w[j] \in Nat
      /\ \A j \in 0 .. n : E[j] \in Nat
  BY <1>1, EndsFacts DEF Lengths
<1>3. /\ \A i \in 1 .. E[n] : RowAt(w, i) \in 1 .. n /\ E[RowAt(w, i) - 1] < i /\ i <= E[RowAt(w, i)]
      /\ \A j \in 1 .. n : \A o \in 1 .. w[j] :
            E[j - 1] + o \in 1 .. E[n] /\ RowAt(w, E[j - 1] + o) = j
  BY <1>1, RowAtFacts
<1> HIDE DEF E
<1>4. ASSUME NEW i \in 1 .. E[n]
      PROVE  RowAt(w, i) \in 1 .. n /\ i - E[RowAt(w, i) - 1] \in 1 .. b[RowAt(w, i)].q
  <2> DEFINE j == RowAt(w, i)
  <2>1. j \in 1 .. n /\ E[j - 1] < i /\ i <= E[j]
    BY <1>3
  <2> HIDE DEF j
  <2>2. E[j] = E[j - 1] + w[j] /\ w[j] = b[j].q /\ E[j - 1] \in Nat /\ E[j] \in Nat /\ w[j] \in Nat
    BY <1>1, <1>2, <2>1
  <2>3. i - E[j - 1] \in 1 .. b[j].q
    BY <1>1, <2>1, <2>2
  <2> QED
    BY <2>1, <2>3 DEF j
<1>5. ASSUME NEW j \in 1 .. n, NEW o \in 1 .. b[j].q
      PROVE  /\ E[j - 1] + o \in 1 .. E[n] /\ RowAt(w, E[j - 1] + o) = j
             /\ (E[j - 1] + o) - E[j - 1] = o
  <2>1. w[j] = b[j].q /\ w[j] \in Nat /\ E[j - 1] \in Nat
    BY <1>1, <1>2
  <2> QED
    BY <1>3, <2>1
<1> QED
  BY <1>1, <1>4, <1>5 DEF w, E, n

\* A row for each token, its own request's up to its own position.
LEMMA TokensRead ==
    ASSUME NEW b, Batch(b), NEW n \in Nat, NEW seen, DOMAIN seen = 1 .. n,
           NEW reach \in Nat, Longest(b) <= reach,
           \A i \in 1 .. Tokens(b) :
              LET j == RowAt(Widths(b), i) IN
              seen[i] = [id |-> b[j].id, len |-> b[j].seq - b[j].q + i - Ends(Widths(b))[j - 1]],
           \A i \in 1 .. n : i > Tokens(b) => seen[i].len = 0
    PROVE  Reads(b, seen, reach)
<1> DEFINE E == Ends(Widths(b))
           t == Tokens(b)
           row(i) == RowAt(Widths(b), i)
<1>1. t \in Nat \ {0} /\ DOMAIN b = 1 .. Len(b)
  BY BatchRows DEF Batch
<1>2. ASSUME NEW i \in 1 .. t
      PROVE  /\ row(i) \in 1 .. Len(b) /\ i - E[row(i) - 1] \in 1 .. b[row(i)].q
             /\ seen[i] = [id |-> b[row(i)].id,
                           len |-> b[row(i)].seq - b[row(i)].q + i - E[row(i) - 1]]
  BY Located
<1>3. \A j \in 1 .. Len(b) :
        /\ b[j].q \in Nat /\ b[j].seq \in Nat /\ b[j].q <= b[j].seq /\ b[j].seq <= b[j].upper
        /\ b[j].upper <= Longest(b) /\ b[j].upper \in Nat /\ Longest(b) \in Nat
        /\ \A i \in 1 .. Len(b) : E[i - 1] \in Nat
  <2>1. \A i \in 1 .. Len(b) : E[i - 1] \in Nat
    <3>1. Len(b) \in Nat /\ \A i \in 0 .. Len(b) : E[i] \in Nat
      BY BatchRows, EndsFacts DEF Batch
    <3> QED
      BY <3>1
  <2> QED
    BY <2>1, LongestFacts DEF Batch, Wellformed
<1>4. ASSUME NEW j \in DOMAIN b, NEW o \in 1 .. b[j].q
      PROVE  seen[E[j - 1] + o] = [id |-> b[j].id, len |-> b[j].seq - b[j].q + o]
  <2>1. E[j - 1] + o \in 1 .. t /\ row(E[j - 1] + o) = j /\ (E[j - 1] + o) - E[j - 1] = o
    BY <1>1, Located
  <2> DEFINE i == E[j - 1] + o
  <2>2. seen[i] = [id |-> b[j].id, len |-> b[j].seq - b[j].q + i - E[j - 1]]
    BY <1>2, <2>1
  <2>3. b[j].seq - b[j].q + i - E[j - 1] = b[j].seq - b[j].q + o
    <3> HIDE DEF E
    <3> QED
      BY <1>1, <1>3
  <2> HIDE DEF i, E
  <2> QED
    BY <2>2, <2>3 DEF i
<1>5. ASSUME NEW i \in DOMAIN seen
      PROVE  (i > t => seen[i].len = 0) /\ seen[i].len <= reach
  <2>1. CASE i <= t
    <3>1. i \in 1 .. t
      BY <1>1, <2>1
    <3> DEFINE j == row(i)
               e == E[j - 1]
               s == b[j].seq
               q == b[j].q
    <3>2. j \in 1 .. Len(b) /\ i - e \in 1 .. q
      BY <1>2, <3>1
    <3>3. seen[i].len = s - q + i - e
      <4>1. seen[i] = [id |-> b[j].id, len |-> s - q + i - e]
        BY <1>2, <3>1
      <4> HIDE DEF j, e, s, q
      <4> QED
        BY <4>1
    <3>4. e \in Nat /\ i \in Nat
      BY <1>3, <3>1, <3>2
    <3>5. /\ s \in Nat /\ q \in Nat /\ s <= b[j].upper /\ b[j].upper <= Longest(b)
          /\ b[j].upper \in Nat /\ Longest(b) \in Nat
      BY <1>3, <3>2
    <3> HIDE DEF j, e, s, q
    <3>6. seen[i].len <= reach
      <4>1. s <= reach
        BY <3>5
      <4>2. i <= e + q
        BY <3>2, <3>4, <3>5
      <4>3. s - q + i - e <= s
        BY <3>4, <3>5, <4>2
      <4>4. s - q + i - e \in Int
        BY <3>4, <3>5
      <4> QED
        BY <3>3, <3>5, <4>1, <4>3, <4>4
    <3> QED
      BY <1>1, <2>1, <3>4, <3>6
  <2>2. CASE ~(i <= t)
    <3>1. i > t /\ seen[i].len = 0
      BY <1>1, <2>2
    <3> QED
      BY <3>1
  <2> QED
    BY <2>1, <2>2
<1> QED
  BY <1>4, <1>5 DEF Reads

LEMMA SmallReads ==
    ASSUME NEW b, Batch(b), NEW n \in Nat, Tokens(b) <= n,
           NEW reach \in Nat, Longest(b) <= reach
    PROVE  Reads(b, SmallRows(b, n), reach)
<1> DEFINE E == Ends(Widths(b))
           t == Tokens(b)
           row(i) == RowAt(Widths(b), i)
           seen == SmallRows(b, n)
<1>1. t \in Nat \ {0}
  BY BatchRows
<1>2. TokenRows(b) = [i \in 1 .. t |->
            [id |-> b[row(i)].id,
             len |-> (IF b[row(i)].seq > b[row(i)].q THEN b[row(i)].seq ELSE b[row(i)].q)
                        - b[row(i)].q + i - E[row(i) - 1]]]
  BY DEF TokenRows
<1>3. Len(TokenRows(b)) = t
  <2>1. TokenRows(b) \in Seq({TokenRows(b)[i] : i \in 1 .. t})
    BY <1>1, <1>2
  <2>2. Len(TokenRows(b)) \in Nat /\ DOMAIN TokenRows(b) = 1 .. Len(TokenRows(b))
    BY <2>1, LenProperties
  <2> QED
    BY <1>1, <1>2, <2>2
<1>4. seen = [i \in 1 .. n |-> IF i <= t THEN TokenRows(b)[i] ELSE Unset]
  BY <1>3 DEF SmallRows
<1>5. ASSUME NEW i \in 1 .. t
      PROVE  seen[i] = [id |-> b[row(i)].id,
                        len |-> b[row(i)].seq - b[row(i)].q + i - E[row(i) - 1]]
  <2>1. row(i) \in 1 .. Len(b)
    BY Located
  <2>2. (IF b[row(i)].seq > b[row(i)].q THEN b[row(i)].seq ELSE b[row(i)].q) = b[row(i)].seq
    BY <2>1 DEF Batch, Wellformed
  <2>3. seen[i] = TokenRows(b)[i]
    BY <1>1, <1>4
  <2> HIDE DEF row, E, seen
  <2> QED
    BY <1>2, <2>1, <2>2, <2>3
<1>6. \A i \in 1 .. n : i > t => seen[i].len = 0
  BY <1>1, <1>4 DEF Unset
<1>7. DOMAIN seen = 1 .. n
  BY <1>4
<1> HIDE DEF seen
<1>8. Reads(b, seen, reach)
  BY <1>5, <1>6, <1>7, TokensRead
<1> QED
  BY <1>8 DEF seen

LEMMA PagedReads ==
    ASSUME Batch(round.batch)
    PROVE  Reads(round.batch, PagedSeen, MaxModelLen)
<1> DEFINE b == round.batch
<1>1. Tokens(b) \in Nat /\ Longest(b) <= MaxModelLen /\ MaxModelLen \in Nat
  BY BatchRows, LongestFacts, GraphReplayAssumption
<1>2. PagedSeen = [i \in 1 .. Tokens(b) |->
        [id |-> b[RowAt(Widths(b), i)].id,
         len |-> b[RowAt(Widths(b), i)].seq - b[RowAt(Widths(b), i)].q + i
                   - Ends(Widths(b))[RowAt(Widths(b), i) - 1]]]
  BY DEF PagedSeen
<1> HIDE DEF b
<1>3. Batch(b)
  BY DEF b
<1>4. Reads(b, PagedSeen, MaxModelLen)
  BY <1>1, <1>2, <1>3, TokensRead
<1> QED
  BY <1>4 DEF b

\* Without context before its queries a token's context is this round's.
LEMMA DenseReads ==
    ASSUME Batch(round.batch), ~Prefixed(round.batch)
    PROVE  Reads(round.batch, DenseSeen, MaxModelLen)
<1> DEFINE b == round.batch
           E == Ends(Widths(b))
           row(i) == RowAt(Widths(b), i)
<1>1. Tokens(b) \in Nat /\ Longest(b) <= MaxModelLen /\ MaxModelLen \in Nat
  BY BatchRows, LongestFacts, GraphReplayAssumption
<1>2. DenseSeen = [i \in 1 .. Tokens(b) |-> [id |-> b[row(i)].id, len |-> i - E[row(i) - 1]]]
  BY DEF DenseSeen
<1>3. \A j \in 1 .. Len(b) : b[j].seq = b[j].q /\ b[j].q \in Nat
  <2>1. \A r \in Range(b) : r.q = r.upper
    BY DEF Prefixed
  <2>2. \A j \in 1 .. Len(b) : Wellformed(b[j]) /\ b[j] \in Range(b)
    BY DEF Batch, Range
  <2> QED
    BY <2>1, <2>2 DEF Wellformed
<1> HIDE DEF b
<1>4. Batch(b)
  BY DEF b
<1>5. \A j \in 1 .. Len(b) : E[j - 1] \in Nat
  <2>1. Len(b) \in Nat /\ \A i \in 0 .. Len(b) : E[i] \in Nat
    BY <1>4, BatchRows, EndsFacts DEF Batch
  <2> QED
    BY <2>1
<1>6. ASSUME NEW i \in 1 .. Tokens(b)
      PROVE  DenseSeen[i] = [id |-> b[row(i)].id, len |-> b[row(i)].seq - b[row(i)].q + i - E[row(i) - 1]]
  <2> DEFINE j == row(i)
  <2>1. j \in 1 .. Len(b)
    BY <1>4, Located
  <2>2. DenseSeen[i] = [id |-> b[j].id, len |-> i - E[j - 1]]
    BY <1>2
  <2> HIDE DEF j, E
  <2>3. b[j].seq - b[j].q + i - E[j - 1] = i - E[j - 1]
    BY <1>1, <1>3, <1>5, <2>1
  <2>4. DenseSeen[i] = [id |-> b[j].id, len |-> b[j].seq - b[j].q + i - E[j - 1]]
    BY <2>2, <2>3
  <2> QED
    BY <2>4 DEF j, E
<1>7. DOMAIN DenseSeen = 1 .. Tokens(b) /\ \A i \in 1 .. Tokens(b) : i > Tokens(b) => DenseSeen[i].len = 0
  BY <1>1, <1>2
<1>8. Reads(b, DenseSeen, MaxModelLen)
  BY <1>1, <1>4, <1>6, <1>7, TokensRead
<1> QED
  BY <1>8 DEF b

\* A row for each request, where each has one token.
LEMMA SingleReads ==
    ASSUME NEW b, Batch(b), LongestQuery(b) = 1, NEW n \in Nat, Tokens(b) <= n,
           NEW reach \in Nat, Longest(b) <= reach
    PROVE  Reads(b, SingleRows(b, n), reach)
<1> DEFINE seen == SingleRows(b, n)
           E == Ends(Widths(b))
<1>1. Len(b) \in Nat \ {0} /\ DOMAIN b = 1 .. Len(b) /\ \A j \in 1 .. Len(b) : Wellformed(b[j])
  BY DEF Batch
<1>2. ASSUME NEW j \in 1 .. Len(b) PROVE b[j].q = 1
  <2>1. b[j].q <= LongestQuery(b)
    BY LongestFacts
  <2>2. b[j].q \in Nat \ {0}
    BY <1>1 DEF Wellformed
  <2> QED
    BY <2>1, <2>2
<1>3. \A j \in 0 .. Len(b) : E[j] = j
  BY <1>2, BatchRows, EndsOfOnes
<1>4. Tokens(b) = Len(b)
  BY <1>1, <1>3 DEF Tokens
<1>5. \A j \in 1 .. Len(b) : E[j - 1] = j - 1
  BY <1>1, <1>3
<1>6. seen = [i \in 1 .. n |-> IF i <= Len(b) THEN [id |-> b[i].id, len |-> b[i].seq] ELSE Unset]
  BY DEF SingleRows
<1> HIDE DEF E, seen
<1>7. ASSUME NEW j \in DOMAIN b, NEW o \in 1 .. b[j].q
      PROVE  seen[E[j - 1] + o] = [id |-> b[j].id, len |-> b[j].seq - b[j].q + o]
  <2>1. o = 1 /\ b[j].q = 1 /\ j \in 1 .. Len(b) /\ b[j].seq \in Nat
    BY <1>1, <1>2 DEF Wellformed
  <2>2. E[j - 1] + o = j /\ j \in 1 .. n /\ j <= Len(b) /\ b[j].seq - b[j].q + o = b[j].seq
    BY <1>1, <1>4, <1>5, <2>1
  <2>3. seen[j] = [id |-> b[j].id, len |-> b[j].seq]
    BY <1>6, <2>2
  <2> QED
    BY <2>2, <2>3
<1>8. ASSUME NEW i \in DOMAIN seen
      PROVE  (i > Tokens(b) => seen[i].len = 0) /\ seen[i].len <= reach
  <2>1. i \in 1 .. n
    BY <1>6
  <2>2. CASE i <= Len(b)
    <3>1. i \in 1 .. Len(b) /\ seen[i].len = b[i].seq
      BY <1>1, <1>6, <2>1, <2>2
    <3>2. b[i].seq <= b[i].upper /\ b[i].upper <= Longest(b) /\ b[i].seq \in Nat
          /\ b[i].upper \in Nat /\ Longest(b) \in Nat
      BY <1>1, <3>1, LongestFacts DEF Wellformed
    <3> QED
      BY <1>1, <1>4, <2>1, <2>2, <3>1, <3>2
  <2>3. CASE ~(i <= Len(b))
    BY <1>6, <2>1, <2>3 DEF Unset
  <2> QED
    BY <2>2, <2>3
<1> QED
  BY <1>7, <1>8 DEF Reads, E, seen

\* A replayed graph is bound to the buffers in use, and reaches every context.
LEMMA RecordedFacts ==
    ASSUME DOMAIN graphs \subseteq Descriptors, AttnInv, Batch(round.batch),
           round.batch # <<>>, Replayed
    PROVE  /\ Recorded.gen = gen /\ Recorded.part = Partitions(Recorded.cap)
           /\ Recorded.cap \in Nat /\ Longest(round.batch) <= Recorded.cap
<1> DEFINE d == round.how
           cap == IF d.bucket = 0 THEN MaxModelLen ELSE d.bucket
<1>1. d \in DOMAIN graphs /\ d.full
  BY DEF Replayed
<1>2. Recorded = Bound(d)
  BY <1>1 DEF Recorded, AttnInv
<1>3. Recorded.gen = gen /\ Recorded.cap = cap /\ Recorded.part = Partitions(cap)
  BY <1>2 DEF Bound
<1>4. d.bucket = 0 \/ Longest(round.batch) <= d.bucket
  BY <1>1 DEF AttnInv, Served, Takes
<1>5. d.bucket \in Nat /\ MaxModelLen \in Nat
  BY <1>1, GraphReplayAssumption DEF Descriptors, Piecewise, Full
<1>6. Longest(round.batch) \in Nat /\ Longest(round.batch) <= MaxModelLen
  BY LongestFacts
<1> QED
  BY <1>3, <1>4, <1>5, <1>6

LEMMA WideFacts ==
    ASSUME DOMAIN graphs \subseteq Descriptors, AttnInv, Batch(round.batch),
           round.batch # <<>>
    PROVE  Wide \in Nat /\ Tokens(round.batch) <= Wide
<1>1. Tokens(round.batch) \in Nat
  BY BatchRows
<1>2. CASE round.how.full
  <2>1. round.how \in DOMAIN graphs /\ Tokens(round.batch) <= round.how.n
    BY <1>2 DEF AttnInv, Served, Takes
  <2>2. round.how.n \in Nat
    BY <2>1, GraphReplayAssumption DEF Descriptors, Piecewise, Full
  <2> QED
    BY <1>2, <2>1, <2>2 DEF Wide
<1>3. CASE ~round.how.full
  BY <1>1, <1>3 DEF Wide
<1> QED
  BY <1>2, <1>3

\* The partitions counted for the longest context cover it, also when the launch
\* takes them to be as large as those of the longest context of its graph.
LEMMA PartitionsCover ==
    ASSUME NEW c \in Nat, NEW cap \in Nat, c <= cap,
           NEW n, n = (c + Partitions(c) - 1) \div Partitions(c)
    PROVE  /\ n * Partitions(c) \in Nat /\ c <= n * Partitions(c)
           /\ n * Partitions(cap) \in Nat /\ c <= n * Partitions(cap)
<1>1. CASE c >= 32768
  <2>1. Partitions(c) = 1024 /\ Partitions(cap) = 1024
    BY <1>1 DEF Partitions
  <2>2. n \in Nat /\ c <= n * 1024
    BY <2>1
  <2> QED
    BY <2>1, <2>2
<1>2. CASE ~(c >= 32768)
  <2>1. Partitions(c) = 256 /\ Partitions(cap) \in {256, 1024}
    BY <1>2 DEF Partitions
  <2>2. n \in Nat /\ c <= n * 256
    BY <2>1
  <2>3. n * 256 \in Nat /\ n * 1024 \in Nat /\ n * 256 <= n * 1024
    BY <2>2
  <2>4. Partitions(cap) = 256 \/ Partitions(cap) = 1024
    BY <2>1
  <2>5. CASE Partitions(cap) = 256
    BY <2>1, <2>2, <2>3, <2>5
  <2>6. CASE Partitions(cap) = 1024
    BY <2>1, <2>2, <2>3, <2>6
  <2> QED
    BY <2>4, <2>5, <2>6
<1> QED
  BY <1>1, <1>2

LEMMA SmallerOf ==
    ASSUME NEW x \in Nat, NEW y \in Nat
    PROVE  Min({x, y}) \in {x, y}
<1>1. \E z \in {x, y} : \A v \in {x, y} : z <= v
  OBVIOUS
<1> QED
  BY <1>1 DEF Min

LEMMA Reaches ==
    ASSUME DOMAIN graphs \subseteq Descriptors, AttnInv, Batch(round.batch),
           round.batch # <<>>
    PROVE  /\ SmallReach \in Nat /\ Longest(round.batch) <= SmallReach
           /\ LongestQuery(round.batch) = 1 =>
                SingleReach \in Nat /\ Longest(round.batch) <= SingleReach
<1> DEFINE c == Longest(round.batch)
           cap == Recorded.cap
<1>1. c \in Nat
  BY LongestFacts
<1>2. Replayed => cap \in Nat /\ c <= cap /\ Recorded.part = Partitions(cap)
  BY RecordedFacts
<1>3. SmallReach \in Nat /\ c <= SmallReach
  BY <1>1, <1>2 DEF SmallReach
<1>4. ASSUME LongestQuery(round.batch) = 1 PROVE SingleReach \in Nat /\ c <= SingleReach
  <2>1. CASE active = 0
    BY <1>1, <2>1 DEF SingleReach
  <2>2. CASE active # 0
    <3>1. active = (c + Partitions(c) - 1) \div Partitions(c)
      BY <1>4, <2>2 DEF AttnInv, Served
    <3>2. CASE ~Replayed
      <4>1. SingleReach = active * Partitions(c)
        BY <2>2, <3>2 DEF SingleReach
      <4> HIDE DEF c
      <4>2. active * Partitions(c) \in Nat /\ c <= active * Partitions(c)
        BY <1>1, <3>1, PartitionsCover
      <4> QED
        BY <4>1, <4>2
    <3>3. CASE Replayed
      <4>1. SingleReach = Min({cap, active * Recorded.part})
        BY <2>2, <3>3 DEF SingleReach
      <4> DEFINE p == active * Partitions(cap)
      <4>2. SingleReach = Min({cap, p})
        BY <1>2, <3>3, <4>1
      <4> HIDE DEF c, cap
      <4>3. p \in Nat /\ c <= p
        BY <1>1, <1>2, <3>1, <3>3, PartitionsCover
      <4> HIDE DEF p
      <4>4. Min({cap, p}) \in {cap, p}
        BY <1>2, <3>3, <4>3, SmallerOf
      <4> QED
        BY <1>2, <3>3, <4>2, <4>3, <4>4
    <3> QED
      BY <3>2, <3>3
  <2> QED
    BY <2>1, <2>2
<1> QED
  BY <1>3, <1>4

\* The persistent buffers hold the rows of the round.
LEMMA BufferedSmall ==
    ASSUME DOMAIN graphs \subseteq Descriptors, AttnInv, Batch(round.batch),
           round.batch # <<>>,
           LongestQuery(round.batch) \in 2 .. 16, Prefixed(round.batch)
    PROVE  SmallSeen = SmallRows(round.batch, Wide)
<1> DEFINE rows == SmallRows(round.batch, Wide)
<1>1. \A i \in 1 .. Wide : i \in DOMAIN small /\ small[i] = rows[i]
  BY DEF AttnInv, Served
<1>2. Replayed => Recorded.gen = gen
  BY RecordedFacts
<1>3. SmallSeen = Bufs(small)
  BY <1>1 DEF SmallSeen
<1>4. Bufs(small) = [i \in 1 .. Wide |-> small[i]]
  BY <1>2 DEF Bufs
<1>5. DOMAIN rows = 1 .. Wide /\ rows = [i \in 1 .. Wide |-> rows[i]]
  BY DEF SmallRows
<1> HIDE DEF rows
<1>6. [i \in 1 .. Wide |-> small[i]] = rows
  BY <1>1, <1>5
<1> QED
  BY <1>3, <1>4, <1>6 DEF rows

LEMMA BufferedSingle ==
    ASSUME DOMAIN graphs \subseteq Descriptors, AttnInv, Batch(round.batch),
           round.batch # <<>>, LongestQuery(round.batch) = 1
    PROVE  SingleSeen = SingleRows(round.batch, Wide)
<1> DEFINE rows == SingleRows(round.batch, Wide)
<1>1. CASE single = <<>>
  BY <1>1 DEF SingleSeen
<1>2. CASE single # <<>>
  <2>1. \A i \in 1 .. Wide : single[i] = rows[i]
    BY <1>2 DEF AttnInv, Served
  <2>2. Replayed => Recorded.gen = gen
    BY RecordedFacts
  <2>3. SingleSeen = [i \in 1 .. Wide |-> single[i]]
    BY <1>2, <2>2 DEF SingleSeen, Bufs
  <2>4. DOMAIN rows = 1 .. Wide /\ rows = [i \in 1 .. Wide |-> rows[i]]
    BY DEF SingleRows
  <2> HIDE DEF rows
  <2>5. SingleSeen = rows
    BY <2>1, <2>3, <2>4
  <2> QED
    BY <2>5 DEF rows
<1> QED
  BY <1>1, <1>2

LEMMA Attends ==
    ASSUME env \in Boots, DOMAIN graphs \subseteq Descriptors, AttnInv,
           round.batch # <<>> => Batch(round.batch)
    PROVE  TokensAttend
<1> SUFFICES ASSUME round.batch # <<>>
             PROVE  /\ Kernel = Route(round.batch, FALSE)
                    /\ Reads(round.batch, Seen(Kernel), Reach(Kernel))
  BY DEF TokensAttend, Reads
<1> DEFINE b == round.batch
<1>1. Batch(b)
  OBVIOUS
<1>2. Kernel = Route(b, FALSE)
  BY RecordedRoute
<1>3. LongestQuery(b) \in Nat \ {0}
  BY LongestFacts
<1>4. Wide \in Nat /\ Tokens(b) <= Wide
  BY WideFacts
<1>5. CASE LongestQuery(b) = 1
  <2>1. Kernel = "decode"
    BY <1>2, <1>5, RouteFacts
  <2>2. Seen(Kernel) = SingleSeen /\ Reach(Kernel) = SingleReach
    BY <2>1 DEF Seen, Reach
  <2>3. SingleSeen = SingleRows(b, Wide)
    BY <1>5, BufferedSingle
  <2>4. SingleReach \in Nat /\ Longest(b) <= SingleReach
    BY <1>5, Reaches
  <2>5. Reads(b, SingleRows(b, Wide), SingleReach)
    BY <1>4, <1>5, <2>4, SingleReads
  <2> QED
    BY <1>2, <2>2, <2>3, <2>5
<1>6. CASE LongestQuery(b) \in 2 .. 16 /\ Prefixed(b)
  <2>1. Kernel = "smallq"
    BY <1>2, <1>6, RouteFacts
  <2>2. Seen(Kernel) = SmallSeen /\ Reach(Kernel) = SmallReach
    BY <2>1 DEF Seen, Reach
  <2>3. SmallSeen = SmallRows(b, Wide)
    BY <1>6, BufferedSmall
  <2>4. SmallReach \in Nat /\ Longest(b) <= SmallReach
    BY Reaches
  <2>5. Reads(b, SmallRows(b, Wide), SmallReach)
    BY <1>4, <2>4, SmallReads
  <2> QED
    BY <1>2, <2>2, <2>3, <2>5
<1>7. CASE LongestQuery(b) > 16 /\ Prefixed(b)
  <2>1. Kernel = "paged"
    BY <1>2, <1>7, RouteFacts
  <2>2. Seen(Kernel) = PagedSeen /\ Reach(Kernel) = MaxModelLen
    BY <2>1 DEF Seen, Reach
  <2> QED
    BY <1>2, <2>2, PagedReads
<1>8. CASE LongestQuery(b) # 1 /\ ~Prefixed(b)
  <2>1. Kernel = "dense"
    BY <1>2, <1>8, RouteFacts
  <2>2. Seen(Kernel) = DenseSeen /\ Reach(Kernel) = MaxModelLen
    BY <2>1 DEF Seen, Reach
  <2> QED
    BY <1>2, <1>8, <2>2, DenseReads
<1>9. \/ LongestQuery(b) = 1
      \/ LongestQuery(b) \in 2 .. 16 /\ LongestQuery(b) # 1
      \/ LongestQuery(b) > 16 /\ LongestQuery(b) # 1
  BY <1>3
<1>10. Prefixed(b) \/ ~Prefixed(b)
  OBVIOUS
<1> HIDE DEF b
<1> QED
  BY <1>5, <1>6, <1>7, <1>8, <1>9, <1>10, Zenon DEF b

LEMMA BoundKept ==
    ASSUME env' = env, gen' = gen, NEW d
    PROVE  Bound(d)' = Bound(d)
BY DEF Bound, Dummy, DummyUpper, QueryLen

\* Serving a batch leaves the buffers as Served says.
LEMMA ServeServes ==
    ASSUME env \in Boots, DOMAIN graphs \subseteq Descriptors, Serve
    PROVE  Served'
<1> USE DEF weights
<1>1. PICK batch \in Batches[env.drafts] :
        LET d == Dispatch(batch) IN
        /\ Build(batch, IF d.full THEN d.n ELSE Tokens(batch), FALSE)
        /\ round' = [batch |-> batch, how |-> d]
  BY DEF Serve
<1> DEFINE d == Dispatch(batch)
           n == IF d.full THEN d.n ELSE Tokens(batch)
           q == LongestQuery(batch)
           size == Partitions(Longest(batch))
<1>2. env' = env /\ graphs' = graphs /\ round'.batch = batch /\ round'.how = d
  BY <1>1 DEF Serve
<1>3. Tokens(batch) \in Nat
  BY BatchFacts, BatchRows
<1>4. d.full => d \in DOMAIN graphs /\ Takes(d, batch)
  BY <1>3, DispatchFinds
<1>5. small' = BuildSmall(batch, n, FALSE) /\ single' = BuildSingle(batch, n, FALSE)
      /\ active' = BuildActive(batch, FALSE)
  BY <1>1 DEF Build
<1>6. ASSUME q \in 2 .. 16, Prefixed(batch), NEW i \in 1 .. n
      PROVE  i \in DOMAIN small' /\ small'[i] = SmallRows(batch, n)[i]
  <2>1. small' = Copied(SmallRows(batch, n), small)
    BY <1>5, <1>6 DEF BuildSmall
  <2>2. DOMAIN SmallRows(batch, n) = 1 .. n
    BY DEF SmallRows
  <2> QED
    BY <2>1, <2>2 DEF Copied
<1>7. ASSUME q = 1, single' # <<>>, NEW i \in 1 .. n
      PROVE  single'[i] = SingleRows(batch, n)[i]
  <2>1. single' = Copied(SingleRows(batch, n), single)
    BY <1>5, <1>7 DEF BuildSingle
  <2>2. DOMAIN SingleRows(batch, n) = 1 .. n
    BY DEF SingleRows
  <2> QED
    BY <2>1, <2>2 DEF Copied
<1>8. ASSUME q = 1, active' # 0
      PROVE  active' = (Longest(batch) + size - 1) \div size
  BY <1>5, <1>8 DEF BuildActive
<1>9. Wide' = n
  BY <1>2 DEF Wide
<1>10. Takes(d, batch) => (Takes(round.how, round.batch))'
  BY <1>2 DEF Takes, Uniform, QueryLen
<1> QED
  BY <1>2, <1>4, <1>6, <1>7, <1>8, <1>9, <1>10 DEF Served

LEMMA AttnStep ==
    ASSUME GInv, LaunchInv, AttnInv, [Next]_vars
    PROVE  AttnInv'
<1> USE DEF weights, verdict, builder
<1>1. env' = env
  BY DEF Next, vars, Load, Profile, Warm, Capture, EndEstimate, Pool, Ready, Serve
<1>2. ASSUME round'.batch = <<>> PROVE Served'
  BY <1>2 DEF Served
<1>3. ASSUME gen' = gen, graphs' = graphs
      PROVE  \A d \in DOMAIN graphs' : graphs'[d].attn = Bound(d)'
  BY <1>1, <1>3, BoundKept DEF AttnInv
<1>4. ASSUME graphs' = <<>>
      PROVE  \A d \in DOMAIN graphs' : graphs'[d].attn = Bound(d)'
  BY <1>4
<1>5. round.batch # <<>> => pc = "serve"
  BY DEF LaunchInv
<1>6. CASE Load \/ Profile \/ Pool
  <2>1. graphs' = graphs /\ graphs = <<>> /\ round' = round /\ pc # "serve"
    BY <1>6 DEF Load, Profile, Pool, AttnInv
  <2> QED
    BY <1>2, <1>4, <1>5, <2>1 DEF AttnInv
<1>7. CASE Warm
  <2>1. graphs' = graphs /\ gen' = gen /\ round'.batch = <<>> /\ pc' = pc
        /\ pc \in {"estimate", "capture"}
    BY <1>7 DEF Warm
  <2> QED
    BY <1>2, <1>3, <2>1 DEF AttnInv
<1>8. CASE Capture
  <2> DEFINE d == round.how
  <2>1. /\ pc' = pc /\ pc \in {"estimate", "capture"} /\ round' = Nobody /\ gen' = gen
        /\ graphs' = [x \in DOMAIN graphs \union {d} |->
                IF x \in DOMAIN graphs THEN graphs[x] ELSE [lin |-> lin', attn |-> Bound(d)]]
    BY <1>8 DEF Capture
  <2>2. round'.batch = <<>>
    BY <2>1 DEF Nobody
  <2>3. ASSUME NEW x \in DOMAIN graphs' PROVE graphs'[x].attn = Bound(x)
    BY <2>1, <2>3 DEF AttnInv
  <2>4. ASSUME NEW x PROVE Bound(x)' = Bound(x)
    BY <1>1, <2>1, BoundKept
  <2> QED
    BY <1>2, <2>1, <2>2, <2>3, <2>4 DEF AttnInv
<1>9. CASE EndEstimate
  <2>1. graphs' = <<>> /\ round' = round /\ pc # "serve"
    BY <1>9 DEF EndEstimate, ClearGraphs
  <2> QED
    BY <1>2, <1>4, <1>5, <2>1 DEF AttnInv
<1>10. CASE Ready
  <2>1. graphs' = graphs /\ gen' = gen /\ round' = round /\ pc = "capture" /\ pc' = "serve"
    BY <1>10 DEF Ready
  <2> QED
    BY <1>2, <1>3, <1>5, <2>1 DEF AttnInv
<1>11. CASE Serve
  <2>1. Served'
    BY <1>11, ServeServes DEF GInv, Types, LaunchInv
  <2>2. graphs' = graphs /\ gen' = gen /\ pc = "serve" /\ pc' = "serve"
    BY <1>11 DEF Serve
  <2> QED
    BY <1>3, <2>1, <2>2 DEF AttnInv
<1>12. CASE UNCHANGED vars
  <2>1. graphs' = graphs /\ gen' = gen /\ pc' = pc /\ Served'
    BY <1>12 DEF vars, AttnInv, Served, Wide, Takes, Uniform, QueryLen
  <2> QED
    BY <1>3, <2>1 DEF AttnInv
<1> QED
  BY <1>6, <1>7, <1>8, <1>9, <1>10, <1>11, <1>12 DEF Next

\* Every token that is served attends to its own request up to its own position
\* and the padding to nothing, whether the round is replayed or run eagerly: for
\* every boot, any graph sizes and buckets, and batches of any requests the
\* constants allow.
THEOREM TokensAreAttended == Spec => []TokensAttend
<1>1. Init => AttnInv
  <2> SUFFICES ASSUME Init PROVE AttnInv
    OBVIOUS
  <2>1. DOMAIN graphs = {} /\ graphs = <<>> /\ round.batch = <<>>
    BY DEF Init, Nobody
  <2> QED
    BY <2>1 DEF AttnInv, Served
<1>2. GInv /\ LaunchInv /\ AttnInv /\ [Next]_vars => AttnInv'
  BY AttnStep
<1>3. ASSUME GInv, LaunchInv, AttnInv PROVE TokensAttend
  <2>1. env \in Boots /\ DOMAIN graphs \subseteq Descriptors
    BY <1>3 DEF GInv, Types, LaunchInv
  <2>2. round.batch # <<>> => Batch(round.batch)
    BY <1>3, <2>1, BatchFacts DEF LaunchInv
  <2> QED
    BY <1>3, <2>1, <2>2, Attends
<1> QED
  BY <1>1, <1>2, <1>3, Invariant, LaunchInvariant, PTL DEF Spec

-----------------------------------------------------------------------------
(* The self-check and the graphs.                                          *)

\* In every boot that drops Marlin's copies, at most two layers keep theirs:
\* the loader packs all the others.
FewUnpacked ==
    \A e \in Boots : e.unify =>
        Cardinality({i \in Layers : Model[i].kind = "fp4" /\ ~(e.qpn /\ Packable(Model[i]))}) < 3

Refutable == Guarded \union {"unpack_wmma"}
Holds(d) == \E i \in Layers : graphs[d].lin[i].kernel \in Refutable

\* The layers whose first results are compared with Marlin's.
Comparable == {i \in Layers : Model[i].kind = "fp4" /\ "marlin" \in held[i]}
Watched == pc # "load" /\ ~env.compiled /\ Cardinality(Comparable) >= 3

\* The verdict is in before a pass is recorded at a size the check looks at;
\* afterwards nothing is compared, so nothing can be refuted.
VerdictInv ==
    /\ checks \in Nat
    /\ pc \notin {"estimate", "capture", "serve"} => round = Nobody
    /\ Watched =>
        /\ pc \in {"estimate", "capture"} /\ round # Nobody /\ round.how.n <= 64 =>
                checks >= 3 \/ ~ok
        /\ \A d \in DOMAIN graphs : Holds(d) => ok /\ checks >= 3

LEMMA LayersFinite ==
    /\ IsFiniteSet(Layers)
    /\ \A S \in SUBSET Layers : IsFiniteSet(S) /\ Cardinality(S) \in Nat
    /\ \A S \in SUBSET Layers : \A T \in SUBSET S : Cardinality(T) <= Cardinality(S)
<1>1. IsFiniteSet(Layers)
  <2>1. Layers = 1 .. Len(Model) /\ Len(Model) \in Nat
    BY ModelLayers, GraphReplayAssumption
  <2> QED
    BY <2>1, FS_Interval
<1>2. ASSUME NEW S \in SUBSET Layers PROVE IsFiniteSet(S) /\ Cardinality(S) \in Nat
  BY <1>1, FS_Subset, FS_CardinalityType
<1>3. ASSUME NEW S \in SUBSET Layers, NEW T \in SUBSET S PROVE Cardinality(T) <= Cardinality(S)
  BY <1>2, FS_Subset
<1> QED
  BY <1>1, <1>2, <1>3

\* Of three layers or more, the first three are the first, second and third.
LEMMA FirstThree ==
    ASSUME NEW C \in SUBSET Layers, Cardinality(C) >= 3
    PROVE  \E a \in C, b \in C, c \in C :
             /\ a < b /\ b < c
             /\ {j \in C : j <= a} = {a} /\ {j \in C : j <= b} = {a, b}
             /\ {j \in C : j <= c} = {a, b, c}
<1>1. Layers \in SUBSET Nat /\ IsFiniteSet(C)
  <2>1. Layers = 1 .. Len(Model) /\ Len(Model) \in Nat
    BY ModelLayers, GraphReplayAssumption
  <2> QED
    BY <2>1, LayersFinite
<1>2. ASSUME NEW x, NEW y PROVE C \ {x} # {} /\ C \ {x, y} # {} /\ C # {}
  <2>1. IsFiniteSet({x, y}) /\ Cardinality({x, y}) \in Nat /\ Cardinality({x, y}) <= 2
    <3>1. {x, y} = {x} \union {y} /\ IsFiniteSet({x}) /\ Cardinality({x}) = 1
      BY FS_Singleton
    <3> QED
      BY <3>1, FS_AddElement
  <2>2. SUFFICES ASSUME C \subseteq {x, y} PROVE FALSE
    OBVIOUS
  <2>3. Cardinality(C) <= Cardinality({x, y}) /\ Cardinality(C) \in Nat
    BY <1>1, <2>1, <2>2, FS_Subset, FS_CardinalityType
  <2> QED
    BY <2>1, <2>3
<1>3. PICK a \in C : \A y \in C : a <= y
  <2>1. C \in SUBSET Nat /\ C # {}
    BY <1>1, <1>2
  <2> QED
    BY <2>1, LeastExists
<1>4. PICK b \in C \ {a} : \A y \in C \ {a} : b <= y
  <2>1. C \ {a} \in SUBSET Nat /\ C \ {a} # {}
    BY <1>1, <1>2
  <2> QED
    BY <2>1, LeastExists
<1>5. PICK c \in C \ {a, b} : \A y \in C \ {a, b} : c <= y
  <2>1. C \ {a, b} \in SUBSET Nat /\ C \ {a, b} # {}
    BY <1>1, <1>2
  <2> QED
    BY <2>1, LeastExists
<1>6. C \in SUBSET Nat /\ a \in Nat /\ b \in Nat /\ c \in Nat
  BY <1>1
<1>7. a < b /\ b < c
  BY <1>3, <1>4, <1>5, <1>6
<1>8. {j \in C : j <= a} = {a} /\ {j \in C : j <= b} = {a, b} /\ {j \in C : j <= c} = {a, b, c}
  <2>1. ASSUME NEW j \in C
        PROVE  (j <= a <=> j = a) /\ (j <= b <=> j \in {a, b}) /\ (j <= c <=> j \in {a, b, c})
    BY <1>3, <1>4, <1>5, <1>6, <1>7
  <2> QED
    BY <2>1
<1> QED
  BY <1>7, <1>8

\* With three layers to compare, a pass the check looks at that refutes none
\* uses up the comparisons that are left.
LEMMA ChecksSpent ==
    ASSUME checks \in Nat, ok, ~env.compiled, Cardinality(Comparable) >= 3,
           NEW m \in Nat, m <= 64
    PROVE  checks + Cardinality(Checked(m, FALSE)) >= 3
<1> DEFINE C == Comparable
           S == Checked(m, FALSE)
           rank(i) == Cardinality({j \in 1 .. i : Checkable(j, m)})
<1>1. C \in SUBSET Layers /\ S \in SUBSET Layers
  BY DEF Comparable, Checked
<1>2. PICK a \in C, b \in C, c \in C :
             /\ a < b /\ b < c
             /\ {j \in C : j <= a} = {a} /\ {j \in C : j <= b} = {a, b}
             /\ {j \in C : j <= c} = {a, b, c}
  BY <1>1, FirstThree
<1>3. ASSUME NEW i \in Layers
      PROVE  {j \in 1 .. i : Checkable(j, m)} = {j \in C : j <= i}
  <2>1. Layers = 1 .. Len(Model) /\ Len(Model) \in Nat
    BY ModelLayers, GraphReplayAssumption
  <2>2. 1 .. i \subseteq Layers /\ \A j \in Layers : j \in 1 .. i <=> j <= i
    BY <2>1
  <2>3. \A j \in Layers : Checkable(j, m) <=> j \in C
    BY DEF Checkable, Comparable, SkinnyMaxM
  <2> QED
    BY <1>1, <2>2, <2>3
<1>4. a # b /\ a # c /\ b # c
  <2>1. a \in Nat /\ b \in Nat /\ c \in Nat
    BY <1>1, ModelLayers, GraphReplayAssumption
  <2> QED
    BY <1>2, <2>1
<1>5. Cardinality({a}) = 1 /\ Cardinality({a, b}) = 2 /\ Cardinality({a, b, c}) = 3
  <2>1. IsFiniteSet({a}) /\ Cardinality({a}) = 1
    BY FS_Singleton
  <2>2. {a, b} = {a} \union {b} /\ {a, b, c} = {a, b} \union {c}
    OBVIOUS
  <2>3. IsFiniteSet({a, b}) /\ Cardinality({a, b}) = 2
    <3>1. b \notin {a}
      BY <1>4
    <3>2. IsFiniteSet({a} \union {b}) /\ Cardinality({a} \union {b}) = Cardinality({a}) + 1
      BY <2>1, <3>1, FS_AddElement
    <3> QED
      BY <2>1, <2>2, <3>2
  <2>4. c \notin {a, b}
    BY <1>4
  <2>5. Cardinality({a, b} \union {c}) = Cardinality({a, b}) + 1
    BY <2>3, <2>4, FS_AddElement
  <2> QED
    BY <2>1, <2>2, <2>3, <2>5
<1>6. rank(a) = 1 /\ rank(b) = 2 /\ rank(c) = 3
  BY <1>1, <1>2, <1>3, <1>5
<1>7. \A i \in C : Checkable(i, m) /\ i \in Layers
  BY DEF Checkable, Comparable, SkinnyMaxM
<1>8. \A i \in C : rank(i) <= 3 - checks => i \in S
  BY <1>7 DEF Checked
<1> HIDE DEF S, C, rank
<1>9. \A T \in SUBSET S : Cardinality(S) \in Nat /\ Cardinality(T) <= Cardinality(S)
  BY <1>1, LayersFinite
<1>10. checks + Cardinality(S) >= 3
  <2>1. Cardinality(S) \in Nat
    BY <1>9
  <2>2. CASE checks = 0
    <3>1. {a, b, c} \in SUBSET S
      BY <1>6, <1>8, <2>2
    <3>2. 3 <= Cardinality(S)
      BY <1>5, <1>9, <3>1
    <3> QED
      BY <2>1, <2>2, <3>2
  <2>3. CASE checks = 1
    <3>1. {a, b} \in SUBSET S
      BY <1>6, <1>8, <2>3
    <3>2. 2 <= Cardinality(S)
      BY <1>5, <1>9, <3>1
    <3> QED
      BY <2>1, <2>3, <3>2
  <2>4. CASE checks = 2
    <3>1. {a} \in SUBSET S
      BY <1>6, <1>8, <2>4
    <3>2. 1 <= Cardinality(S)
      BY <1>5, <1>9, <3>1
    <3> QED
      BY <2>1, <2>4, <3>2
  <2>5. CASE checks >= 3
    BY <2>1, <2>5
  <2> QED
    BY <2>2, <2>3, <2>4, <2>5
<1> QED
  BY <1>10 DEF S

\* One pass, as far as the self-check goes.
LEMMA ForwardChecks ==
    ASSUME checks \in Nat, ok \in BOOLEAN, NEW m, NEW capturing \in BOOLEAN,
           Forward(m, capturing)
    PROVE  /\ checks' \in Nat /\ checks' >= checks
           /\ capturing => ok' = ok
           /\ ok /\ ~ok' => checks < 3
           /\ (ok' /\ ~capturing /\ m \in Nat /\ m <= 64 /\ ~env.compiled
                   /\ Cardinality(Comparable) >= 3)
                => checks' >= 3
<1> DEFINE C == Checked(m, capturing)
           rank(i) == Cardinality({j \in 1 .. i : Checkable(j, m)})
           Compared(f) == {i \in C : f = 0 \/ i <= f}
<1>1. PICK fails \in {0} \union C : /\ ok' = (ok /\ fails = 0)
                                    /\ checks' = checks + Cardinality(Compared(fails))
  BY DEF Forward
<1>2. C \in SUBSET Layers /\ Compared(fails) \in SUBSET Layers
  BY DEF Checked
<1>3. Cardinality(Compared(fails)) \in Nat
  BY <1>2, LayersFinite
<1>4. checks' \in Nat /\ checks' >= checks
  BY <1>1, <1>3
<1>5. capturing => C = {}
  BY DEF Checked
<1>6. capturing => ok' = ok
  BY <1>1, <1>5
<1>7. ASSUME ok, ~ok' PROVE checks < 3
  <2>1. fails \in C
    BY <1>1, <1>7
  <2>2. rank(fails) <= 3 - checks /\ Checkable(fails, m) /\ fails \in Layers
    BY <2>1 DEF Checked
  <2>3. fails \in Nat /\ fails >= 1 /\ 1 .. fails \in SUBSET Layers
    <3>1. Layers = 1 .. Len(Model) /\ Len(Model) \in Nat
      BY ModelLayers, GraphReplayAssumption
    <3> QED
      BY <2>2, <3>1
  <2>4. rank(fails) \in Nat /\ rank(fails) # 0
    <3> DEFINE J == {j \in 1 .. fails : Checkable(j, m)}
    <3>1. J \in SUBSET Layers /\ fails \in J
      BY <2>2, <2>3
    <3>2. IsFiniteSet(J) /\ Cardinality(J) \in Nat
      BY <3>1, LayersFinite
    <3> QED
      BY <3>1, <3>2, FS_EmptySet
  <2> HIDE DEF rank
  <2> QED
    BY <2>2, <2>4
<1>8. ASSUME ok', ~capturing, m \in Nat, m <= 64, ~env.compiled, Cardinality(Comparable) >= 3
      PROVE  checks' >= 3
  <2>1. ok /\ fails = 0 /\ capturing = FALSE
    BY <1>1, <1>8
  <2>2. Compared(fails) = Checked(m, FALSE)
    BY <2>1
  <2>3. checks + Cardinality(Checked(m, FALSE)) >= 3
    BY <1>8, <2>1, ChecksSpent
  <2> HIDE DEF Compared
  <2> QED
    BY <1>1, <2>2, <2>3
<1> QED
  BY <1>4, <1>6, <1>7, <1>8

\* A kernel the check may refute is launched only while it has not, and, unless
\* Marlin's copies are dropped, only at a size the check looks at.
LEMMA RefutableLaunch ==
    ASSUME NEW l, NEW e, NEW copies, ~e.unify, NEW m \in Nat, NEW o \in BOOLEAN, NEW capturing,
           \/ copies = {"raw"} /\ l.kind = "fp8"
           \/ copies = CopiesOf(l, e),
           LayerLaunch(l, m, copies, o, capturing).kernel \in Refutable
    PROVE  o /\ m <= 64
<1>1. \A kernel, copy, cfg, mt, r : /\ Plain(kernel, copy, r).kernel = kernel
                                    /\ Launch(kernel, copy, r, cfg, mt).kernel = kernel
  BY DEF Plain, Launch
<1>2. l.kind # "fp8"
  <2>1. Fp8Launch(l, m, copies).kernel \in {"reference", "qpn8", "qpn8_mtt", "qpn8_dequant"}
    BY <1>1 DEF Fp8Launch
  <2> QED
    BY <2>1 DEF LayerLaunch, Refutable, Guarded
<1>3. "marlin" \in copies
  BY <1>2 DEF CopiesOf
<1> DEFINE route == SkinnyRoute(l, m, copies)
           a == Fp4Launch(l, m, copies, o, capturing)
<1>4. route.kernel # "none" => m <= 64
  BY <1>1 DEF SkinnyRoute, SkinnyMaxM
<1>5. \/ a = route /\ o /\ route.kernel # "none"
      \/ a = Plain("dequant", "qpn", m)
      \/ a = Plain("marlin", "marlin", m)
  BY <1>3 DEF Fp4Launch
<1>6. a.kernel \in Refutable
  BY <1>2 DEF LayerLaunch
<1> HIDE DEF a, route
<1> QED
  BY <1>1, <1>4, <1>5, <1>6 DEF Refutable, Guarded

\* A boot that has three layers to compare keeps every Marlin copy.
LEMMA WatchedKeepsMarlin ==
    ASSUME FewUnpacked, GInv, Watched
    PROVE  ~env.unify
<1> SUFFICES ASSUME env.unify PROVE FALSE
  OBVIOUS
<1> DEFINE F == {i \in Layers : Model[i].kind = "fp4" /\ ~(env.qpn /\ Packable(Model[i]))}
<1>1. env \in Boots /\ pc # "load"
  BY DEF GInv, Types, Watched
<1>2. ASSUME NEW i \in Comparable PROVE i \in F
  <2>1. i \in Layers /\ Model[i].kind = "fp4" /\ "marlin" \in held[i]
    BY DEF Comparable
  <2>2. held[i] = CopiesOf(Model[i], env)
    BY <1>1, <2>1 DEF GInv, Loaded
  <2> QED
    BY <2>1, <2>2 DEF CopiesOf
<1>3. F \in SUBSET Layers /\ Comparable \in SUBSET F
  BY <1>2
<1>4. Cardinality(Comparable) <= Cardinality(F) /\ Cardinality(F) \in Nat
      /\ Cardinality(Comparable) \in Nat
  BY <1>3, LayersFinite
<1>5. Cardinality(F) < 3
  BY <1>1 DEF FewUnpacked
<1> QED
  BY <1>4, <1>5 DEF Watched

\* A step that captures nothing, and whose pass refutes only what was counted.
LEMMA VerdictKept ==
    ASSUME VerdictInv, Watched' => Watched, ok \in BOOLEAN, ok' \in BOOLEAN,
           DOMAIN graphs' \subseteq DOMAIN graphs, \A d \in DOMAIN graphs' : graphs'[d] = graphs[d],
           checks' \in Nat, checks' >= checks, ok /\ ~ok' => checks < 3,
           pc' \notin {"estimate", "capture", "serve"} => round' = Nobody,
           Watched /\ pc' \in {"estimate", "capture"} /\ round' # Nobody /\ round'.how.n <= 64 =>
                checks' >= 3 \/ ~ok'
    PROVE  VerdictInv'
<1>1. ASSUME Watched', NEW d \in DOMAIN graphs', Holds(d)' PROVE ok' /\ checks' >= 3
  <2>1. Watched /\ d \in DOMAIN graphs /\ Holds(d)
    BY <1>1 DEF Holds, Layers
  <2>2. ok /\ checks >= 3 /\ checks \in Nat
    BY <2>1 DEF VerdictInv
  <2> QED
    BY <2>2
<1> QED
  BY <1>1 DEF VerdictInv

LEMMA VerdictStep ==
    ASSUME FewUnpacked, GInv, VerdictInv, [Next]_vars
    PROVE  VerdictInv'
<1> USE DEF weights, verdict, builder
<1>1. env' = env
  BY DEF Next, vars, Load, Profile, Warm, Capture, EndEstimate, Pool, Ready, Serve
<1>2. ok \in BOOLEAN /\ checks \in Nat /\ TRUE \in BOOLEAN /\ FALSE \in BOOLEAN
  BY DEF GInv, Types, VerdictInv
<1>3. ASSUME held' = held, pc # "load" PROVE Watched' => Watched
  BY <1>1, <1>3 DEF Watched, Comparable, Layers
<1>4. CASE Load
  <2>1. graphs' = <<>> /\ checks' = checks /\ pc' = "profile" /\ round' = round /\ pc = "load"
    BY <1>4 DEF Load, GInv, Loaded
  <2>2. round = Nobody
    BY <2>1 DEF VerdictInv
  <2> QED
    BY <1>2, <2>1, <2>2 DEF VerdictInv, Nobody, Eager
<1>5. CASE Profile
  <2>1. Forward(MaxTokens, FALSE)
    BY <1>5 DEF Profile
  <2>2. checks' \in Nat /\ checks' >= checks /\ (ok /\ ~ok' => checks < 3) /\ ok' \in BOOLEAN
    BY <1>2, <2>1, ForwardChecks, ForwardLaunches
  <2>3. /\ pc = "profile" /\ pc' \in {"estimate", "pool"} /\ held' = held /\ graphs' = graphs
        /\ round' = round
    BY <1>5 DEF Profile
  <2>4. round' = Nobody
    BY <2>3 DEF VerdictInv
  <2> QED
    BY <1>2, <1>3, <2>2, <2>3, <2>4, VerdictKept
<1>6. CASE Warm
  <2>1. PICK d \in todo : Forward(d.n, FALSE) /\ round' = [batch |-> <<>>, how |-> d]
    BY <1>6 DEF Warm
  <2>2. pc \in {"estimate", "capture"} /\ pc' = pc /\ held' = held /\ graphs' = graphs
    BY <1>6 DEF Warm
  <2>3. d.n \in Nat
    BY <2>1, DescriptorRows DEF GInv, Types
  <2>4. checks' \in Nat /\ checks' >= checks /\ (ok /\ ~ok' => checks < 3) /\ ok' \in BOOLEAN
    BY <1>2, <2>1, ForwardChecks, ForwardLaunches
  <2>5. round'.how = d
    BY <2>1
  <2>6. ASSUME Watched, ok', d.n <= 64 PROVE checks' >= 3
    BY <1>2, <2>1, <2>3, <2>6, ForwardChecks DEF Watched
  <2> QED
    BY <1>2, <1>3, <2>2, <2>4, <2>5, <2>6, VerdictKept
<1>7. CASE Capture
  <2> DEFINE d == round.how
  <2>1. /\ pc \in {"estimate", "capture"} /\ round # Nobody /\ Forward(d.n, TRUE)
        /\ graphs' = [x \in DOMAIN graphs \union {d} |->
                IF x \in DOMAIN graphs THEN graphs[x] ELSE [lin |-> lin', attn |-> Bound(d)]]
        /\ round' = Nobody /\ pc' = pc /\ held' = held
    BY <1>7 DEF Capture
  <2>2. d \in Descriptors /\ d.n \in Nat
    BY <2>1, DescriptorRows DEF GInv, Types
  <2>3. checks' \in Nat /\ checks' >= checks /\ ok' = ok
    BY <1>2, <2>1, ForwardChecks
  <2>4. PICK o \in [Layers -> BOOLEAN] :
          /\ lin' = [i \in Layers |-> LayerLaunch(Model[i], d.n, held[i], o[i], TRUE)]
          /\ \A i \in Layers : (~o[i] => ~ok') /\ (o[i] => ok)
    BY <1>2, <2>1, ForwardLaunches
  <2>5. ASSUME Watched, NEW e \in DOMAIN graphs', Holds(e)' PROVE ok' /\ checks' >= 3
    <3>1. CASE e \in DOMAIN graphs
      <4>1. graphs'[e] = graphs[e]
        BY <2>1, <3>1
      <4>2. Holds(e)
        BY <2>5, <4>1 DEF Holds, Layers
      <4>3. ok /\ checks >= 3
        BY <2>5, <3>1, <4>2 DEF VerdictInv
      <4> QED
        BY <1>2, <2>3, <4>3
    <3>2. CASE e \notin DOMAIN graphs
      <4>1. graphs'[e].lin = lin' /\ e = d
        BY <2>1, <2>5, <3>2
      <4>2. PICK i \in Layers : graphs'[e].lin[i].kernel \in Refutable
        BY <2>5 DEF Holds, Layers
      <4>3. LayerLaunch(Model[i], d.n, held[i], o[i], TRUE).kernel \in Refutable
        BY <2>4, <4>1, <4>2
      <4>4. ~env.unify
        BY <2>5, WatchedKeepsMarlin
      <4>5. \/ held[i] = {"raw"} /\ Model[i].kind = "fp8"
            \/ held[i] = CopiesOf(Model[i], env)
        BY <2>1 DEF GInv, Loaded
      <4>6. o[i] /\ d.n <= 64
        BY <2>2, <4>3, <4>4, <4>5, RefutableLaunch
      <4>7. ok /\ checks >= 3
        BY <2>1, <2>4, <2>5, <4>6 DEF VerdictInv
      <4> QED
        BY <1>2, <2>3, <4>7
    <3> QED
      BY <3>1, <3>2
  <2>6. Watched' => Watched
    BY <1>3, <2>1
  <2> HIDE DEF d
  <2> QED
    BY <2>1, <2>3, <2>5, <2>6 DEF VerdictInv, Nobody, Eager
<1>8. CASE EndEstimate \/ Pool \/ Ready
  <2>1. /\ pc \in {"estimate", "pool", "capture"} /\ pc' \in {"pool", "capture", "serve"}
        /\ held' = held /\ (graphs' = graphs \/ graphs' = <<>>)
        /\ ok' = ok /\ checks' = checks /\ round' = round
    BY <1>8 DEF EndEstimate, ClearGraphs, Pool, Ready
  <2>2. round = Nobody
    BY <1>8 DEF EndEstimate, Pool, Ready, VerdictInv
  <2> QED
    BY <1>2, <1>3, <2>1, <2>2, VerdictKept
<1>9. CASE Serve
  <2>1. pc = "serve" /\ pc' = "serve" /\ held' = held /\ graphs' = graphs
    BY <1>9 DEF Serve
  <2>2. (ok' = ok /\ checks' = checks) \/ \E m : Forward(m, FALSE)
    BY <1>9 DEF Serve
  <2>3. checks' \in Nat /\ checks' >= checks /\ (ok /\ ~ok' => checks < 3) /\ ok' \in BOOLEAN
    <3>1. CASE ok' = ok /\ checks' = checks
      BY <1>2, <3>1
    <3>2. CASE \E m : Forward(m, FALSE)
      BY <1>2, <3>2, ForwardChecks, ForwardLaunches
    <3> QED
      BY <2>2, <3>1, <3>2
  <2> QED
    BY <1>2, <1>3, <2>1, <2>3, VerdictKept
<1>10. CASE UNCHANGED vars
  BY <1>10 DEF vars, VerdictInv, Watched, Comparable, Holds, Layers, Nobody, Eager
<1> QED
  BY <1>4, <1>5, <1>6, <1>7, <1>8, <1>9, <1>10 DEF Next

\* Once the self-check has refuted the skinny kernels, no graph replays one: the
\* verdict is in before the first such kernel is recorded, for every model with
\* three layers to compare, any capture sizes, and a graph estimate or none.
THEOREM VerdictIsInTime ==
    ASSUME FewUnpacked PROVE Spec => []VerdictBeforeGraphs
<1>1. Init => VerdictInv
  BY DEF Init, VerdictInv, Watched
<1>2. GInv /\ VerdictInv /\ [Next]_vars => VerdictInv'
  BY VerdictStep
<1>3. ASSUME GInv, VerdictInv PROVE VerdictBeforeGraphs
  <2> SUFFICES ASSUME ~ok, Cardinality({i \in Layers : Checkable(i, 1)}) >= 3,
                      NEW d \in DOMAIN graphs, NEW i \in Layers,
                      graphs[d].lin[i].kernel \in Refutable
               PROVE  FALSE
    BY DEF VerdictBeforeGraphs, Refutable
  <2> DEFINE C == {j \in Layers : Checkable(j, 1)}
  <2>1. C # {}
    BY FS_EmptySet
  <2>2. ~env.compiled /\ C = Comparable
    BY <2>1 DEF Checkable, Comparable, SkinnyMaxM
  <2>3. pc # "load"
    BY <1>3 DEF GInv, Loaded
  <2>4. Watched
    BY <2>2, <2>3 DEF Watched
  <2> QED
    BY <1>3, <2>4 DEF VerdictInv, Holds
<1> QED
  BY <1>1, <1>2, <1>3, Invariant, PTL DEF Spec

-----------------------------------------------------------------------------
(* Types.                                                                  *)

\* At most as many layers are compared as there are comparisons left.
LEMMA FewCompared ==
    ASSUME checks \in 0 .. 3, NEW m, NEW capturing \in BOOLEAN,
           NEW T \in SUBSET Checked(m, capturing)
    PROVE  Cardinality(T) \in Nat /\ Cardinality(T) <= 3 - checks
<1> DEFINE upto(i) == {j \in 1 .. i : Checkable(j, m)}
<1>1. T \in SUBSET Layers /\ \A i \in T : Checkable(i, m) /\ Cardinality(upto(i)) <= 3 - checks
  BY DEF Checked
<1>2. Len(Model) \in Nat /\ Layers = 1 .. Len(Model)
  BY ModelLayers, GraphReplayAssumption
<1>3. Cardinality(T) \in Nat
  BY <1>1, LayersFinite
<1>4. CASE T = {}
  BY <1>4, FS_EmptySet
<1>5. CASE T # {}
  <2>1. T \in SUBSET (0 .. Len(Model))
    BY <1>1, <1>2
  <2>2. PICK i \in T : \A j \in T : j <= i
    BY <1>2, <1>5, <2>1, GreatestExists
  <2>3. i \in Layers /\ upto(i) \in SUBSET Layers /\ T \in SUBSET upto(i)
    <3>1. i \in 1 .. Len(Model) /\ \A j \in T : j \in 1 .. i
      <4>1. T \in SUBSET (1 .. Len(Model))
        BY <1>1, <1>2
      <4> QED
        BY <1>2, <2>2, <4>1
    <3>2. 1 .. i \subseteq Layers /\ i \in Layers
      BY <1>2, <3>1
    <3>3. \A j \in T : Checkable(j, m)
      BY <1>1
    <3> QED
      BY <3>1, <3>2, <3>3, Zenon
  <2>4. Cardinality(T) <= Cardinality(upto(i)) /\ Cardinality(upto(i)) \in Nat
    BY <2>3, LayersFinite
  <2>5. Cardinality(upto(i)) <= 3 - checks
    BY <1>1
  <2> HIDE DEF upto
  <2> QED
    BY <1>3, <2>4, <2>5
<1> QED
  BY <1>3, <1>4, <1>5

LEMMA ForwardTypes ==
    ASSUME checks \in 0 .. 3, NEW m, NEW capturing \in BOOLEAN, Forward(m, capturing)
    PROVE  checks' \in 0 .. 3 /\ DOMAIN lin' = Layers
<1>1. PICK T \in SUBSET Checked(m, capturing) : checks' = checks + Cardinality(T)
  <2>1. PICK fails : checks' = checks
                        + Cardinality({i \in Checked(m, capturing) : fails = 0 \/ i <= fails})
    BY DEF Forward
  <2> QED
    BY <2>1
<1>2. Cardinality(T) \in Nat /\ Cardinality(T) <= 3 - checks
  BY FewCompared
<1> QED
  BY <1>1, <1>2, ForwardLayers

\* The boot makes two sets of builders: the estimate's and the pool's.
GenBounded ==
    gen \in IF pc \in {"load", "profile"} THEN {0}
            ELSE IF pc \in {"estimate", "pool"} THEN 0 .. 1 ELSE 0 .. 2

TypeInv ==
    /\ pc \in {"load", "profile", "estimate", "pool", "capture", "serve"}
    /\ held \in [Layers -> SUBSET {"ct", "qpn", "marlin", "qpn8", "raw"}]
    /\ head \subseteq {"ct", "qpn"} /\ late \subseteq head
    /\ pc = "load" => late = {}
    /\ checks \in 0 .. 3 /\ GenBounded /\ active \in Nat
    /\ DOMAIN lin \in {{}, Layers}

LEMMA PartitionsCounted ==
    ASSUME active \in Nat, NEW b, Longest(b) \in Nat, NEW force \in BOOLEAN
    PROVE  BuildActive(b, force) \in Nat
<1>1. Partitions(Longest(b)) = 1024 \/ Partitions(Longest(b)) = 256
  BY DEF Partitions
<1>2. (Longest(b) + Partitions(Longest(b)) - 1) \div Partitions(Longest(b)) \in Nat
  <2> DEFINE c == Longest(b)
             p == Partitions(c)
  <2>1. c \in Nat /\ (p = 1024 \/ p = 256)
    BY <1>1
  <2> HIDE DEF c, p
  <2>2. (c + p - 1) \div p \in Nat
    BY <2>1
  <2> QED
    BY <2>2 DEF c, p
<1> QED
  BY <1>2 DEF BuildActive

LEMMA DummyActive ==
    ASSUME env \in Boots, active \in Nat, NEW d \in Descriptors, NEW capturing \in BOOLEAN,
           BuildDummy(d, capturing)
    PROVE  active' \in Nat
<1>1. CASE d.full
  <2>1. d \in Full
    BY <1>1, FullOnes
  <2>2. DummyUpper(d) \in Nat
    <3>1. d.bucket \in Nat /\ QueryLen \in Nat
      BY <2>1, DraftsBounded, GraphReplayAssumption DEF Full
    <3> QED
      BY <3>1 DEF DummyUpper
  <2>3. PICK seq : active' = BuildActive(Dummy(d, seq, DummyUpper(d)), capturing)
    BY <1>1 DEF BuildDummy, Build
  <2>4. Longest(Dummy(d, seq, DummyUpper(d))) \in Nat
    BY <2>1, <2>2, DummyQuery
  <2> QED
    BY <2>3, <2>4, PartitionsCounted
<1>2. CASE ~d.full
  BY <1>2 DEF BuildDummy
<1> QED
  BY <1>1, <1>2

LEMMA TypeStep ==
    ASSUME GInv, LaunchInv, TypeInv, [Next]_vars
    PROVE  TypeInv'
<1> USE DEF weights, verdict, builder
<1>1. env \in Boots /\ FALSE \in BOOLEAN /\ TRUE \in BOOLEAN
  BY DEF GInv, Types
<1>2. Layers' = Layers
  BY DEF Layers
<1>3. \A m : Wants(m) \subseteq {"ct", "qpn"}
  BY DEF Wants
<1>4. CASE Load
  <2>1. held' \in [Layers -> SUBSET {"ct", "qpn", "marlin", "qpn8", "raw"}]
    BY <1>4 DEF Load, CopiesOf
  <2>2. /\ pc = "load" /\ pc' = "profile" /\ head' \subseteq {"ct", "qpn"} /\ late' = late
        /\ checks' = checks /\ gen' = gen /\ active' = active /\ lin' = lin
    BY <1>4 DEF Load
  <2>3. late = {}
    BY <2>2 DEF TypeInv
  <2> QED
    BY <1>2, <2>1, <2>2, <2>3 DEF TypeInv, GenBounded
<1>5. CASE Profile
  <2>1. Forward(MaxTokens, FALSE) /\ \E m : head' = head \union Wants(m)
    BY <1>5 DEF Profile, Logits
  <2>2. checks' \in 0 .. 3 /\ DOMAIN lin' = Layers
    BY <2>1, ForwardTypes DEF TypeInv
  <2>3. /\ pc = "profile" /\ pc' \in {"estimate", "pool"} /\ held' = held /\ late' = late
        /\ gen' \in {gen, gen + 1} /\ active' = active
    BY <1>5 DEF Profile
  <2>4. head' \subseteq {"ct", "qpn"} /\ late' \subseteq head'
    BY <1>3, <2>1, <2>3 DEF TypeInv
  <2>5. GenBounded'
    BY <2>3 DEF TypeInv, GenBounded
  <2> QED
    BY <1>2, <2>2, <2>3, <2>4, <2>5 DEF TypeInv
<1>6. CASE Warm
  <2>1. PICK d \in todo : Forward(d.n, FALSE) /\ BuildDummy(d, FALSE)
    BY <1>6 DEF Warm
  <2>2. checks' \in 0 .. 3 /\ DOMAIN lin' = Layers
    BY <2>1, ForwardTypes DEF TypeInv
  <2>3. active' \in Nat
    BY <1>1, <2>1, DummyActive DEF GInv, Types, TypeInv
  <2>4. pc' = pc /\ held' = held /\ head' = head /\ late' = late /\ gen' = gen
    BY <1>6 DEF Warm
  <2> QED
    BY <1>2, <2>2, <2>3, <2>4 DEF TypeInv, GenBounded
<1>7. CASE Capture
  <2>1. Forward(round.how.n, TRUE) /\ BuildDummy(round.how, TRUE) /\ round.how \in Descriptors
    BY <1>7 DEF Capture, GInv, Types
  <2>2. checks' \in 0 .. 3 /\ DOMAIN lin' = Layers
    BY <2>1, ForwardTypes DEF TypeInv
  <2>3. active' \in Nat
    BY <1>1, <2>1, DummyActive DEF TypeInv
  <2>4. pc' = pc /\ held' = held /\ head' = head /\ late' = late /\ gen' = gen
    BY <1>7 DEF Capture
  <2> QED
    BY <1>2, <2>2, <2>3, <2>4 DEF TypeInv, GenBounded
<1>8. CASE EndEstimate
  <2>1. /\ pc = "estimate" /\ pc' = "pool" /\ held' = held /\ head' = head /\ late' = late
        /\ checks' = checks /\ gen' = gen /\ active' = 0 /\ lin' = lin
    BY <1>8 DEF EndEstimate
  <2> QED
    BY <1>2, <2>1 DEF TypeInv, GenBounded
<1>9. CASE Pool
  <2>1. /\ pc = "pool" /\ pc' = "capture" /\ held' = held /\ head' = head /\ late' = late
        /\ checks' = checks /\ gen' = gen + 1 /\ active' = active /\ lin' = lin
    BY <1>9 DEF Pool
  <2>2. GenBounded'
    BY <2>1 DEF TypeInv, GenBounded
  <2> QED
    BY <1>2, <2>1, <2>2 DEF TypeInv
<1>10. CASE Ready
  <2>1. /\ pc = "capture" /\ pc' = "serve" /\ held' = held /\ head' = head /\ late' = late
        /\ checks' = checks /\ gen' = gen /\ active' = active /\ lin' = lin
    BY <1>10 DEF Ready
  <2> QED
    BY <1>2, <2>1 DEF TypeInv, GenBounded
<1>11. CASE Serve
  <2>1. PICK batch \in Batches[env.drafts] :
          LET d == Dispatch(batch) IN
          /\ Build(batch, IF d.full THEN d.n ELSE Tokens(batch), FALSE)
          /\ IF d \in DOMAIN graphs THEN lin' = graphs[d].lin /\ UNCHANGED verdict
             ELSE Forward(d.n, FALSE)
          /\ Logits(Sampled(batch))
    BY <1>11 DEF Serve
  <2> DEFINE d == Dispatch(batch)
  <2>2. /\ pc = "serve" /\ pc' = "serve" /\ held' = held /\ gen' = gen
        /\ late' = late \union (head' \ head)
    BY <1>11 DEF Serve
  <2>3. head' \subseteq {"ct", "qpn"} /\ late' \subseteq head'
    BY <1>3, <2>1, <2>2 DEF Logits, TypeInv
  <2>4. active' \in Nat
    <3>1. Longest(batch) \in Nat
      BY <1>1, BatchFacts, LongestFacts
    <3>2. active' = BuildActive(batch, FALSE)
      BY <2>1 DEF Build
    <3> QED
      BY <3>1, <3>2, PartitionsCounted DEF TypeInv
  <2>5. checks' \in 0 .. 3 /\ DOMAIN lin' = Layers
    <3>1. CASE d \in DOMAIN graphs
      BY <2>1, <3>1 DEF LaunchInv, TypeInv
    <3>2. CASE d \notin DOMAIN graphs
      <4>1. Forward(d.n, FALSE)
        BY <2>1, <3>2
      <4> QED
        BY <4>1, ForwardTypes DEF TypeInv
    <3> QED
      BY <3>1, <3>2
  <2> QED
    BY <1>2, <2>2, <2>3, <2>4, <2>5 DEF TypeInv, GenBounded
<1>12. CASE UNCHANGED vars
  BY <1>2, <1>12 DEF vars, TypeInv, GenBounded
<1> QED
  BY <1>4, <1>5, <1>6, <1>7, <1>8, <1>9, <1>10, <1>11, <1>12 DEF Next

\* Every variable stays in its type: at most three layers are ever compared,
\* and at most two sets of builders made, for every model and every boot.
THEOREM TypesHold == Spec => []TypeOK
<1>1. Init => TypeInv
  BY DEF Init, TypeInv, GenBounded
<1>2. GInv /\ LaunchInv /\ TypeInv /\ [Next]_vars => TypeInv'
  BY TypeStep
<1>3. GInv /\ LaunchInv /\ TypeInv => TypeOK
  BY DEF GInv, Types, LaunchInv, TypeInv, TypeOK, GenBounded, Descriptors
<1> QED
  BY <1>1, <1>2, <1>3, Invariant, LaunchInvariant, PTL DEF Spec
=============================================================================
