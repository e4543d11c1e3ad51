---------------------------- MODULE LinearRoutes ----------------------------
(***************************************************************************)
(* Which kernel serves a quantised linear layer, by the number of rows m:  *)
(* NVFP4 (src/fork_patches/marlin.py), FP8 (src/fork_patches/modelopt.py)  *)
(* and the checks each kernel makes of its caller                          *)
(* (src/kernels/skinny_kernels.cu).                                        *)
(* A layer is [kind, n, k].  A copy of its weights is named for its        *)
(* layout: "ct" as published, "qpn" and "qpn8" repacked for the skinny     *)
(* kernels, "marlin" repacked for Marlin, "raw" plain FP8.  Activations    *)
(* are half; the switches no script of the repository sets have their      *)
(* default (QPN2, QPN2_MT, QPN8, QPN8_MTT on, SKINNY_MAX_M 64).            *)
(***************************************************************************)
EXTENDS Integers, FiniteSets, FiniteSetsExt

SkinnyMaxM == 64
ReconMinM == 512
ReconMaxBytes == 268435456
UnifyDenseMinM == 128
ChunkMax == 96

\* _QPN2_TABLE and _SM70_QPN8_TABLE.
Entry(k, n, split, nacc) == [k |-> k, n |-> n, split |-> split, nacc |-> nacc]
Table2 == {Entry(1536, 5120, 16, 2), Entry(4352, 5120, 16, 2), Entry(5120, 8704, 8, 2),
           Entry(5120, 4096, 16, 2), Entry(5120, 2048, 32, 2), Entry(5120, 62080, 8, 1),
           Entry(5120, 3584, 16, 2)}
Table8 == {Entry(5120, 4096, 16, 2), Entry(1536, 5120, 8, 2), Entry(5120, 3584, 16, 2)}

NoCfg == [split |-> 0, nacc |-> 0]
Splits(k, s) == (k \div 16) % s = 0
Measured(table, k, n) == {t \in table : t.k = k /\ t.n = n}
Of(t) == [split |-> t.split, nacc |-> t.nacc]

\* _qpn2_cfg: the measured winner, or the smallest split with 640 warps.
Cfg2(k, n) ==
    LET known == {t \in Measured(Table2, k, n) : Splits(k, t.split)}
        wide  == {s \in {8, 16, 32} : Splits(k, s) /\ (n \div 32) * s >= 640}
        with(s) == [split |-> s, nacc |-> IF s >= 16 THEN 2 ELSE 1]
    IN  IF known # {} THEN Of(CHOOSE t \in known : TRUE)
        ELSE IF wide # {} THEN with(CHOOSE s \in wide : \A r \in wide : s <= r)
        ELSE IF Splits(k, 16) THEN with(16)
        ELSE IF Splits(k, 8) THEN with(8)
        ELSE NoCfg

\* The configuration _sm70_qpn8_stash leaves on a layer.
Cfg8(k, n) ==
    LET known == Measured(Table8, k, n)
        cfg   == IF known # {} THEN Of(CHOOSE t \in known : TRUE)
                 ELSE [split |-> 16, nacc |-> 2]
    IN  IF Splits(k, cfg.split) THEN cfg
        ELSE IF Splits(k, 8) THEN [split |-> 8, nacc |-> 2] ELSE [split |-> 4, nacc |-> 1]

-----------------------------------------------------------------------------
(* Loading: the copies that stay resident.                                 *)

Packable(l) == l.n % 32 = 0 /\ l.k % 64 = 0

\* A plausible slip: the published bytes are dropped whether or not the
\* repacked ones were made.
CopiesDroppedAnyway(l, env) ==
    LET qpn == env.qpn /\ Packable(l)
    IN  IF l.kind = "fp8" THEN (IF Packable(l) THEN {"qpn8"} ELSE {"raw"})
        ELSE {c \in {"ct", "qpn", "marlin"} :
                \/ c = "ct" /\ ~env.drop
                \/ c = "qpn" /\ qpn
                \/ c = "marlin" /\ ~env.unify}

CopiesOf(l, env) ==
    LET qpn == env.qpn /\ Packable(l)
    IN  IF l.kind = "fp8" THEN (IF Packable(l) THEN {"qpn8"} ELSE {"raw"})
        ELSE {c \in {"ct", "qpn", "marlin"} :
                \/ c = "ct" /\ ~(env.drop /\ qpn)
                \/ c = "qpn" /\ qpn
                \/ c = "marlin" /\ ~(env.unify /\ qpn)}

-----------------------------------------------------------------------------
(* Dispatch.  A launch: the kernel, the copy it reads, the rows it is      *)
(* given, and its geometry.                                                *)

Launch(kernel, copy, m, cfg, mt) ==
    [kernel |-> kernel, copy |-> copy, m |-> m, split |-> cfg.split, nacc |-> cfg.nacc,
     mt |-> mt]

\* A plausible slip: two row tiles are capped like four.
CappedAlike(cfg, mt) == [cfg EXCEPT !.split = IF @ > 8 THEN 8 ELSE @]

Capped(cfg, mt) == [cfg EXCEPT !.split = IF mt = 2 THEN IF @ > 16 THEN 16 ELSE @
                                         ELSE IF @ > 8 THEN 8 ELSE @]

RowTiles(m) == IF m <= 16 THEN 2 ELSE 4

\* The kernels _skinny_linear guards with _skinny_ok, in the order it tries them.
Guarded == {"qpn2", "qpn2_mtt", "qpn", "qpn_simt", "simt", "wmma"}
Plain(kernel, copy, m) == Launch(kernel, copy, m, NoCfg, 0)

SkinnyRoute(l, m, copies) ==
    LET qpn == "qpn" \in copies
        ct  == "ct" \in copies
        cfg == Cfg2(l.k, l.n)
    IN  IF qpn /\ m <= 8 /\ cfg # NoCfg THEN Launch("qpn2", "qpn", m, cfg, 1)
        ELSE IF qpn /\ m \in 9 .. 32 /\ cfg # NoCfg
             THEN Launch("qpn2_mtt", "qpn", m, Capped(cfg, RowTiles(m)), RowTiles(m))
        ELSE IF qpn /\ m \in 4 .. 16 THEN Plain("qpn", "qpn", m)
        ELSE IF qpn /\ ~ct /\ m <= 3 THEN Plain("qpn_simt", "qpn", m)
        ELSE IF ct /\ m <= 7 /\ l.k % 128 = 0 /\ l.n % 8 = 0 THEN Plain("simt", "ct", m)
        ELSE IF ct /\ m <= SkinnyMaxM /\ l.k % 128 = 0 /\ l.n % 64 = 0
             THEN Plain("wmma", "ct", m)
        ELSE Plain("none", "ct", m)

Fp4Launch(l, m, copies, ok, capturing) ==
    LET route   == SkinnyRoute(l, m, copies)
        small   == 2 * l.n * l.k <= ReconMaxBytes
        tiled   == ok /\ l.k % 256 = 0 /\ l.n % 64 = 0
        rebuild == "marlin" \notin copies /\ "qpn" \in copies /\ route.kernel = "none"
        dense   == IF rebuild THEN ~capturing /\ (~tiled \/ (m >= UnifyDenseMinM /\ small))
                   ELSE /\ {"marlin", "qpn"} \subseteq copies /\ m >= ReconMinM
                        /\ small /\ ~capturing
    IN  IF ok /\ route.kernel # "none" THEN route
        ELSE IF rebuild /\ tiled /\ ~dense THEN Plain("unpack_wmma", "qpn", m)
        ELSE IF rebuild \/ dense THEN Plain("dequant", "qpn", m)
        ELSE Plain("marlin", "marlin", m)

Fp8Launch(l, m, copies) ==
    LET cfg == Cfg8(l.k, l.n)
        fast(c) == [c EXCEPT !.nacc = IF @ >= 3 THEN @ ELSE @ + 2]
    IN  IF copies # {"qpn8"} THEN Plain("reference", "raw", m)
        ELSE IF m <= 8 THEN Launch("qpn8", "qpn8", m, cfg, 1)
        ELSE IF m <= 32
             THEN Launch("qpn8_mtt", "qpn8", m, fast(Capped(cfg, RowTiles(m))), RowTiles(m))
        ELSE IF m <= ChunkMax THEN Launch("qpn8", "qpn8", 8, cfg, 1)
        ELSE Plain("qpn8_dequant", "qpn8", m)

LayerLaunch(l, m, copies, ok, capturing) ==
    IF l.kind = "fp8" THEN Fp8Launch(l, m, copies)
    ELSE Fp4Launch(l, m, copies, ok, capturing)

\* The NVFP4 head of _skinny_embed_apply, which does not ask _skinny_ok.
HeadLaunch(l, m, copies) ==
    LET cfg == Cfg2(l.k, l.n)
    IN  IF m > 64 THEN Plain("dense", "raw", m)
        ELSE IF m <= 8 /\ cfg # NoCfg /\ Packable(l) THEN Launch("qpn2", "qpn", m, cfg, 1)
        ELSE Plain(IF m <= 7 THEN "simt" ELSE "wmma", "ct", m)

-----------------------------------------------------------------------------
(* What each kernel demands (TORCH_CHECK).                                 *)

Geometry(a, mtOf2, mtOf4) ==
    \/ a.mt = 2 /\ <<a.split, a.nacc>> \in mtOf2
    \/ a.mt = 4 /\ <<a.split, a.nacc>> \in mtOf4

Accepts(a, l) ==
    /\ a.kernel = "qpn2" =>
            /\ a.m \in 1 .. 8 /\ Packable(l) /\ Splits(l.k, a.split)
            /\ a.split \in {8, 16, 32} /\ a.nacc \in {1, 2}
    /\ a.kernel = "qpn2_mtt" =>
            /\ a.m \in 1 .. 8 * a.mt /\ Packable(l) /\ Splits(l.k, a.split)
            /\ Geometry(a, {8, 16} \X {1, 2}, {8} \X {1, 2})
    /\ a.kernel = "qpn" => a.m \in 1 .. 16 /\ Packable(l)
    /\ a.kernel = "qpn_simt" => a.m \in 1 .. 3 /\ Packable(l)
    /\ a.kernel = "simt" => a.m \in 1 .. 8 /\ l.k % 128 = 0 /\ l.k >= 128 /\ l.n % 8 = 0
    /\ a.kernel \in {"wmma", "unpack_wmma"} =>
            /\ a.m <= 16 => l.n % 64 = 0 /\ l.k % 256 = 0
            /\ a.m > 16 => l.n % 32 = 0 /\ l.k % 128 = 0
            /\ a.m > 64 => l.k % 256 = 0
    /\ a.kernel = "qpn8" =>
            /\ a.m \in 1 .. 8 /\ Packable(l) /\ Splits(l.k, a.split)
            /\ a.split \in {4, 8, 16, 32} /\ a.nacc \in 1 .. 4
    /\ a.kernel = "qpn8_mtt" =>
            /\ a.m \in 1 .. 8 * a.mt /\ Packable(l) /\ Splits(l.k, a.split)
            /\ Geometry(a, {4, 8, 16} \X {3, 4}, {4, 8} \X {3, 4})
    /\ a.kernel \in {"dequant", "qpn8_dequant"} => l.n % 32 = 0 /\ l.k % 16 = 0

\* The order in which a row's products are added up.
SplitK == {"qpn2", "qpn2_mtt", "qpn8", "qpn8_mtt"}
Order(a) == <<a.split, IF a.nacc >= 3 THEN a.nacc - 2 ELSE a.nacc>>
=============================================================================
