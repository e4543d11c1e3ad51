--------------------------- MODULE MCGraphReplay ---------------------------
(* Six layers with shapes of the served model and two it does not repack,  *)
(* five ways to boot, and two requests.                                    *)
EXTENDS GraphReplay

Layer(kind, n, k) == [kind |-> kind, n |-> n, k |-> k]
MCModel == <<Layer("fp4", 8704, 5120), Layer("fp4", 2048, 5120), Layer("fp4", 24, 5120),
             Layer("w4a16", 5120, 4352), Layer("fp8", 4096, 5120), Layer("fp8", 48, 5120)>>
MCHead == Layer("head", 62080, 5120)

Boot(qpn, drop, unify, compiled, h, drafts, estimate) ==
    [qpn |-> qpn, drop |-> drop, unify |-> unify, compiled |-> compiled, head |-> h,
     drafts |-> drafts, estimate |-> estimate]
MCBoots == {Boot(TRUE, FALSE, FALSE, FALSE, "off", 3, TRUE),
            Boot(TRUE, TRUE, TRUE, FALSE, "native", 3, FALSE),
            Boot(TRUE, FALSE, TRUE, TRUE, "off", 0, TRUE),
            Boot(TRUE, TRUE, FALSE, FALSE, "lazy", 3, FALSE),
            Boot(FALSE, FALSE, FALSE, FALSE, "off", 0, FALSE)}
=============================================================================
