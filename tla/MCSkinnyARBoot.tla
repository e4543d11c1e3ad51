---------------------------- MODULE MCSkinnyARBoot ----------------------------
(***************************************************************************)
(* Instances of SkinnyARBoot for TLC: three calls, the middle one too      *)
(* large for the host-memory route.                                        *)
(***************************************************************************)
EXTENDS SkinnyARBoot

SmallThenLarge == [n \in 1 .. MaxCalls |-> n # 2]
===============================================================================
