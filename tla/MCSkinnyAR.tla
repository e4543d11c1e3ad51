------------------------------ MODULE MCSkinnyAR ------------------------------
(***************************************************************************)
(* Small instances of SkinnyAR for TLC.  The configurations give every     *)
(* constant a number: a few words stand for the 4 KB chunks of a slot, two *)
(* or three blocks for the grid of up to 64.                               *)
(***************************************************************************)
EXTENDS SkinnyARInv
===============================================================================
