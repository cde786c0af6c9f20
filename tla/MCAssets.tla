------------------------------ MODULE MCAssets ------------------------------
(***************************************************************************)
(* Model-checking parameters of Assets.  An image and a PDF do not          *)
(* interact but through the slots.                                          *)
(***************************************************************************)
EXTENDS Assets, TLC
=============================================================================
