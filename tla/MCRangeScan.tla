---------------------------- MODULE MCRangeScan ----------------------------
(* NextAvailable over every range and every set of held addresses of a     *)
(* three-bit address space.                                                *)
EXTENDS RangeScan
=============================================================================
