---------------------------- MODULE MCBlockQueue -----------------------------
(***************************************************************************)
(* Small instances of BlockQueue: two validators, one with more blocks     *)
(* than fit on a page, or a single one.                                    *)
(***************************************************************************)
EXTENDS BlockQueue

LongAndShort == <<3, 1>>
JustTwo == <<2>>
==============================================================================
