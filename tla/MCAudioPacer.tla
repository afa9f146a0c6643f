---------------------------- MODULE MCAudioPacer ----------------------------
(***************************************************************************)
(* Rings of one to four samples, with and without a target, and bursts up  *)
(* to more than the largest ring holds.                                    *)
(***************************************************************************)
EXTENDS AudioPacer

\* <<rate, target>>: four samples of which two are the target, four without
\* a target, three that must all wait, and a rate that leaves one sample.
SomeSettings == {<<4, 500>>, <<4, 0>>, <<3, 1000>>, <<0, 500>>}
==============================================================================
