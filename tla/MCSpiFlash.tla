----------------------------- MODULE MCSpiFlash -----------------------------
(* SpiFlash for TLC: two sectors of two pages of two bytes; a byte has one  *)
(* bit, erased (E) or programmed (P).                                       *)
EXTENDS SpiFlash

MCBits == {1}
E == {1}
P == {}
MCData == {<< >>, <<P>>, <<E, P>>, <<P, P, E>>, <<P, E, P, P, E, P>>}
MCAll == [0..7 -> {E, P}]
=============================================================================
