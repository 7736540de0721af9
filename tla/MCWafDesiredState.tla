--------------------------- MODULE MCWafDesiredState ---------------------------
(* Three alerts for TLC: e1 and e2 share a source, e2 outlasting e1; e3      *)
(* comes from another source.                                               *)
EXTENDS WafDesiredState, TLC

CONSTANTS e1, e2, e3, srcA, srcB

MCSources == {srcA, srcB}
MCSourceOf == e1 :> srcA @@ e2 :> srcA @@ e3 :> srcB
MCExpiresAt == e1 :> 1 @@ e2 :> 2 @@ e3 :> 2

MCSymmetry == Permutations(Sessions)

================================================================================
