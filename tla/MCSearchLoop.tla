---------------------------- MODULE MCSearchLoop ----------------------------
(***************************************************************************)
(* Values for SearchLoop: vectors of one element, with scores below, at    *)
(* and above the floor, ties, and NaN.                                     *)
(***************************************************************************)
EXTENDS SearchLoop

MCFloor == 0
MCElem == {-2, 0, 1, NaN}

MCDot(v, w, n) ==
  IF n = 0 THEN 0
  ELSE IF NaN \in {v[0], w[0]} THEN NaN
  ELSE v[0] * w[0]
=============================================================================
