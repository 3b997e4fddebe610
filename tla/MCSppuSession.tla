---------------------------- MODULE MCSppuSession ----------------------------
(***************************************************************************)
(* Values for SppuSession: databases of two dimensions, one of which needs *)
(* two batches, the second shorter than the first.                         *)
(***************************************************************************)
EXTENDS SppuSession, TLC

MCFloor == -3

MCElem == {-2, 0, 1, 2}

MCDot(v, w, n) ==
  (IF n > 0 THEN v[0] * w[0] ELSE 0) + (IF n > 1 THEN v[1] * w[1] ELSE 0)

V(x, y) == 0 :> x @@ 1 :> y

MCDatabases == {
  [dim |-> 2, size |-> 3, vec |-> 0 :> V(2, 1) @@ 1 :> V(1, 2) @@ 2 :> V(1, 0)],
  [dim |-> 1, size |-> 2, vec |-> 0 :> V(1, 0) @@ 1 :> V(2, 0)] }

MCQueries == {V(1, 0), V(0, 1), V(-2, 0)}
=============================================================================
