------------------------------ MODULE BestMatch ------------------------------
(***************************************************************************)
(* What a search promises: the stored vector with the largest dot product. *)
(* A score is a single-precision number; only its order matters here, so a *)
(* score is an integer, or NaN, which compares false with everything.      *)
(***************************************************************************)
EXTENDS Integers

CONSTANTS
  Floor,     \* the score no match has to beat: -1.0e9f in the source
  NaN

ASSUME ScoreAssumption == Floor \in Int /\ NaN \notin Int

Score == Int \cup {NaN}

\* RESULT_IDX when no vector beats Floor: (uint32_t)-1.
NoIndex == -1

\* The comparison a > b of two floats.
Above(a, b) == a # NaN /\ b # NaN /\ a > b

\* idx is the index a search over the first n scores of s reports, and best
\* the score: the first of the largest scores above Floor.
IsBest(s, n, idx, best) ==
  \/ /\ idx = NoIndex /\ best = Floor
     /\ \A j \in 0..n-1 : ~Above(s[j], Floor)
  \/ /\ idx \in 0..n-1 /\ best = s[idx] /\ Above(best, Floor)
     /\ \A j \in 0..n-1 : ~Above(s[j], best)
     /\ \A j \in 0..idx-1 : Above(best, s[j]) \/ s[j] = NaN
=============================================================================
