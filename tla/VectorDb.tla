------------------------------ MODULE VectorDb ------------------------------
(***************************************************************************)
(* What examples/semantic_search/sppu_searchd.c (the daemon) and           *)
(* tools/sppu_search.c (the tool) have in common: the vector files they    *)
(* load, each with a reader of its own, the batch a database is searched   *)
(* by, and the few best results out of all batches.                        *)
(***************************************************************************)
EXTENDS BestMatch, Sequences, FiniteSets, FiniteSetsExt

CONSTANTS
  MaxVectors,     \* SPPU_MAX_VECTORS: the size of a batch
  MaxDim,         \* SPPU_MAX_DIMENSION
  IndexRange,     \* 2^32: indices are computed modulo this
  Files,          \* files a program may be pointed at
  Dot(_, _)       \* dot product of two vectors of the same length

\* A file is missing, or binary: the count and dimension of its header and
\* the vectors that are whole in it; or CSV: its lines, each of a kind, with
\* the numbers that can be parsed from its start.
LineKinds == {"comment", "blank", "crlf", "row"}

\* Counts are 32 bits wide, in the header and of the lines.
ASSUME DbAssumption ==
  /\ MaxVectors \in Nat \ {0} /\ MaxDim \in Nat /\ IndexRange \in Nat \ {0}
  /\ \A f \in Files :
       /\ f.format \in {"none", "bin", "csv"}
       /\ f.format = "bin" =>
            /\ f.count \in 0..IndexRange-1 /\ f.dim \in Nat
            /\ f.rows \in Seq(Seq(Score))
            /\ \A i \in DOMAIN f.rows : Len(f.rows[i]) = f.dim
       /\ f.format = "csv" =>
            /\ f.lines \in Seq([kind : LineKinds, vec : Seq(Score)])
            /\ Len(f.lines) < IndexRange

NoDb == [dim |-> 0, rows |-> <<>>]      \* also: the file could not be loaded

Database(dim, rows) == [dim |-> dim, rows |-> rows]

(***************************************************************************)
(* The two readers.                                                        *)
(***************************************************************************)
LoadBinary(f) ==
  IF f.count = 0 \/ f.dim = 0 \/ f.dim > MaxDim \/ Len(f.rows) < f.count
    THEN NoDb
    ELSE Database(f.dim, SubSeq(f.rows, 1, f.count))

Without(kinds, lines) ==
  LET kept[i \in 0..Len(lines)] ==
        IF i = 0 THEN <<>>
        ELSE IF lines[i].kind \in kinds THEN kept[i-1]
                                        ELSE Append(kept[i-1], lines[i])
  IN  kept[Len(lines)]

\* The dimension is that of the first line that begins with a number.
Columns(lines) ==
  LET numeric == {i \in DOMAIN lines : lines[i].vec # <<>>}
  IN  IF numeric = {} THEN 0 ELSE Len(lines[Min(numeric)].vec)

\* strtof gives 0 where it finds no number, and does not move.
Filled(vec, dim) == [d \in 1..dim |-> IF d <= Len(vec) THEN vec[d] ELSE 0]

\* Mutant: the second pass takes a comment for a vector, too.
DaemonCsvMutant(lines) ==
  LET counted == Without({"comment", "blank", "crlf"}, lines)
      read    == Without({"blank"}, lines)
      dim     == Columns(counted)
  IN  IF dim = 0 THEN NoDb
      ELSE Database(dim, [i \in 1..Len(counted) |-> Filled(read[i].vec, dim)])

\* db_load_csv of the daemon counts the vectors in a first pass and reads as
\* many in a second one, which takes a line of CR LF alone for a vector.
DaemonCsv(lines) ==
  LET counted == Without({"comment", "blank", "crlf"}, lines)
      read    == Without({"comment", "blank"}, lines)
      dim     == Columns(counted)
  IN  IF dim = 0 THEN NoDb
      ELSE Database(dim, [i \in 1..Len(counted) |-> Filled(read[i].vec, dim)])

\* load_csv of the tool refuses a file with a line that is too short.
ToolCsv(lines) ==
  LET rows == Without({"comment", "blank", "crlf"}, lines)
      dim  == Columns(rows)
  IN  IF dim = 0 \/ dim > MaxDim \/ \E i \in DOMAIN rows : Len(rows[i].vec) < dim
        THEN NoDb
        ELSE Database(dim, [i \in 1..Len(rows) |-> SubSeq(rows[i].vec, 1, dim)])

DaemonLoad(f) == CASE f.format = "csv"  -> DaemonCsv(f.lines)
                   [] f.format = "bin"  -> LoadBinary(f)
                   [] f.format = "none" -> NoDb

ToolLoad(f) == CASE f.format = "csv"  -> ToolCsv(f.lines)
                 [] f.format = "bin"  -> LoadBinary(f)
                 [] f.format = "none" -> NoDb

\* What an assumption on Dot may say of the vectors of a file.
Scored(db, queries) ==
  \A q \in queries : Len(q) = db.dim =>
    \A i \in DOMAIN db.rows : Dot(db.rows[i], q) \in Score

(***************************************************************************)
(* One batch.  SppuSession has it call by call and shows, for a process    *)
(* with the device to itself, that it finds the best match.                *)
(***************************************************************************)
Batch(db, first) == IF Len(db.rows) - first > MaxVectors THEN MaxVectors
                                                         ELSE Len(db.rows) - first

\* Mutant: the index is the one within the batch.
WinnerMutant(db, query, first) ==
  LET n      == Batch(db, first)
      dot    == [j \in 0..n-1 |-> Dot(db.rows[first + j + 1], query)]
      best(j) == IF j = NoIndex THEN Floor ELSE dot[j]
      j      == CHOOSE j \in {NoIndex} \cup 0..n-1 : IsBest(dot, n, j, best(j))
  IN  [idx |-> j % IndexRange, score |-> best(j)]

\* Mutant: the last vector of the batch is not looked at.
WinnerShortMutant(db, query, first) ==
  LET n      == Batch(db, first) - 1
      dot    == [j \in 0..n-1 |-> Dot(db.rows[first + j + 1], query)]
      best(j) == IF j = NoIndex THEN Floor ELSE dot[j]
      j      == CHOOSE j \in {NoIndex} \cup 0..n-1 : IsBest(dot, n, j, best(j))
  IN  [idx |-> (first + j) % IndexRange, score |-> best(j)]

\* If no vector of the batch is above Floor, the index is the one before it.
Winner(db, query, first) ==
  LET n      == Batch(db, first)
      dot    == [j \in 0..n-1 |-> Dot(db.rows[first + j + 1], query)]
      best(j) == IF j = NoIndex THEN Floor ELSE dot[j]
      j      == CHOOSE j \in {NoIndex} \cup 0..n-1 : IsBest(dot, n, j, best(j))
  IN  [idx |-> (first + j) % IndexRange, score |-> best(j)]

(***************************************************************************)
(* Reference: answer has the k best of the results in won, best first.     *)
(***************************************************************************)
Least(a, b) == IF a < b THEN a ELSE b

AtLeast(results, score) ==
  Cardinality({i \in DOMAIN results : results[i].score >= score})

IsTop(answer, won, k) ==
  /\ Len(answer) = Least(k, Len(won))
  /\ \A i \in 1..Len(answer)-1 : answer[i].score >= answer[i+1].score
  /\ \A i \in DOMAIN answer : \E j \in DOMAIN won : answer[i] = won[j]
  /\ \A i, j \in DOMAIN answer : i # j => answer[i] # answer[j]
  /\ \A j \in DOMAIN won :
       AtLeast(answer, won[j].score) = Least(k, AtLeast(won, won[j].score))

\* Every result names a vector of db and its score, or says that a batch
\* had none above Floor.
NamesVectors(answer, db, query) ==
  \A i \in DOMAIN answer :
    \/ answer[i].score = Floor
    \/ /\ answer[i].idx < Len(db.rows)
       /\ answer[i].score = Dot(db.rows[answer[i].idx + 1], query)

\* No vector of db scores above the first result.
NoneAbove(answer, db, query) ==
  \A i \in DOMAIN db.rows : ~Above(Dot(db.rows[i], query), answer[1].score)
=============================================================================
