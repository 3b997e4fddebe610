--------------------------- MODULE MCSearchClients ---------------------------
(***************************************************************************)
(* Values for SearchClients: batches of two, databases of five batches in  *)
(* which the batches' winners come in every order, and the files the two   *)
(* readers could disagree about.                                           *)
(***************************************************************************)
EXTENDS SearchClients

MCFloor == -3

\* Five batches, the last of one vector; -3 is not above Floor.
Winners == [1..5 -> {-3, 1, 2}]

Ranked(w) == [format |-> "bin", count |-> 9, dim |-> 1,
              rows |-> [i \in 1..9 |-> IF i % 2 = 1 THEN <<w[(i + 1) \div 2]>>
                                                    ELSE <<-3>>]]

Row(vec)   == [kind |-> "row", vec |-> vec]
Line(kind) == [kind |-> kind, vec |-> <<>>]
Csv(lines) == [format |-> "csv", lines |-> lines]
Bin(count, dim, rows) ==
  [format |-> "bin", count |-> count, dim |-> dim, rows |-> rows]

Odd == {
  [format |-> "none"],
  Bin(0, 1, <<>>), Bin(1, 0, <<<<>>>>), Bin(2, 1, <<<<1>>>>),
  Bin(1, 3, <<<<1, 2, 3>>>>), Bin(1, 1, <<<<1>>, <<2>>>>),
  Csv(<<>>), Csv(<<Line("comment"), Line("blank"), Line("crlf")>>),
  Csv(<<Line("comment"), Row(<<1, 2>>), Line("blank"), Row(<<2, 1>>)>>),
  Csv(<<Row(<<1, 2>>), Line("crlf"), Row(<<2, 1>>)>>),
  Csv(<<Row(<<>>), Row(<<1, 2>>)>>),                  \* a heading
  Csv(<<Row(<<1, 2>>), Row(<<2>>)>>),                 \* too short
  Csv(<<Row(<<1>>), Row(<<2, 1>>), Row(<<3, 3>>)>>),  \* too long
  Csv(<<Row(<<1, 2, 3>>)>>) }                         \* too many dimensions

MCFiles == {Ranked(w) : w \in Winners} \cup Odd

\* Both vectors have at most three elements.
MCDot(v, w) == LET at(s, i) == IF i <= Len(s) THEN s[i] ELSE 0
               IN  at(v, 1) * at(w, 1) + at(v, 2) * at(w, 2) + at(v, 3) * at(w, 3)

MCQueries == {<<>>, <<1>>, <<1, 1>>}
=============================================================================
