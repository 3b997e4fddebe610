------------------------------- MODULE Searchd -------------------------------
(***************************************************************************)
(* examples/semantic_search/sppu_searchd.c: a parent that loads a database *)
(* and accepts connections, and a process forked for each connection that  *)
(* answers one request from its copy of the database.  (Formatting of HTTP *)
(* and JSON is left out.)                                                  *)
(***************************************************************************)
EXTENDS VectorDb

CONSTANTS
  Clients,        \* connections served at the same time
  Queries,        \* parsed vectors of requests; <<>> if that fails
  TopKs,          \* the top_k of requests
  MaxTopK         \* MAX_TOP_K

ASSUME SearchdAssumption ==
  /\ Queries \subseteq Seq(Score) /\ TopKs \subseteq Int /\ MaxTopK \in Nat \ {0}
  /\ \A f \in Files : Scored(DaemonLoad(f), Queries)

VARIABLES
  main,           \* the parent: "start", "listen" or "stopped"
  db,             \* its database
  pc,             \* each child: "none", "read", "search" or "replied"
  mem,            \* its copy of the database
  query, top_k,   \* its request
  first,          \* batch_start
  heap,           \* [0..heap_n-1 -> result]
  reply,          \* status code and results
  won,            \* history: what the batches of each child found
  load_done,      \* history: a POST /load has been answered with 200, and
  after_load      \* each connection that was accepted after that

parent == <<main, db>>
child  == <<pc, mem, query, top_k, first, heap, reply, won>>
loads  == <<load_done, after_load>>
daemon == <<parent, child, loads>>

Empty   == [j \in 0..-1 |-> 0]
NoReply == [code |-> 0, results |-> <<>>]

DaemonInit ==
  /\ main = "start" /\ db = NoDb
  /\ pc = [c \in Clients |-> "none"] /\ mem = [c \in Clients |-> NoDb]
  /\ query = [c \in Clients |-> <<>>] /\ top_k = [c \in Clients |-> 1]
  /\ first = [c \in Clients |-> 0] /\ heap = [c \in Clients |-> Empty]
  /\ reply = [c \in Clients |-> NoReply] /\ won = [c \in Clients |-> <<>>]
  /\ load_done = FALSE /\ after_load = [c \in Clients |-> FALSE]

(***************************************************************************)
(* The min-heap.  heap_sift_down moves h[i] down while a child is smaller. *)
(***************************************************************************)
Swap(h, i, j) == [h EXCEPT ![i] = h[j], ![j] = h[i]]

Smaller(h, n, a, b) == IF b < n /\ h[b].score < h[a].score THEN b ELSE a

Smallest(h, n, i) == Smaller(h, n, Smaller(h, n, i, 2*i + 1), 2*i + 2)

\* A round, from a heap and a position.
SiftRound(n, x) ==
  <<Swap(x[1], x[2], Smallest(x[1], n, x[2])), Smallest(x[1], n, x[2])>>

SiftDown(h, n, i) ==
  LET down[k \in 0..n] == IF k = 0 THEN <<h, i>> ELSE SiftRound(n, down[k-1])
  IN  down[n][1]

\* From the last parent up to the root.
Heapify(h, n) ==
  LET up[k \in 0..(n \div 2)] ==
        IF k = 0 THEN h ELSE SiftDown(up[k-1], n, n \div 2 - k)
  IN  up[n \div 2]

\* Mutant: a better result is not moved down from the root.
PushMutant(h, k, e) ==
  LET n == Cardinality(DOMAIN h)
  IN  IF n < k
        THEN Heapify([j \in 0..n |-> IF j = n THEN e ELSE h[j]], n + 1)
        ELSE IF e.score > h[0].score THEN [h EXCEPT ![0] = e] ELSE h

\* There is room, or the result is better than the worst in the heap.
Push(h, k, e) ==
  LET n == Cardinality(DOMAIN h)
  IN  IF n < k
        THEN Heapify([j \in 0..n |-> IF j = n THEN e ELSE h[j]], n + 1)
        ELSE IF e.score > h[0].score THEN SiftDown([h EXCEPT ![0] = e], n, 0)
                                     ELSE h

\* The smallest goes to the end, again and again: best first.
Sorted(h) ==
  LET n == Cardinality(DOMAIN h)
      out[k \in 0..n] ==
        IF k = 0 THEN h ELSE SiftDown(Swap(out[k-1], 0, n - k), n - k, 0)
  IN  [i \in 1..n |-> out[n][i-1]]

(***************************************************************************)
(* The parent.                                                             *)
(***************************************************************************)
\* Without --db, or with a database; if it cannot be loaded main returns.
Main ==
  /\ main = "start"
  /\ \/ main' = "listen" /\ db' \in {NoDb} \cup {DaemonLoad(f) : f \in Files}
     \/ main' = "stopped" /\ UNCHANGED db
  /\ UNCHANGED <<child, loads>>

\* accept and fork.  (If fork fails the connection is closed.)
Fork(c) ==
  /\ main = "listen" /\ pc[c] = "none"
  /\ pc' = [pc EXCEPT ![c] = "read"] /\ mem' = [mem EXCEPT ![c] = db]
  /\ after_load' = [after_load EXCEPT ![c] = load_done]
  /\ UNCHANGED <<load_done, parent, query, top_k, first, heap, reply, won>>

\* SIGINT or SIGTERM, noticed after accept; the children go on.
Stop ==
  /\ main = "listen" /\ main' = "stopped"
  /\ db' = NoDb
  /\ UNCHANGED <<child, loads>>

(***************************************************************************)
(* A child.                                                                *)
(***************************************************************************)
Respond(c, code, results) ==
  /\ pc' = [pc EXCEPT ![c] = "replied"]
  /\ reply' = [reply EXCEPT ![c] = [code |-> code, results |-> results]]

\* GET /health, GET /status, anything unknown.
Simple(c) ==
  /\ pc[c] = "read"
  /\ \E code \in {200, 404} : Respond(c, code, <<>>)
  /\ UNCHANGED <<parent, loads, mem, query, top_k, first, heap, won>>

\* POST /load, into the child's own copy; no file name, or it cannot be
\* loaded.
Load(c) ==
  /\ pc[c] = "read"
  /\ \/ \E f \in Files : LET d == DaemonLoad(f) IN
          /\ d # NoDb /\ Respond(c, 200, <<>>)
          /\ mem' = [mem EXCEPT ![c] = d] /\ load_done' = TRUE
     \/ \E code \in {400, 500} : Respond(c, code, <<>>)
                               /\ UNCHANGED <<mem, load_done>>
  /\ UNCHANGED <<after_load, parent, query, top_k, first, heap, won>>

\* Mutant: no lower bound.
ClampedMutant(k) == IF k > MaxTopK THEN MaxTopK ELSE k

Clamped(k) == IF k < 1 THEN 1 ELSE IF k > MaxTopK THEN MaxTopK ELSE k

\* POST /search: no memory; no vector, or no numbers in it; no database;
\* the wrong dimension; or the search begins.
Search(c) ==
  /\ pc[c] = "read"
  /\ \E q \in Queries, k \in TopKs :
       \/ Respond(c, 500, <<>>) /\ UNCHANGED <<query, top_k, first, heap, won>>
       \/ /\ q = <<>> \/ mem[c] = NoDb \/ Len(q) # mem[c].dim
          /\ Respond(c, IF q # <<>> /\ mem[c] = NoDb THEN 503 ELSE 400, <<>>)
          /\ UNCHANGED <<query, top_k, first, heap, won>>
       \/ /\ q # <<>> /\ mem[c] # NoDb /\ Len(q) = mem[c].dim
          /\ pc' = [pc EXCEPT ![c] = "search"]
          /\ query' = [query EXCEPT ![c] = q]
          /\ top_k' = [top_k EXCEPT ![c] = Clamped(k)]
          /\ first' = [first EXCEPT ![c] = 0]
          /\ heap' = [heap EXCEPT ![c] = Empty]
          /\ won' = [won EXCEPT ![c] = <<>>]
          /\ UNCHANGED reply
  /\ UNCHANGED <<parent, loads, mem>>

More(c) == first[c] < Len(mem[c].rows)

\* A batch gives one result, or fails and is skipped.
SearchBatch(c) ==
  /\ pc[c] = "search" /\ More(c)
  /\ first' = [first EXCEPT ![c] = @ + Batch(mem[c], @)]
  /\ \/ LET e == Winner(mem[c], query[c], first[c]) IN
          /\ heap' = [heap EXCEPT ![c] = Push(@, top_k[c], e)]
          /\ won' = [won EXCEPT ![c] = Append(@, e)]
     \/ UNCHANGED <<heap, won>>
  /\ UNCHANGED <<parent, loads, pc, mem, query, top_k, reply>>

Answer(c) ==
  /\ pc[c] = "search" /\ ~More(c)
  /\ Respond(c, 200, Sorted(heap[c]))
  /\ UNCHANGED <<parent, loads, mem, query, top_k, first, heap, won>>

\* The child exits after its answer, is killed, or has no request to read.
Exit(c) ==
  /\ pc[c] # "none" /\ pc' = [pc EXCEPT ![c] = "none"]
  /\ mem' = [mem EXCEPT ![c] = NoDb]
  /\ query' = [query EXCEPT ![c] = <<>>] /\ top_k' = [top_k EXCEPT ![c] = 1]
  /\ first' = [first EXCEPT ![c] = 0] /\ heap' = [heap EXCEPT ![c] = Empty]
  /\ reply' = [reply EXCEPT ![c] = NoReply] /\ won' = [won EXCEPT ![c] = <<>>]
  /\ after_load' = [after_load EXCEPT ![c] = FALSE]
  /\ UNCHANGED <<parent, load_done>>

Serve(c) == \/ Fork(c) \/ Simple(c) \/ Load(c) \/ Search(c) \/ SearchBatch(c)
            \/ Answer(c) \/ Exit(c)

DaemonNext == Main \/ Stop \/ \E c \in Clients : Serve(c)
=============================================================================
