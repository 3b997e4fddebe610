---------------------------- MODULE SearchClients ----------------------------
(***************************************************************************)
(* The daemon and the tool: one of the two is run, on any file, for any    *)
(* request, and both have to give the same kind of answer.                 *)
(***************************************************************************)
EXTENDS Searchd, SearchTool

vars == <<daemon, toolVars>>

Results  == Seq([idx : Nat, score : Int])
Codes    == {0, 200, 400, 404, 500, 503}
IsDb(d)  == d.dim \in Nat /\ \A i \in DOMAIN d.rows : Len(d.rows[i]) = d.dim

TypeOK ==
  /\ main \in {"start", "listen", "stopped"}
  /\ IsDb(db)
  /\ pc \in [Clients -> {"none", "read", "search", "replied"}]
  /\ top_k \in [Clients -> 1..MaxTopK] /\ first \in [Clients -> Nat]
  /\ \A c \in Clients :
       /\ IsDb(mem[c]) /\ query[c] \in Queries \cup {<<>>}
       /\ won[c] \in Results
       /\ DOMAIN heap[c] = 0..Cardinality(DOMAIN heap[c])-1
       /\ Cardinality(DOMAIN heap[c]) <= top_k[c]
       /\ reply[c].code \in Codes /\ reply[c].results \in Results
  /\ load_done \in BOOLEAN /\ after_load \in [Clients -> BOOLEAN]
  /\ tool \in {"start", "search", "printed", "failed"}
  /\ IsDb(tool_db) /\ tool_query \in ToolQueries \cup {<<>>}
  /\ tool_k \in Nat \ {0} /\ tool_first \in Nat
  /\ Len(g_results) <= 2 * tool_k
  /\ {g_results, printed, found} \subseteq Results

Init == DaemonInit /\ ToolInit

\* They share nothing but the device, which is SppuSession's subject.
Next == \/ tool = "start" /\ DaemonNext /\ UNCHANGED toolVars
        \/ main = "start" /\ ToolNext /\ UNCHANGED daemon

Spec == Init /\ [][Next]_vars

(***************************************************************************)
(* Properties.                                                             *)
(***************************************************************************)
Searched(c) == pc[c] = "replied" /\ won[c] # <<>>

\* The daemon answers a search with the top_k best of what the batches that
\* did not fail have found, best first: the heap loses none of them, in
\* whatever order they come and whichever are equal.
DaemonAnswersTop ==
  \A c \in Clients : Searched(c) => IsTop(reply[c].results, won[c], top_k[c])

\* So does the tool, with a list that is cut to twice that many.
ToolPrintsTop == tool = "printed" => IsTop(printed, found, tool_k)

\* If no batch fails, no vector of the whole database scores above the first
\* result: batch by batch search loses the best match nowhere.
BestComesFirst ==
  /\ \A c \in Clients :
       Searched(c) /\ Len(won[c]) * MaxVectors >= Len(mem[c].rows) =>
         NoneAbove(reply[c].results, mem[c], query[c])
  /\ tool = "printed" => NoneAbove(printed, tool_db, tool_query)

\* Every result of either names the vector of the database that has its
\* score, not the one of the batch; but for a batch in which no vector
\* scores above -1e9 the result has that score and an index that means
\* nothing (offset + (uint32_t)-1).
ResultsNameVectors ==
  /\ \A c \in Clients :
       Searched(c) => NamesVectors(reply[c].results, mem[c], query[c])
  /\ tool = "printed" => NamesVectors(printed, tool_db, tool_query)

\* From a file the tool accepts the daemon loads the same vectors, although
\* it reads leniently: unless a line is CR LF alone, which its second pass
\* takes for a vector, so that the last vector of the file is lost.
LoadersAgree ==
  /\ tool \in {"search", "printed"}
  /\ tool_file.format = "csv" =>
       \A i \in DOMAIN tool_file.lines : tool_file.lines[i].kind # "crlf"
  => DaemonLoad(tool_file) = tool_db

\* A client whose connection is accepted after a POST /load was answered with
\* 200 is not told that there is no database ("No database loaded. Use POST
\* /load first.").
LoadServesSearches == \A c \in Clients : after_load[c] => reply[c].code # 503
=============================================================================
