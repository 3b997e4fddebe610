----------------------------- MODULE SearchTool -----------------------------
(***************************************************************************)
(* tools/sppu_search.c in its search mode: load, check, search batch by    *)
(* batch, keep twice as many results as are wanted, print the best.  (Its  *)
(* other mode writes a file of random vectors.)                            *)
(***************************************************************************)
EXTENDS VectorDb

CONSTANTS
  ToolQueries,    \* vectors of --query or --query-file; <<>> if that fails
  ToolTopKs,      \* --top, after atoi
  ToolMaxTopK,    \* MAX_TOP_K
  DefaultTopK     \* 5

ASSUME ToolAssumption ==
  /\ ToolQueries \subseteq Seq(Score)
  /\ ToolTopKs \subseteq Nat /\ ToolMaxTopK \in Nat /\ DefaultTopK \in Nat \ {0}
  /\ \A f \in Files : Scored(ToolLoad(f), ToolQueries)

VARIABLES
  tool,           \* "start", "search", "printed", "failed"
  tool_file,      \* the argument of --db
  tool_db, tool_query, tool_k,
  tool_first,     \* batch_start
  g_results,      \* as long as g_result_count, at most 2 * tool_k
  printed,
  found           \* history: what each batch found

toolVars == <<tool, tool_file, tool_db, tool_query, tool_k, tool_first,
              g_results, printed, found>>

ToolInit ==
  /\ tool = "start" /\ tool_file = [format |-> "none"]
  /\ tool_db = NoDb /\ tool_query = <<>> /\ tool_k = DefaultTopK
  /\ tool_first = 0 /\ g_results = <<>> /\ printed = <<>> /\ found = <<>>

Start ==
  /\ tool = "start" /\ tool_file' \in Files
  /\ tool_db' = ToolLoad(tool_file')
  /\ tool_query' \in ToolQueries
  /\ \E k \in ToolTopKs :
       tool_k' = IF k = 0 \/ k > ToolMaxTopK THEN DefaultTopK ELSE k
  /\ \/ /\ tool_db' # NoDb /\ Len(tool_query') = tool_db'.dim
        /\ tool' = "search"
     \/ tool' = "failed"           \* as above, or the device does not open
  /\ tool_first' = 0 /\ g_results' = <<>> /\ printed' = <<>> /\ found' = <<>>

\* qsort with cmp_desc: results of the same score come in any order.
Descending(s) ==
  {t \in {[i \in DOMAIN s |-> s[p[i]]] : p \in Bijection(DOMAIN s, DOMAIN s)} :
     \A i \in 1..Len(s)-1 : t[i].score >= t[i+1].score}

\* Mutant: the list is not sorted before its last element is replaced.
AddResultMutant(e) ==
  \/ /\ Len(g_results) < 2 * tool_k /\ g_results' = Append(g_results, e)
  \/ /\ Len(g_results) = 2 * tool_k
     /\ g_results' = IF e.score > g_results[Len(g_results)].score
                       THEN [g_results EXCEPT ![Len(g_results)] = e]
                       ELSE g_results

AddResult(e) ==
  \/ /\ Len(g_results) < 2 * tool_k /\ g_results' = Append(g_results, e)
  \/ /\ Len(g_results) = 2 * tool_k
     /\ \E s \in Descending(g_results) :
          g_results' = IF e.score > s[Len(s)].score THEN [s EXCEPT ![Len(s)] = e]
                                                    ELSE s

ToolMore == tool_first < Len(tool_db.rows)

ToolBatch ==
  /\ tool = "search" /\ ToolMore
  /\ LET e == Winner(tool_db, tool_query, tool_first) IN
       AddResult(e) /\ found' = Append(found, e)
  /\ tool_first' = tool_first + Batch(tool_db, tool_first)
  /\ UNCHANGED <<tool, tool_file, tool_db, tool_query, tool_k, printed>>

\* A call fails: the program ends with no results.
ToolFails ==
  /\ tool = "search" /\ ToolMore
  /\ tool' = "failed"
  /\ UNCHANGED <<tool_file, tool_db, tool_query, tool_k, tool_first, g_results,
                 printed, found>>

PrintResults ==
  /\ tool = "search" /\ ~ToolMore
  /\ g_results' \in Descending(g_results)
  /\ printed' = SubSeq(g_results', 1, Least(tool_k, Len(g_results')))
  /\ tool' = "printed"
  /\ UNCHANGED <<tool_file, tool_db, tool_query, tool_k, tool_first, found>>

ToolNext == Start \/ ToolBatch \/ ToolFails \/ PrintResults
=============================================================================
