----------------------------- MODULE SppuSession -----------------------------
(***************************************************************************)
(* Processes that search a database through libsppu on one emulated        *)
(* /dev/sppu: the batch loop of examples/semantic_search/sppu_searchd.c,   *)
(* do_search over sppu_search_batch, whose calls in libsppu.c are one      *)
(* ioctl each.  (The loop of tools/sppu_search.c makes the same calls; it  *)
(* gives up where the daemon skips a batch.)  A process may fail to open   *)
(* the device or an allocation in the driver, and may be killed anywhere.  *)
(***************************************************************************)
EXTENDS SppuDriver

CONSTANTS
  Clients,      \* processes that may have the device open at the same time
  Databases,    \* records [dim, size, vec]: size vectors of dim elements
  Queries       \* vectors searched for

ASSUME SessionAssumption ==
  /\ \A db \in Databases :
       /\ db.dim \in 1..MaxDimension /\ db.size \in Nat \ {0}
       /\ db.vec \in [0..db.size-1 -> Vector]
  /\ Queries \subseteq Vector

VARIABLES
  pc,           \* the library call each process makes next
  db, query,    \* its request
  first,        \* batch_start: database index of the first vector in its batch
  loaded,       \* vectors of the batch loaded so far
  answer        \* index and score GET_RESULT returned

client == <<pc, db, query, first, loaded, answer>>
vars   == <<device, client>>

NoAnswer == [idx |-> NoIndex, score |-> Floor]

PCs == {"idle", "reset", "configure", "load", "target", "start", "wait",
        "result", "answered"}

TypeOK ==
  /\ DriverTypeOK
  /\ pc \in [Clients -> PCs]
  /\ db \in [Clients -> Databases] /\ query \in [Clients -> Queries]
  /\ first \in [Clients -> Nat] /\ loaded \in [Clients -> 0..MaxVectors]
  /\ answer \in [Clients -> [idx : Slots \cup {NoIndex}, score : Score]]

Init ==
  /\ DriverInit
  /\ pc = [c \in Clients |-> "idle"]
  /\ db \in [Clients -> Databases] /\ query \in [Clients -> Queries]
  /\ first = [c \in Clients |-> 0] /\ loaded = [c \in Clients |-> 0]
  /\ answer = [c \in Clients |-> NoAnswer]

\* Mutant: the batch is not capped.
BatchMutant(c) == db[c].size - first[c]

\* How many vectors are in c's batch.
Batch(c) == IF db[c].size - first[c] > MaxVectors THEN MaxVectors
                                                  ELSE db[c].size - first[c]

At(c, here)    == pc[c] = here
GoTo(c, there) == pc' = [pc EXCEPT ![c] = there]

\* A request arrives, with its database and query: the first batch begins.
Request(c) ==
  /\ At(c, "idle") /\ GoTo(c, "reset")
  /\ \E d \in Databases, q \in Queries :
        db' = [db EXCEPT ![c] = d] /\ query' = [query EXCEPT ![c] = q]
  /\ first' = [first EXCEPT ![c] = 0]
  /\ loaded' = [loaded EXCEPT ![c] = 0]
  /\ answer' = [answer EXCEPT ![c] = NoAnswer]
  /\ UNCHANGED device

kept == <<db, query, first, answer>>

CallReset(c) ==
  /\ At(c, "reset") /\ GoTo(c, "configure")
  /\ Reset /\ UNCHANGED <<kept, loaded>>

CallConfigure(c) ==
  /\ At(c, "configure") /\ GoTo(c, "load")
  /\ SetParam(Batch(c), db[c].dim)
  /\ loaded' = [loaded EXCEPT ![c] = 0]
  /\ UNCHANGED kept

CallLoadVector(c) ==
  /\ At(c, "load") /\ loaded[c] < Batch(c)
  /\ LoadVec(loaded[c], db[c].vec[first[c] + loaded[c]], db[c].dim)
  /\ loaded' = [loaded EXCEPT ![c] = @ + 1]
  /\ UNCHANGED <<pc, kept>>

AllLoaded(c) ==
  /\ At(c, "load") /\ loaded[c] = Batch(c) /\ GoTo(c, "target")
  /\ UNCHANGED <<device, kept, loaded>>

CallSetTarget(c) ==
  /\ At(c, "target") /\ GoTo(c, "start")
  /\ SetTarget(query[c], db[c].dim)
  /\ UNCHANGED <<kept, loaded>>

CallStart(c) ==
  /\ At(c, "start") /\ GoTo(c, "wait")
  /\ Start /\ UNCHANGED <<kept, loaded>>

\* sppu_wait_result: GET_STATUS until DONE, then GET_RESULT, two ioctls.
\* A poll that does not read DONE changes nothing.
PollStatus(c) ==
  /\ At(c, "wait") /\ status = "DONE" /\ GoTo(c, "result")
  /\ UNCHANGED <<device, kept, loaded>>

CallGetResult(c) ==
  /\ At(c, "result") /\ GoTo(c, "answered")
  /\ answer' = [answer EXCEPT ![c] = [idx |-> result_idx, score |-> result_score]]
  /\ UNCHANGED <<device, db, query, first, loaded>>

\* The next batch, or the end of the request.
Advance(c) ==
  /\ first' = [first EXCEPT ![c] = @ + Batch(c)]
  /\ GoTo(c, IF first[c] + Batch(c) < db[c].size THEN "reset" ELSE "idle")
  /\ UNCHANGED <<device, db, query, loaded, answer>>

NextBatch(c) == At(c, "answered") /\ Advance(c)

\* sppu_open fails, or kmalloc in LOAD_VEC or SET_TARGET does: do_search
\* skips the batch.
SkipBatch(c) == pc[c] \in {"reset", "load", "target"} /\ Advance(c)

\* The process is killed; the device keeps what it was given.
Killed(c) ==
  /\ pc[c] # "idle" /\ GoTo(c, "idle")
  /\ UNCHANGED <<device, kept, loaded>>

Call(c) ==
  \/ CallReset(c) \/ CallConfigure(c) \/ CallLoadVector(c) \/ AllLoaded(c)
  \/ CallSetTarget(c) \/ CallStart(c) \/ PollStatus(c) \/ CallGetResult(c)
  \/ NextBatch(c)

Next == \E c \in Clients : Request(c) \/ Call(c) \/ SkipBatch(c) \/ Killed(c)

Spec == Init /\ [][Next]_vars

\* A process in the middle of a request is scheduled again and again.
FairSpec == Spec /\ \A c \in Clients : WF_vars(Call(c))

(***************************************************************************)
(* Properties.                                                             *)
(***************************************************************************)

\* The scores of c's own batch against its own query.
OwnScores(c) ==
  [j \in Slots |-> IF j < Batch(c)
                     THEN Dot(db[c].vec[first[c] + j], query[c], db[c].dim)
                     ELSE NaN]

\* What sppu_wait_result returns to a process is the best match among the
\* vectors that process loaded for the query it set: nothing of an earlier
\* session, finished, failed or killed, of another database or dimension,
\* or of another process reaches the answer.
AnswerIsOwn ==
  \A c \in Clients :
    At(c, "answered") =>
      IsBest(OwnScores(c), Batch(c), answer[c].idx, answer[c].score)

\* Every request ends: in particular no process polls STATUS for ever, with
\* the timeout of sppu_wait_result never needed.
RequestEnds == \A c \in Clients : At(c, "reset") ~> At(c, "idle")
=============================================================================
