---------------------------- MODULE AnalyticsBatch ---------------------------
(***************************************************************************)
(* SqliteAnalyticsStorage of one server process                            *)
(* (optimizer/analytics/analytics-storage.ts): every tool call saves a row, *)
(* rows wait in batchQueue until a batch is full, a timer fires, a report  *)
(* reads the table or the storage is closed.                               *)
(*                                                                         *)
(* Its methods are async: each runs to its next await without interruption *)
(* and what follows joins the end of the queue of the event loop.  All they *)
(* await is settled by then, so that order is the only thing that decides  *)
(* who comes first.  A timer fires when the queue is empty.  Left out: the *)
(* JSONL fallback, which writes at once, and the first opening.            *)
(***************************************************************************)
EXTENDS Naturals, Sequences, FiniteSets

CONSTANTS
  Rows,       \* measurements, each saved once
  Reads,      \* calls that query or count
  Clears,     \* calls that clear
  None,       \* nobody waits
  BatchSize,  \* BATCH_SIZE
  MayFail     \* a transaction may fail: another process holds the database

Calls == Reads \cup Clears

ASSUME AnalyticsAssumption ==
  /\ IsFiniteSet(Rows)
  /\ Reads \cap Clears = {}
  /\ None \notin Calls
  /\ BatchSize \in Nat \ {0}
  /\ MayFail \in BOOLEAN

VARIABLES
  queue,    \* batchQueue
  timer,    \* batchTimer is set
  table,    \* the rows of the analytics table
  open,     \* the connection is open
  ready,    \* the event loop's queue: what continues after an await
  held,     \* the array close() has handed to saveBatch and a flush has since
            \* replaced as batchQueue; empty if it still is batchQueue
  closing,  \* close() has been called
  ended,    \* the process has ended
  call,     \* the calls: how far they are, and what they answered
  saved,    \* history: rows that save() took
  lost,     \* history: rows of batches that failed, that close() dropped or
            \* that were in memory when the process ended
  cleared,  \* history: rows that clear() deleted
  doubled   \* history: rows that were stored while they were in the table

vars == <<queue, timer, table, open, ready, held, closing, ended, call, saved, lost,
          cleared, doubled>>
queueVars == <<queue, timer, held>>
tableVars == <<table, lost, cleared, doubled>>

Steps == {"save", "read", "insert", "flushed", "finish", "close", "closeInsert", "closed"}
Tasks == [step : Steps, rows : SUBSET Rows, call : Calls \cup {None}]
Task(step, rows, c) == [step |-> step, rows |-> rows, call |-> c]

\* known: rows taken before the call began (history); got: the answer.
CallRecords == [pc : {"new", "running", "failed", "done"}, known : SUBSET Rows, got : SUBSET Rows]

TypeOK ==
  /\ queue \subseteq Rows /\ timer \in BOOLEAN
  /\ table \subseteq Rows /\ open \in BOOLEAN
  /\ ready \in Seq(Tasks)
  /\ held \subseteq Rows
  /\ closing \in BOOLEAN /\ ended \in BOOLEAN
  /\ call \in [Calls -> CallRecords]
  /\ saved \subseteq Rows /\ lost \subseteq Rows /\ cleared \subseteq Rows
  /\ doubled \subseteq Rows

Init ==
  /\ queue = {} /\ timer = FALSE /\ table = {} /\ open = TRUE /\ ready = <<>>
  /\ held = {} /\ closing = FALSE /\ ended = FALSE
  /\ call = [c \in Calls |-> [pc |-> "new", known |-> {}, got |-> {}]]
  /\ saved = {} /\ lost = {} /\ cleared = {} /\ doubled = {}

-----------------------------------------------------------------------------
Waiting(step) == {i \in DOMAIN ready : ready[i].step = step}
Under(step) == UNION {ready[i].rows : i \in Waiting(step)}

\* The next continuation is of this kind; rest: those behind it.
Runs(step) == ~ended /\ ready # <<>> /\ Head(ready).step = step
Rest == Tail(ready)

-----------------------------------------------------------------------------
(* Calls come in between any two continuations.                            *)

CallSave(r) ==
  /\ ~ended /\ r \notin saved \cup Under("save")
  /\ ready' = Append(ready, Task("save", {r}, None))
  /\ UNCHANGED <<queueVars, tableVars, open, closing, ended, call, saved>>

Call(c) ==
  /\ ~ended /\ call[c].pc = "new"
  /\ call' = [call EXCEPT ![c].pc = "running", ![c].known = saved]
  /\ ready' = Append(ready, Task("read", {}, c))
  /\ UNCHANGED <<queueVars, tableVars, open, closing, ended, saved>>

CallClose ==
  /\ ~ended /\ ~closing
  /\ closing' = TRUE
  /\ ready' = Append(ready, Task("close", {}, None))
  /\ UNCHANGED <<queueVars, tableVars, open, ended, call, saved>>

-----------------------------------------------------------------------------
(* save, flushBatch, saveBatch.                                            *)

\* A slip in flushBatch: the queue is not emptied.
FlushKeeping(rows, rest, c) ==
  /\ timer' = FALSE
  /\ queue' = rows
  /\ UNCHANGED held
  /\ ready' = IF rows # {} THEN Append(rest, Task("insert", rows, c))
              ELSE IF c # None THEN Append(rest, Task("finish", {}, c)) ELSE rest

\* flushBatch up to its await, with what saveBatch will insert; a caller that
\* awaits an empty flush goes on at once.
Flush(rows, rest, c) ==
  /\ timer' = FALSE
  /\ queue' = {}
  /\ held' = IF held = {} /\ Waiting("closeInsert") # {} THEN rows ELSE held
  /\ ready' = IF rows # {} THEN Append(rest, Task("insert", rows, c))
              ELSE IF c # None THEN Append(rest, Task("finish", {}, c)) ELSE rest

\* A slip in save: a full batch is flushed without the new row.
SaveUnqueued ==
  /\ Runs("save")
  /\ saved' = saved \cup Head(ready).rows
  /\ IF Cardinality(queue) + 1 >= BatchSize
     THEN Flush(queue, Rest, None)
     ELSE /\ queue' = queue \cup Head(ready).rows /\ timer' = TRUE
          /\ ready' = Rest /\ UNCHANGED held
  /\ UNCHANGED <<tableVars, open, closing, ended, call>>

\* A slip in save: the timer is not started.
SaveUnscheduled ==
  /\ Runs("save")
  /\ saved' = saved \cup Head(ready).rows
  /\ LET rows == queue \cup Head(ready).rows
     IN  IF Cardinality(rows) >= BatchSize
         THEN Flush(rows, Rest, None)
         ELSE queue' = rows /\ ready' = Rest /\ UNCHANGED <<timer, held>>
  /\ UNCHANGED <<tableVars, open, closing, ended, call>>

\* save, with scheduleBatchFlush.
Save ==
  /\ Runs("save")
  /\ saved' = saved \cup Head(ready).rows
  /\ LET rows == queue \cup Head(ready).rows
     IN  IF Cardinality(rows) >= BatchSize
         THEN Flush(rows, Rest, None)
         ELSE queue' = rows /\ timer' = TRUE /\ ready' = Rest /\ UNCHANGED held
  /\ UNCHANGED <<tableVars, open, closing, ended, call>>

\* The timer is no reason for the process to stay alive (unref).
Timer ==
  /\ ~ended /\ timer /\ ready = <<>>
  /\ Flush(queue, <<>>, None)
  /\ UNCHANGED <<tableVars, open, closing, ended, call, saved>>

Stored(rows) ==
  /\ table' = table \cup rows
  /\ doubled' = doubled \cup (table \cap rows)
  /\ UNCHANGED <<lost, cleared>>

\* saveBatch's transaction.
Insert ==
  /\ Runs("insert") /\ open
  /\ Stored(Head(ready).rows)
  /\ ready' = IF Head(ready).call = None THEN Rest
              ELSE Append(Rest, Task("flushed", {}, Head(ready).call))
  /\ UNCHANGED <<queueVars, open, closing, ended, call, saved>>

\* A slip in the timer's catch: the flush that nobody waits for is answered too.
RejectedAny(c) ==
  call' = [x \in Calls \cup {c} |->
             IF x = c THEN [pc |-> "failed", known |-> {}, got |-> {}] ELSE call[x]]

Rejected(c) == call' = [x \in Calls |-> IF x = c THEN [call[x] EXCEPT !.pc = "failed"] ELSE call[x]]

\* It throws: the batch has left the queue and nobody has it any more.
InsertFails ==
  /\ Runs("insert") /\ (MayFail \/ ~open)
  /\ lost' = lost \cup Head(ready).rows
  /\ Rejected(Head(ready).call)
  /\ ready' = Rest
  /\ UNCHANGED <<queueVars, table, cleared, doubled, open, closing, ended, saved>>

-----------------------------------------------------------------------------
(* query, queryByDateRange, count and clear.                               *)

\* A slip in query: what is pending is not flushed.
ReadUnflushed ==
  /\ Runs("read")
  /\ ready' = Append(Rest, Task("finish", {}, Head(ready).call))
  /\ UNCHANGED <<queueVars, tableVars, open, closing, ended, call, saved>>

Read ==
  /\ Runs("read")
  /\ Flush(queue, Rest, Head(ready).call)
  /\ UNCHANGED <<tableVars, open, closing, ended, call, saved>>

\* flushBatch returns to its caller.
Flushed ==
  /\ Runs("flushed")
  /\ ready' = Append(Rest, Task("finish", {}, Head(ready).call))
  /\ UNCHANGED <<queueVars, tableVars, open, closing, ended, call, saved>>

Select ==
  /\ Runs("finish") /\ open /\ Head(ready).call \in Reads
  /\ call' = [call EXCEPT ![Head(ready).call].pc = "done", ![Head(ready).call].got = table]
  /\ ready' = Rest
  /\ UNCHANGED <<queueVars, tableVars, open, closing, ended, saved>>

Delete ==
  /\ Runs("finish") /\ open /\ Head(ready).call \in Clears
  /\ table' = {} /\ cleared' = cleared \cup table
  /\ call' = [call EXCEPT ![Head(ready).call].pc = "done"]
  /\ ready' = Rest
  /\ UNCHANGED <<queueVars, lost, doubled, open, closing, ended, saved>>

FinishFails ==
  /\ Runs("finish") /\ (MayFail \/ ~open)
  /\ Rejected(Head(ready).call)
  /\ ready' = Rest
  /\ UNCHANGED <<queueVars, tableVars, open, closing, ended, saved>>

-----------------------------------------------------------------------------
(* close.                                                                  *)

Close ==
  /\ Runs("close")
  /\ IF queue # {}
     THEN ready' = Append(Rest, Task("closeInsert", {}, None)) /\ UNCHANGED <<timer, open>>
     ELSE ready' = Rest /\ timer' = FALSE /\ open' = FALSE
  /\ UNCHANGED <<queue, held, tableVars, closing, ended, call, saved>>

\* saveBatch works on the array itself: it takes rows that have joined since.
CloseInsert ==
  /\ Runs("closeInsert")
  /\ Stored(IF held = {} THEN queue ELSE held)
  /\ ready' = Append(Rest, Task("closed", {}, None))
  /\ UNCHANGED <<queueVars, open, closing, ended, call, saved>>

\* It throws: close() is rejected, the queue stays as it is.
CloseFails ==
  /\ Runs("closeInsert") /\ MayFail
  /\ ready' = Rest
  /\ UNCHANGED <<queueVars, tableVars, open, closing, ended, call, saved>>

\* The queue is replaced, with the rows that joined after the insert.
Closed ==
  /\ Runs("closed")
  /\ lost' = lost \cup (queue \ table)
  /\ queue' = {} /\ timer' = FALSE /\ open' = FALSE
  /\ ready' = Rest
  /\ UNCHANGED <<held, table, cleared, doubled, closing, ended, call, saved>>

-----------------------------------------------------------------------------
\* The host closes the server's input or kills it; close() is not called, and
\* what is in memory is gone.
End ==
  /\ ~ended
  /\ ended' = TRUE
  /\ lost' = lost \cup queue \cup Under("insert")
  /\ queue' = {} /\ timer' = FALSE /\ held' = {} /\ ready' = <<>>
  /\ UNCHANGED <<table, cleared, doubled, open, closing, call, saved>>

Run ==
  \/ Save \/ Insert \/ InsertFails
  \/ Read \/ Flushed \/ Select \/ Delete \/ FinishFails
  \/ Close \/ CloseInsert \/ CloseFails \/ Closed

Next ==
  \/ \E r \in Rows : CallSave(r)
  \/ \E c \in Calls : Call(c)
  \/ CallClose
  \/ Run
  \/ Timer
  \/ End

\* The event loop runs what is ready, and a timer whose delay is over; nothing
\* makes a call come in.
Spec == Init /\ [][Next]_vars /\ WF_vars(Run) /\ WF_vars(Timer)

-----------------------------------------------------------------------------
(* Properties.                                                             *)

\* A row that save() has taken is in the queue, in a batch under way or in the
\* table, whatever flushes, reads and closes are interleaved, unless its batch
\* failed, close() dropped it, the process ended or clear() deleted it (flushBatch
\* takes the queue before it awaits).
NothingVanishes == saved \subseteq queue \cup Under("insert") \cup table \cup lost \cup cleared

\* A report contains every row that save() had taken when it was asked for, in
\* the queue or in a batch that another flush had under way ("Ensure any pending
\* writes are flushed").
ReadsSeeSaves ==
  \A c \in Reads : call[c].pc = "done" => call[c].known \subseteq call[c].got \cup lost \cup cleared

\* No row is stored twice, although ids have no unique index (only those that
\* begin with "mcp:" have one), unless close() is called: its insert and that of
\* a flush which comes in between take the same rows.
StoredOnce == closing \/ doubled = {}

\* Every row that save() has taken ends in the table (until clear() deletes it)
\* or is lost with its batch: a full batch, a read or the timer takes it out of
\* the queue, however the others come in between (scheduleBatchFlush).
RowsSettle == \A r \in Rows : r \in saved ~> r \in table \cup lost \cup cleared

-----------------------------------------------------------------------------
(* What the comments say and the code does not keep.                       *)

\* A row is lost only while its tool call still waits for it ("a flush failure
\* surfaces as a slow response rather than a silently lost write", server.ts):
\* a failed batch holds the rows of calls that were answered long ago.
LossesSurface == ended \/ lost \cap saved = {}
=============================================================================
