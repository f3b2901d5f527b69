------------------------- MODULE AnalyticsBatchProofs ------------------------
(***************************************************************************)
(* What becomes of the rows, for any number of rows, reads and clears, any *)
(* batch size, any failures and any order in which the calls come in.      *)
(***************************************************************************)
EXTENDS AnalyticsBatch, TLAPS

-----------------------------------------------------------------------------
(* The queue of the event loop: what is put behind it and what leaves it.  *)

Has(s, step, r) == \E i \in 1..Len(s) : s[i].step = step /\ r \in s[i].rows

LEMMA Pushed ==
  ASSUME NEW s \in Seq(Tasks), NEW t \in Tasks
  PROVE  /\ Append(s, t) \in Seq(Tasks)
         /\ Len(Append(s, t)) = Len(s) + 1
         /\ \A i \in 1..Len(s) : Append(s, t)[i] = s[i]
         /\ Append(s, t)[Len(s) + 1] = t
         /\ Len(s) \in Nat
OBVIOUS

LEMMA Popped ==
  ASSUME NEW s \in Seq(Tasks), s # <<>>
  PROVE  /\ Tail(s) \in Seq(Tasks)
         /\ Head(s) \in Tasks
         /\ Head(s) = s[1]
         /\ Len(s) \in Nat \ {0}
         /\ Len(Tail(s)) = Len(s) - 1
         /\ \A i \in 1..Len(Tail(s)) : Tail(s)[i] = s[i + 1]
OBVIOUS

LEMMA TaskParts ==
  ASSUME NEW t \in Tasks
  PROVE  t.step \in Steps /\ t.rows \subseteq Rows /\ t.call \in Calls \cup {None}
BY DEF Tasks

LEMMA TaskType ==
  ASSUME NEW step \in Steps, NEW rows \in SUBSET Rows, NEW c \in Calls \cup {None}
  PROVE  /\ Task(step, rows, c) \in Tasks
         /\ Task(step, rows, c).step = step
         /\ Task(step, rows, c).rows = rows
         /\ Task(step, rows, c).call = c
BY DEF Task, Tasks

LEMMA UnderHas ==
  ASSUME NEW step, ready \in Seq(Tasks)
  PROVE  \A r : r \in Under(step) <=> Has(ready, step, r)
<1>1. DOMAIN ready = 1..Len(ready)
  OBVIOUS
<1> QED BY <1>1 DEF Under, Waiting, Has

LEMMA HasPushed ==
  ASSUME NEW s \in Seq(Tasks), NEW t \in Tasks, NEW step, NEW r
  PROVE  Has(Append(s, t), step, r) <=> Has(s, step, r) \/ (t.step = step /\ r \in t.rows)
<1> DEFINE n == Len(s)
<1>1. /\ n \in Nat /\ Len(Append(s, t)) = n + 1 /\ Append(s, t)[n + 1] = t
      /\ \A i \in 1..n : Append(s, t)[i] = s[i]
  BY Pushed
<1>2. 1..(n + 1) = 1..n \cup {n + 1}
  BY <1>1
<1> HIDE DEF n
<1> QED BY <1>1, <1>2 DEF Has, n

LEMMA HasPopped ==
  ASSUME NEW s \in Seq(Tasks), s # <<>>, NEW step, NEW r
  PROVE  Has(s, step, r) <=> Has(Tail(s), step, r) \/ (Head(s).step = step /\ r \in Head(s).rows)
<1>1. /\ Head(s) = s[1] /\ Len(s) \in Nat \ {0} /\ Len(Tail(s)) = Len(s) - 1
      /\ \A i \in 1..Len(Tail(s)) : Tail(s)[i] = s[i + 1]
  BY Popped
<1>2. ASSUME Has(s, step, r), ~ (Head(s).step = step /\ r \in Head(s).rows)
      PROVE  Has(Tail(s), step, r)
  <2>1. PICK i \in 1..Len(s) : s[i].step = step /\ r \in s[i].rows
    BY <1>2 DEF Has
  <2>2. i # 1
    BY <2>1, <1>1, <1>2
  <2>3. i - 1 \in 1..Len(Tail(s)) /\ Tail(s)[i - 1] = s[i]
    BY <2>1, <2>2, <1>1
  <2> QED BY <2>1, <2>3 DEF Has
<1>3. ASSUME Has(Tail(s), step, r) PROVE Has(s, step, r)
  <2>1. PICK i \in 1..Len(Tail(s)) : Tail(s)[i].step = step /\ r \in Tail(s)[i].rows
    BY <1>3 DEF Has
  <2>2. i + 1 \in 1..Len(s) /\ s[i + 1] = Tail(s)[i]
    BY <2>1, <1>1
  <2> QED BY <2>1, <2>2 DEF Has
<1>4. ASSUME Head(s).step = step, r \in Head(s).rows PROVE Has(s, step, r)
  <2>1. 1 \in 1..Len(s)
    BY <1>1
  <2> QED BY <2>1, <1>4, <1>1 DEF Has
<1> QED BY <1>2, <1>3, <1>4

-----------------------------------------------------------------------------
(* Types.                                                                  *)

LEMMA NothingReady == <<>> \in Seq(Tasks)
OBVIOUS

LEMMA TypeInit == Init => TypeOK
<1> SUFFICES ASSUME Init PROVE TypeOK
  OBVIOUS
<1>1. [pc |-> "new", known |-> {}, got |-> {}] \in CallRecords
  BY DEF CallRecords
<1>2. call \in [Calls -> CallRecords]
  BY <1>1 DEF Init
<1> QED BY <1>2, NothingReady DEF Init, TypeOK

\* What flushBatch makes of the queue and of the tasks behind the one that runs.
LEMMA FlushType ==
  ASSUME TypeOK, NEW rows \in SUBSET Rows, NEW rest \in Seq(Tasks),
         NEW c \in Calls \cup {None}, Flush(rows, rest, c)
  PROVE  /\ queue' = {} /\ timer' = FALSE /\ held' \subseteq Rows
         /\ ready' \in Seq(Tasks)
         /\ \/ rows # {} /\ ready' = Append(rest, Task("insert", rows, c))
            \/ rows = {} /\ c # None /\ ready' = Append(rest, Task("finish", {}, c))
            \/ rows = {} /\ ready' = rest
<1>1. Task("insert", rows, c) \in Tasks /\ Task("finish", {}, c) \in Tasks
  BY TaskType DEF Steps
<1>2. /\ Append(rest, Task("insert", rows, c)) \in Seq(Tasks)
      /\ Append(rest, Task("finish", {}, c)) \in Seq(Tasks)
  BY <1>1, Pushed
<1> QED BY <1>2 DEF Flush, TypeOK

LEMMA RunsParts ==
  ASSUME TypeOK, NEW step, Runs(step)
  PROVE  /\ ready \in Seq(Tasks) /\ ready # <<>> /\ Rest = Tail(ready) /\ Rest \in Seq(Tasks)
         /\ Head(ready) \in Tasks /\ Head(ready).step = step
         /\ Head(ready).rows \subseteq Rows /\ Head(ready).call \in Calls \cup {None}
<1>1. ready \in Seq(Tasks) /\ ready # <<>> /\ Head(ready).step = step
  BY DEF TypeOK, Runs
<1>2. Tail(ready) \in Seq(Tasks) /\ Head(ready) \in Tasks
  BY <1>1, Popped
<1> QED BY <1>1, <1>2, TaskParts DEF Rest

LEMMA RejectedType ==
  ASSUME TypeOK, NEW c, Rejected(c)
  PROVE  call' \in [Calls -> CallRecords]
BY DEF TypeOK, Rejected, CallRecords

LEMMA TypeStep == TypeOK /\ [Next]_vars => TypeOK'
<1> SUFFICES ASSUME TypeOK, [Next]_vars PROVE TypeOK'
  OBVIOUS
<1> USE DEF queueVars, tableVars
<1>1. ASSUME NEW r \in Rows, CallSave(r) PROVE TypeOK'
  <2>1. Task("save", {r}, None) \in Tasks
    BY TaskType DEF Steps
  <2>2. ready' \in Seq(Tasks)
    BY <2>1, <1>1, Pushed DEF CallSave, TypeOK
  <2> QED BY <2>2, <1>1 DEF CallSave, TypeOK
<1>2. ASSUME NEW c \in Calls, Call(c) PROVE TypeOK'
  <2>1. Task("read", {}, c) \in Tasks
    BY TaskType DEF Steps
  <2>2. ready' \in Seq(Tasks)
    BY <2>1, <1>2, Pushed DEF Call, TypeOK
  <2>3. call' \in [Calls -> CallRecords]
    BY <1>2 DEF Call, TypeOK, CallRecords
  <2> QED BY <2>2, <2>3, <1>2 DEF Call, TypeOK
<1>3. ASSUME CallClose PROVE TypeOK'
  <2>1. Task("close", {}, None) \in Tasks
    BY TaskType DEF Steps
  <2>2. ready' \in Seq(Tasks)
    BY <2>1, <1>3, Pushed DEF CallClose, TypeOK
  <2> QED BY <2>2, <1>3 DEF CallClose, TypeOK
<1>4. ASSUME Save PROVE TypeOK'
  <2> DEFINE rows == queue \cup Head(ready).rows
  <2>1. Rest \in Seq(Tasks) /\ Head(ready).rows \subseteq Rows
    BY <1>4, RunsParts DEF Save
  <2>2. rows \in SUBSET Rows
    BY <2>1 DEF TypeOK
  <2>3. CASE Flush(rows, Rest, None)
    BY <2>1, <2>2, <2>3, <1>4, FlushType DEF Save, TypeOK
  <2>4. CASE queue' = rows /\ timer' = TRUE /\ ready' = Rest /\ UNCHANGED held
    BY <2>1, <2>2, <2>4, <1>4 DEF Save, TypeOK
  <2> QED BY <2>3, <2>4, <1>4 DEF Save
<1>5. ASSUME Timer PROVE TypeOK'
  <2>1. Flush(queue, <<>>, None) /\ queue \in SUBSET Rows /\ <<>> \in Seq(Tasks)
    BY <1>5 DEF Timer, TypeOK
  <2> QED BY <2>1, <1>5, FlushType DEF Timer, TypeOK
<1>6. ASSUME Insert PROVE TypeOK'
  <2>1. Rest \in Seq(Tasks) /\ Head(ready).rows \subseteq Rows /\ Head(ready).call \in Calls \cup {None}
    BY <1>6, RunsParts DEF Insert
  <2>2. Task("flushed", {}, Head(ready).call) \in Tasks
    BY <2>1, TaskType DEF Steps
  <2>3. Append(Rest, Task("flushed", {}, Head(ready).call)) \in Seq(Tasks)
    BY <2>1, <2>2, Pushed
  <2> QED BY <2>1, <2>3, <1>6 DEF Insert, Stored, TypeOK
<1>7. ASSUME InsertFails PROVE TypeOK'
  <2>1. Rest \in Seq(Tasks) /\ Head(ready).rows \subseteq Rows
    BY <1>7, RunsParts DEF InsertFails
  <2>2. call' \in [Calls -> CallRecords]
    BY <1>7, RejectedType DEF InsertFails
  <2> QED BY <2>1, <2>2, <1>7 DEF InsertFails, TypeOK
<1>8. ASSUME Read PROVE TypeOK'
  <2>1. Rest \in Seq(Tasks) /\ Head(ready).call \in Calls \cup {None}
    BY <1>8, RunsParts DEF Read
  <2>2. Flush(queue, Rest, Head(ready).call) /\ queue \in SUBSET Rows
    BY <1>8 DEF Read, TypeOK
  <2> QED BY <2>1, <2>2, <1>8, FlushType DEF Read, TypeOK
<1>9. ASSUME Flushed PROVE TypeOK'
  <2>1. Rest \in Seq(Tasks) /\ Head(ready).call \in Calls \cup {None}
    BY <1>9, RunsParts DEF Flushed
  <2>2. Task("finish", {}, Head(ready).call) \in Tasks
    BY <2>1, TaskType DEF Steps
  <2>3. ready' \in Seq(Tasks)
    BY <2>1, <2>2, <1>9, Pushed DEF Flushed
  <2> QED BY <2>3, <1>9 DEF Flushed, TypeOK
<1>10. ASSUME Select PROVE TypeOK'
  <2>1. Rest \in Seq(Tasks)
    BY <1>10, RunsParts DEF Select
  <2>2. call' \in [Calls -> CallRecords]
    BY <1>10 DEF Select, TypeOK, CallRecords, Calls
  <2> QED BY <2>1, <2>2, <1>10 DEF Select, TypeOK
<1>11. ASSUME Delete PROVE TypeOK'
  <2>1. Rest \in Seq(Tasks)
    BY <1>11, RunsParts DEF Delete
  <2>2. call' \in [Calls -> CallRecords]
    BY <1>11 DEF Delete, TypeOK, CallRecords, Calls
  <2> QED BY <2>1, <2>2, <1>11 DEF Delete, TypeOK
<1>12. ASSUME FinishFails PROVE TypeOK'
  <2>1. Rest \in Seq(Tasks)
    BY <1>12, RunsParts DEF FinishFails
  <2>2. call' \in [Calls -> CallRecords]
    BY <1>12, RejectedType DEF FinishFails
  <2> QED BY <2>1, <2>2, <1>12 DEF FinishFails, TypeOK
<1>13. ASSUME Close PROVE TypeOK'
  <2>1. Rest \in Seq(Tasks)
    BY <1>13, RunsParts DEF Close
  <2>2. Task("closeInsert", {}, None) \in Tasks
    BY TaskType DEF Steps
  <2>3. Append(Rest, Task("closeInsert", {}, None)) \in Seq(Tasks)
    BY <2>1, <2>2, Pushed
  <2> QED BY <2>1, <2>3, <1>13 DEF Close, TypeOK
<1>14. ASSUME CloseInsert PROVE TypeOK'
  <2>1. Rest \in Seq(Tasks)
    BY <1>14, RunsParts DEF CloseInsert
  <2>2. Task("closed", {}, None) \in Tasks
    BY TaskType DEF Steps
  <2>3. ready' \in Seq(Tasks)
    BY <2>1, <2>2, <1>14, Pushed DEF CloseInsert
  <2> QED BY <2>3, <1>14 DEF CloseInsert, Stored, TypeOK
<1>15. ASSUME CloseFails PROVE TypeOK'
  <2>1. Rest \in Seq(Tasks)
    BY <1>15, RunsParts DEF CloseFails
  <2> QED BY <2>1, <1>15 DEF CloseFails, TypeOK
<1>16. ASSUME Closed PROVE TypeOK'
  <2>1. Rest \in Seq(Tasks)
    BY <1>16, RunsParts DEF Closed
  <2> QED BY <2>1, <1>16 DEF Closed, TypeOK
<1>17. ASSUME End PROVE TypeOK'
  <2>1. Under("insert") \subseteq Rows
    <3>1. ready \in Seq(Tasks)
      BY DEF TypeOK
    <3>2. \A r : Has(ready, "insert", r) => r \in Rows
      BY <3>1, TaskParts DEF Has
    <3> QED BY <3>1, <3>2, UnderHas
  <2>2. lost' \subseteq Rows
    BY <2>1, <1>17 DEF End, TypeOK
  <2> QED BY <2>2, <1>17, NothingReady DEF End, TypeOK
<1>18. ASSUME UNCHANGED vars PROVE TypeOK'
  BY <1>18 DEF vars, TypeOK
<1> QED BY <1>1, <1>2, <1>3, <1>4, <1>5, <1>6, <1>7, <1>8, <1>9, <1>10, <1>11, <1>12, <1>13,
           <1>14, <1>15, <1>16, <1>17, <1>18 DEF Next, Run

\* Every step of the queue, the connection and the calls keeps its types
\* (SqliteAnalyticsStorage).
THEOREM TypeCorrect == Spec => []TypeOK
BY TypeInit, TypeStep, PTL DEF Spec

-----------------------------------------------------------------------------
(* No row vanishes.                                                        *)

Safe == table \cup lost \cup cleared

VanishInv == \A r \in saved : r \in queue \/ Has(ready, "insert", r) \/ r \in Safe

LEMMA FlushHas ==
  ASSUME TypeOK, NEW rows \in SUBSET Rows, NEW rest \in Seq(Tasks),
         NEW c \in Calls \cup {None}, Flush(rows, rest, c), NEW r
  PROVE  Has(ready', "insert", r) <=> Has(rest, "insert", r) \/ r \in rows
<1>1. \/ rows # {} /\ ready' = Append(rest, Task("insert", rows, c))
      \/ rows = {} /\ c # None /\ ready' = Append(rest, Task("finish", {}, c))
      \/ rows = {} /\ ready' = rest
  BY FlushType
<1>2. /\ Task("insert", rows, c) \in Tasks /\ Task("finish", {}, c) \in Tasks
      /\ Task("insert", rows, c).step = "insert" /\ Task("insert", rows, c).rows = rows
      /\ Task("finish", {}, c).rows = {}
  BY TaskType DEF Steps
<1>3. CASE rows # {} /\ ready' = Append(rest, Task("insert", rows, c))
  BY <1>3, <1>2, HasPushed
<1>4. CASE rows = {} /\ ready' = Append(rest, Task("finish", {}, c))
  <2> DEFINE t == Task("finish", {}, c)
  <2>1. Has(Append(rest, t), "insert", r) <=> Has(rest, "insert", r) \/ (t.step = "insert" /\ r \in t.rows)
    BY <1>2, HasPushed
  <2> QED BY <2>1, <1>2, <1>4
<1>5. CASE rows = {} /\ ready' = rest
  BY <1>5
<1> QED BY <1>1, <1>3, <1>4, <1>5

\* A task that inserts nothing leaves, and one that inserts nothing may follow.
LEMMA PassHas ==
  ASSUME TypeOK, NEW step, Runs(step), step # "insert", NEW t \in Tasks, t.rows = {},
         ready' = Rest \/ ready' = Append(Rest, t), NEW r
  PROVE  Has(ready', "insert", r) <=> Has(ready, "insert", r)
<1>1. /\ ready \in Seq(Tasks) /\ ready # <<>> /\ Rest = Tail(ready) /\ Rest \in Seq(Tasks)
      /\ Head(ready).step = step
  BY RunsParts
<1>2. Has(Rest, "insert", r) <=> Has(ready, "insert", r)
  BY <1>1, HasPopped
<1>3. Has(Append(Rest, t), "insert", r) <=> Has(Rest, "insert", r)
  BY <1>1, HasPushed
<1> QED BY <1>2, <1>3

LEMMA VanishInit == Init => VanishInv
BY DEF Init, VanishInv

LEMMA VanishStep == TypeOK /\ VanishInv /\ [Next]_vars => VanishInv'
<1> SUFFICES ASSUME TypeOK, VanishInv, [Next]_vars PROVE VanishInv'
  OBVIOUS
<1> USE DEF queueVars, tableVars
<1>a. ready \in Seq(Tasks) /\ queue \in SUBSET Rows /\ None \in Calls \cup {None}
  BY DEF TypeOK
<1>t. \A step \in Steps : \A c \in Calls \cup {None} :
         Task(step, {}, c) \in Tasks /\ Task(step, {}, c).rows = {}
  BY TaskType
<1>1. ASSUME NEW r \in Rows, CallSave(r) PROVE VanishInv'
  <2>1. Task("save", {r}, None) \in Tasks
    BY TaskType DEF Steps
  <2> QED BY <2>1, <1>1, <1>a, HasPushed DEF CallSave, VanishInv, Safe
<1>2. ASSUME NEW c \in Calls, Call(c) PROVE VanishInv'
  <2>1. Task("read", {}, c) \in Tasks
    BY TaskType DEF Steps
  <2> QED BY <2>1, <1>2, <1>a, HasPushed DEF Call, VanishInv, Safe
<1>3. ASSUME CallClose PROVE VanishInv'
  <2>1. Task("close", {}, None) \in Tasks
    BY TaskType DEF Steps
  <2> QED BY <2>1, <1>3, <1>a, HasPushed DEF CallClose, VanishInv, Safe
<1>4. ASSUME Save PROVE VanishInv'
  <2> DEFINE rows == queue \cup Head(ready).rows
  <2>1. /\ Rest \in Seq(Tasks) /\ Rest = Tail(ready) /\ ready # <<>>
        /\ Head(ready).rows \subseteq Rows /\ Head(ready).step = "save"
    BY <1>4, RunsParts DEF Save
  <2>2. rows \in SUBSET Rows
    BY <2>1, <1>a
  <2>3. \A r : Has(Rest, "insert", r) <=> Has(ready, "insert", r)
    BY <2>1, <1>a, HasPopped
  <2>4. CASE Flush(rows, Rest, None)
    <3>1. \A r : Has(ready', "insert", r) <=> Has(Rest, "insert", r) \/ r \in rows
      BY <2>1, <2>2, <2>4, <1>a, FlushHas
    <3> QED BY <3>1, <2>3, <1>4 DEF Save, VanishInv, Safe
  <2>5. CASE queue' = rows /\ timer' = TRUE /\ ready' = Rest /\ UNCHANGED held
    BY <2>5, <2>3, <1>4 DEF Save, VanishInv, Safe
  <2> QED BY <2>4, <2>5, <1>4 DEF Save
<1>5. ASSUME Timer PROVE VanishInv'
  <2>1. Flush(queue, <<>>, None) /\ ready = <<>>
    BY <1>5 DEF Timer
  <2>2. \A r : Has(ready', "insert", r) <=> Has(ready, "insert", r) \/ r \in queue
    BY <2>1, <1>a, FlushHas
  <2> QED BY <2>2, <1>5 DEF Timer, VanishInv, Safe
<1>6. ASSUME Insert PROVE VanishInv'
  <2>1. /\ Rest \in Seq(Tasks) /\ Rest = Tail(ready) /\ ready # <<>>
        /\ Head(ready).call \in Calls \cup {None} /\ Head(ready).step = "insert"
    BY <1>6, RunsParts DEF Insert
  <2> DEFINE t == Task("flushed", {}, Head(ready).call)
  <2>2. t \in Tasks /\ t.rows = {}
    BY <2>1, <1>t DEF Steps
  <2>3. \A r : Has(ready', "insert", r) <=> Has(Rest, "insert", r)
    <3>1. ready' = Rest \/ ready' = Append(Rest, t)
      BY <1>6 DEF Insert
    <3> HIDE DEF t
    <3>2. \A r : Has(Append(Rest, t), "insert", r) <=> Has(Rest, "insert", r)
      BY <2>1, <2>2, HasPushed
    <3> QED BY <3>1, <3>2
  <2>4. \A r : Has(ready, "insert", r) => Has(Rest, "insert", r) \/ r \in Head(ready).rows
    BY <2>1, <1>a, HasPopped
  <2> QED BY <2>3, <2>4, <1>6 DEF Insert, Stored, VanishInv, Safe
<1>7. ASSUME InsertFails PROVE VanishInv'
  <2>1. Rest = Tail(ready) /\ ready # <<>>
    BY <1>7, RunsParts DEF InsertFails
  <2>2. \A r : Has(ready, "insert", r) => Has(Rest, "insert", r) \/ r \in Head(ready).rows
    BY <2>1, <1>a, HasPopped
  <2> QED BY <2>2, <1>7 DEF InsertFails, VanishInv, Safe
<1>8. ASSUME Read PROVE VanishInv'
  <2>1. /\ Rest \in Seq(Tasks) /\ Rest = Tail(ready) /\ ready # <<>>
        /\ Head(ready).call \in Calls \cup {None} /\ Head(ready).step = "read"
    BY <1>8, RunsParts DEF Read
  <2>2. \A r : Has(ready', "insert", r) <=> Has(Rest, "insert", r) \/ r \in queue
    BY <2>1, <1>a, <1>8, FlushHas DEF Read
  <2>3. \A r : Has(ready, "insert", r) => Has(Rest, "insert", r)
    BY <2>1, <1>a, HasPopped
  <2> QED BY <2>2, <2>3, <1>8 DEF Read, VanishInv, Safe
<1>9. ASSUME Flushed PROVE VanishInv'
  <2>1. Task("finish", {}, Head(ready).call) \in Tasks /\ Task("finish", {}, Head(ready).call).rows = {}
    BY <1>9, <1>t, RunsParts DEF Flushed, Steps
  <2>2. \A r : Has(ready', "insert", r) <=> Has(ready, "insert", r)
    BY <2>1, <1>9, PassHas DEF Flushed
  <2> QED BY <2>2, <1>9 DEF Flushed, VanishInv, Safe
<1>n. Task("closed", {}, None) \in Tasks /\ Task("closed", {}, None).rows = {}
  BY <1>t DEF Steps
<1>10. ASSUME Select PROVE VanishInv'
  <2>1. \A r : Has(ready', "insert", r) <=> Has(ready, "insert", r)
    BY <1>n, <1>10, PassHas DEF Select
  <2> QED BY <2>1, <1>10 DEF Select, VanishInv, Safe
<1>11. ASSUME Delete PROVE VanishInv'
  <2>1. \A r : Has(ready', "insert", r) <=> Has(ready, "insert", r)
    BY <1>n, <1>11, PassHas DEF Delete
  <2> QED BY <2>1, <1>11 DEF Delete, VanishInv, Safe
<1>12. ASSUME FinishFails PROVE VanishInv'
  <2>1. \A r : Has(ready', "insert", r) <=> Has(ready, "insert", r)
    BY <1>n, <1>12, PassHas DEF FinishFails
  <2> QED BY <2>1, <1>12 DEF FinishFails, VanishInv, Safe
<1>13. ASSUME Close PROVE VanishInv'
  <2>1. Task("closeInsert", {}, None) \in Tasks /\ Task("closeInsert", {}, None).rows = {}
    BY <1>t DEF Steps
  <2>2. \A r : Has(ready', "insert", r) <=> Has(ready, "insert", r)
    BY <2>1, <1>13, PassHas DEF Close
  <2> QED BY <2>2, <1>13 DEF Close, VanishInv, Safe
<1>14. ASSUME CloseInsert PROVE VanishInv'
  <2>1. \A r : Has(ready', "insert", r) <=> Has(ready, "insert", r)
    BY <1>n, <1>14, PassHas DEF CloseInsert
  <2> QED BY <2>1, <1>14 DEF CloseInsert, Stored, VanishInv, Safe
<1>15. ASSUME CloseFails PROVE VanishInv'
  <2>1. \A r : Has(ready', "insert", r) <=> Has(ready, "insert", r)
    BY <1>n, <1>15, PassHas DEF CloseFails
  <2> QED BY <2>1, <1>15 DEF CloseFails, VanishInv, Safe
<1>16. ASSUME Closed PROVE VanishInv'
  <2>1. \A r : Has(ready', "insert", r) <=> Has(ready, "insert", r)
    BY <1>n, <1>16, PassHas DEF Closed
  <2> QED BY <2>1, <1>16 DEF Closed, VanishInv, Safe
<1>17. ASSUME End PROVE VanishInv'
  <2>1. \A r : r \in Under("insert") <=> Has(ready, "insert", r)
    BY <1>a, UnderHas
  <2> QED BY <2>1, <1>17 DEF End, VanishInv, Safe
<1>18. ASSUME UNCHANGED vars PROVE VanishInv'
  BY <1>18 DEF vars, VanishInv, Safe
<1> QED BY <1>1, <1>2, <1>3, <1>4, <1>5, <1>6, <1>7, <1>8, <1>9, <1>10, <1>11, <1>12, <1>13,
           <1>14, <1>15, <1>16, <1>17, <1>18 DEF Next, Run

\* A row that save() took is always somewhere one can name: flushBatch takes the
\* queue and starts its insert without an await in between.
THEOREM RowsAccountedFor == Spec => []NothingVanishes
<1>1. TypeOK /\ VanishInv => NothingVanishes
  <2> SUFFICES ASSUME TypeOK, VanishInv PROVE NothingVanishes
    OBVIOUS
  <2>1. \A r : r \in Under("insert") <=> Has(ready, "insert", r)
    BY UnderHas DEF TypeOK
  <2> QED BY <2>1 DEF NothingVanishes, VanishInv, Safe
<1> QED BY <1>1, TypeInit, TypeStep, VanishInit, VanishStep, PTL DEF Spec

-----------------------------------------------------------------------------
(* No row is stored twice before close() is called.                        *)

CloseSteps == {"close", "closeInsert", "closed"}

\* A task whose rows are where its step says: with save() not yet taken, else taken
\* but neither in the queue q nor in the table tb.
Fine(t, sv, q, tb) ==
  /\ t.step \notin CloseSteps
  /\ t.step = "save" => t.rows \cap sv = {}
  /\ t.step # "save" => t.rows \subseteq sv
  /\ t.rows \cap (q \cup tb) = {}

Apart(s) == \A i, j \in 1..Len(s) : i # j => s[i].rows \cap s[j].rows = {}

Fresh(s, sv, q, tb) == Apart(s) /\ \A i \in 1..Len(s) : Fine(s[i], sv, q, tb)

FreshInv ==
  \/ closing
  \/ /\ doubled = {}
     /\ queue \subseteq saved /\ table \subseteq saved /\ queue \cap table = {}
     /\ Fresh(ready, saved, queue, table)

\* Once the first task has run, its rows may be anywhere: no other task has them.
LEMMA FreshPopped ==
  ASSUME NEW s \in Seq(Tasks), s # <<>>, NEW sv, NEW q, NEW tb, Fresh(s, sv, q, tb)
  PROVE  /\ Fine(Head(s), sv, q, tb)
         /\ LET h == Head(s).rows IN Fresh(Tail(s), sv \cup h, q \cup h, tb \cup h)
<1> DEFINE h == Head(s).rows
<1>1. /\ Tail(s) \in Seq(Tasks) /\ Head(s) = s[1] /\ Len(s) \in Nat \ {0}
      /\ Len(Tail(s)) = Len(s) - 1
      /\ \A i \in 1..Len(Tail(s)) : Tail(s)[i] = s[i + 1]
  BY Popped
<1>2. 1 \in 1..Len(s) /\ \A i \in 1..Len(Tail(s)) : i + 1 \in 1..Len(s) /\ i + 1 # 1
  BY <1>1
<1>3. Fine(Head(s), sv, q, tb)
  BY <1>1, <1>2 DEF Fresh
<1>4. Apart(Tail(s))
  <2>1. \A i, j \in 1..Len(Tail(s)) : i # j => i + 1 # j + 1
    BY <1>1
  <2> QED BY <2>1, <1>1, <1>2 DEF Fresh, Apart
<1>5. ASSUME NEW i \in 1..Len(Tail(s)) PROVE Fine(Tail(s)[i], sv \cup h, q \cup h, tb \cup h)
  <2>1. s[i + 1].rows \cap h = {}
    BY <1>1, <1>2 DEF Fresh, Apart
  <2>2. Fine(s[i + 1], sv, q, tb)
    BY <1>2 DEF Fresh
  <2>3. Tail(s)[i] = s[i + 1]
    BY <1>1
  <2> HIDE DEF h
  <2> QED BY <2>1, <2>2, <2>3 DEF Fine
<1> QED BY <1>3, <1>4, <1>5 DEF Fresh

LEMMA FreshPushed ==
  ASSUME NEW s \in Seq(Tasks), NEW t \in Tasks, NEW sv, NEW q, NEW tb, Fresh(s, sv, q, tb),
         Fine(t, sv, q, tb), \A i \in 1..Len(s) : s[i].rows \cap t.rows = {}
  PROVE  Fresh(Append(s, t), sv, q, tb)
<1> DEFINE n == Len(s)
           u == Append(s, t)
<1>1. n \in Nat /\ Len(u) = n + 1 /\ u[n + 1] = t /\ \A i \in 1..n : u[i] = s[i]
  BY Pushed
<1>2. 1..(n + 1) = 1..n \cup {n + 1}
  BY <1>1
<1>3. \A i \in 1..n : s[i].rows \cap t.rows = {} /\ Fine(s[i], sv, q, tb)
  BY DEF Fresh
<1>4. \A i, j \in 1..n : i # j => s[i].rows \cap s[j].rows = {}
  BY DEF Fresh, Apart
<1> HIDE DEF n, u
<1>5. Apart(u)
  BY <1>1, <1>2, <1>3, <1>4 DEF Apart
<1>6. \A i \in 1..Len(u) : Fine(u[i], sv, q, tb)
  BY <1>1, <1>2, <1>3
<1> QED BY <1>5, <1>6 DEF Fresh, u

\* A task without rows disturbs nobody.
LEMMA FreshPushedEmpty ==
  ASSUME NEW s \in Seq(Tasks), NEW t \in Tasks, NEW sv, NEW q, NEW tb, Fresh(s, sv, q, tb),
         t.rows = {}, t.step \notin CloseSteps
  PROVE  Fresh(Append(s, t), sv, q, tb)
BY FreshPushed DEF Fine

LEMMA FreshLess ==
  ASSUME NEW s, NEW sv, NEW q, NEW tb, Fresh(s, sv, q, tb), NEW q2, NEW tb2,
         q2 \subseteq q, tb2 \subseteq tb
  PROVE  Fresh(s, sv, q2, tb2)
BY DEF Fresh, Fine

LEMMA FlushFresh ==
  ASSUME TypeOK, NEW rows \in SUBSET Rows, NEW rest \in Seq(Tasks),
         NEW c \in Calls \cup {None}, Flush(rows, rest, c), NEW sv, NEW tb,
         rows \subseteq sv, rows \cap tb = {}, Fresh(rest, sv, rows, tb)
  PROVE  Fresh(ready', sv, queue', tb)
<1>1. /\ queue' = {}
      /\ \/ rows # {} /\ ready' = Append(rest, Task("insert", rows, c))
         \/ rows = {} /\ c # None /\ ready' = Append(rest, Task("finish", {}, c))
         \/ rows = {} /\ ready' = rest
  BY FlushType
<1>2. Fresh(rest, sv, {}, tb)
  BY FreshLess
<1>3. CASE ready' = Append(rest, Task("insert", rows, c))
  <2> DEFINE t == Task("insert", rows, c)
  <2>1. t \in Tasks /\ t.step = "insert" /\ t.rows = rows
    BY TaskType DEF Steps
  <2>2. \A i \in 1..Len(rest) : rest[i].rows \cap t.rows = {}
    BY <2>1 DEF Fresh, Fine
  <2>3. Fine(t, sv, {}, tb)
    BY <2>1 DEF Fine, CloseSteps
  <2> HIDE DEF t
  <2>4. Fresh(Append(rest, t), sv, {}, tb)
    BY <1>2, <2>1, <2>2, <2>3, FreshPushed
  <2> QED BY <2>4, <1>1, <1>3 DEF t
<1>4. CASE ready' = Append(rest, Task("finish", {}, c))
  <2>1. /\ Task("finish", {}, c) \in Tasks /\ Task("finish", {}, c).step = "finish"
        /\ Task("finish", {}, c).rows = {}
    BY TaskType DEF Steps
  <2> QED BY <2>1, <1>1, <1>2, <1>4, FreshPushedEmpty DEF CloseSteps
<1> QED BY <1>1, <1>2, <1>3, <1>4

\* A task that holds no save leaves, and one without rows may follow.
LEMMA PassFresh ==
  ASSUME TypeOK, NEW step, Runs(step), step # "save", Fresh(ready, saved, queue, table),
         NEW t \in Tasks, t.rows = {}, t.step \notin CloseSteps,
         ready' = Rest \/ ready' = Append(Rest, t)
  PROVE  LET h == Head(ready).rows
         IN  /\ step \notin CloseSteps
             /\ h \subseteq saved /\ h \cap (queue \cup table) = {}
             /\ Fresh(ready', saved, queue \cup h, table \cup h)
             /\ Fresh(ready', saved, queue, table)
             /\ Fresh(ready', saved, queue, table \cup h)
             /\ Fresh(ready', saved, queue, {})
<1> DEFINE h == Head(ready).rows
<1>1. /\ ready \in Seq(Tasks) /\ ready # <<>> /\ Rest = Tail(ready) /\ Rest \in Seq(Tasks)
      /\ Head(ready).step = step
  BY RunsParts
<1>2. Fine(Head(ready), saved, queue, table) /\ Fresh(Rest, saved \cup h, queue \cup h, table \cup h)
  BY <1>1, FreshPopped
<1>3. step \notin CloseSteps /\ h \subseteq saved /\ h \cap (queue \cup table) = {}
  BY <1>1, <1>2 DEF Fine
<1> HIDE DEF h
<1>4. saved \cup h = saved
  BY <1>3
<1>5. Fresh(Rest, saved, queue \cup h, table \cup h)
  BY <1>2, <1>4
<1>6. Fresh(ready', saved, queue \cup h, table \cup h)
  BY <1>1, <1>5, FreshPushedEmpty
<1>7. /\ Fresh(ready', saved, queue, table) /\ Fresh(ready', saved, queue, table \cup h)
      /\ Fresh(ready', saved, queue, {})
  BY <1>6, FreshLess
<1> QED BY <1>3, <1>6, <1>7 DEF h

LEMMA FreshInit == Init => FreshInv
BY DEF Init, FreshInv, Fresh, Apart

LEMMA FreshStep == TypeOK /\ FreshInv /\ [Next]_vars => FreshInv'
<1> SUFFICES ASSUME TypeOK, FreshInv, ~closing', [Next]_vars PROVE FreshInv'
  BY DEF FreshInv
<1> USE DEF queueVars, tableVars
<1>0. closing' = closing \/ closing'
  BY DEF Next, Run, vars, CallSave, Call, CallClose, Save, Timer, Insert, InsertFails, Read,
     Flushed, Select, Delete, FinishFails, Close, CloseInsert, CloseFails, Closed, End
<1>b. /\ ~closing /\ doubled = {}
      /\ queue \subseteq saved /\ table \subseteq saved /\ queue \cap table = {}
      /\ Fresh(ready, saved, queue, table)
  BY <1>0 DEF FreshInv
<1>a. ready \in Seq(Tasks) /\ queue \in SUBSET Rows /\ None \in Calls \cup {None}
  BY DEF TypeOK
<1>n. /\ Task("flushed", {}, None) \in Tasks /\ Task("flushed", {}, None).rows = {}
      /\ Task("flushed", {}, None).step \notin CloseSteps
  BY TaskType DEF Steps, CloseSteps
<1>1. ASSUME NEW r \in Rows, CallSave(r) PROVE FreshInv'
  <2> DEFINE t == Task("save", {r}, None)
  <2>1. t \in Tasks /\ t.step = "save" /\ t.rows = {r}
    BY TaskType DEF Steps
  <2>2. r \notin saved /\ ~Has(ready, "save", r)
    BY <1>1, <1>a, UnderHas DEF CallSave
  <2>3. Fine(t, saved, queue, table)
    BY <2>1, <2>2, <1>b DEF Fine, CloseSteps
  <2>4. \A i \in 1..Len(ready) : ready[i].rows \cap t.rows = {}
    BY <2>1, <2>2, <1>b DEF Fresh, Fine, Has
  <2> HIDE DEF t
  <2>5. Fresh(Append(ready, t), saved, queue, table)
    BY <2>1, <2>3, <2>4, <1>a, <1>b, FreshPushed
  <2> QED BY <2>5, <1>1, <1>b DEF CallSave, FreshInv, t
<1>2. ASSUME NEW c \in Calls, Call(c) PROVE FreshInv'
  <2>1. Task("read", {}, c) \in Tasks /\ Task("read", {}, c).rows = {} /\ Task("read", {}, c).step = "read"
    BY TaskType DEF Steps
  <2>2. Fresh(Append(ready, Task("read", {}, c)), saved, queue, table)
    BY <2>1, <1>a, <1>b, FreshPushedEmpty DEF CloseSteps
  <2> QED BY <2>2, <1>2, <1>b DEF Call, FreshInv
<1>3. CASE CallClose
  BY <1>3 DEF CallClose
<1>4. ASSUME Save PROVE FreshInv'
  <2> DEFINE h == Head(ready).rows
             rows == queue \cup h
  <2>1. /\ Rest \in Seq(Tasks) /\ Rest = Tail(ready) /\ ready # <<>>
        /\ h \subseteq Rows /\ Head(ready).step = "save"
    BY <1>4, RunsParts DEF Save
  <2>2. /\ Fine(Head(ready), saved, queue, table)
        /\ Fresh(Rest, saved \cup h, queue \cup h, table \cup h)
    BY <2>1, <1>a, <1>b, FreshPopped
  <2>3. h \cap table = {} /\ rows \in SUBSET Rows /\ rows \subseteq saved \cup h /\ rows \cap table = {}
    BY <2>1, <2>2, <1>a, <1>b DEF Fine
  <2>4. Fresh(Rest, saved \cup h, rows, table)
    BY <2>2, FreshLess
  <2>5. /\ saved' = saved \cup h
        /\ UNCHANGED <<table, doubled, closing>>
        /\ \/ Flush(rows, Rest, None)
           \/ queue' = rows /\ ready' = Rest
    BY <1>4 DEF Save
  <2> HIDE DEF h, rows
  <2>6. CASE Flush(rows, Rest, None)
    <3>1. Fresh(ready', saved \cup h, queue', table) /\ queue' = {}
      BY <2>1, <2>3, <2>4, <2>6, <1>a, FlushFresh, FlushType
    <3> QED BY <3>1, <2>5, <1>b DEF FreshInv
  <2>7. CASE queue' = rows /\ ready' = Rest
    BY <2>7, <2>3, <2>4, <2>5, <1>b DEF FreshInv
  <2> QED BY <2>5, <2>6, <2>7
<1>5. ASSUME Timer PROVE FreshInv'
  <2>1. Flush(queue, <<>>, None) /\ ready = <<>> /\ UNCHANGED <<saved, table, doubled, closing>>
    BY <1>5 DEF Timer
  <2>2. Fresh(ready', saved, queue', table) /\ queue' = {}
    BY <2>1, <1>a, <1>b, FlushFresh, FlushType
  <2> QED BY <2>1, <2>2, <1>b DEF FreshInv
<1>6. ASSUME Insert PROVE FreshInv'
  <2> DEFINE h == Head(ready).rows
             t == Task("flushed", {}, Head(ready).call)
  <2>1. t \in Tasks /\ t.rows = {} /\ t.step \notin CloseSteps
    BY <1>6, RunsParts, TaskType DEF Insert, Steps, CloseSteps
  <2>2. ready' = Rest \/ ready' = Append(Rest, t)
    BY <1>6 DEF Insert
  <2>3. /\ h \subseteq saved /\ h \cap (queue \cup table) = {}
        /\ Fresh(ready', saved, queue, table \cup h)
    BY <2>1, <2>2, <1>6, <1>b, PassFresh DEF Insert
  <2>4. /\ table' = table \cup h /\ doubled' = doubled \cup (table \cap h)
        /\ UNCHANGED <<queue, saved, closing>>
    BY <1>6 DEF Insert, Stored
  <2> QED BY <2>3, <2>4, <1>b DEF FreshInv
<1>7. ASSUME InsertFails PROVE FreshInv'
  <2>1. Fresh(ready', saved, queue, table)
    BY <1>n, <1>7, <1>b, PassFresh DEF InsertFails
  <2> QED BY <2>1, <1>7, <1>b DEF InsertFails, FreshInv
<1>8. ASSUME Read PROVE FreshInv'
  <2>1. /\ Rest \in Seq(Tasks) /\ Rest = Tail(ready) /\ ready # <<>>
        /\ Head(ready).call \in Calls \cup {None} /\ Head(ready).step = "read"
    BY <1>8, RunsParts DEF Read
  <2> DEFINE h == Head(ready).rows
  <2>2. /\ Fine(Head(ready), saved, queue, table)
        /\ Fresh(Rest, saved \cup h, queue \cup h, table \cup h)
    BY <2>1, <1>a, <1>b, FreshPopped
  <2>3. saved \cup h = saved
    BY <2>1, <2>2 DEF Fine
  <2> HIDE DEF h
  <2>4. Fresh(Rest, saved, queue, table)
    BY <2>2, <2>3, FreshLess
  <2>5. Flush(queue, Rest, Head(ready).call) /\ UNCHANGED <<saved, table, doubled, closing>>
    BY <1>8 DEF Read
  <2>6. Fresh(ready', saved, queue', table) /\ queue' = {}
    BY <2>1, <2>4, <2>5, <1>a, <1>b, FlushFresh, FlushType
  <2> QED BY <2>5, <2>6, <1>b DEF FreshInv
<1>9. ASSUME Flushed PROVE FreshInv'
  <2> DEFINE t == Task("finish", {}, Head(ready).call)
  <2>1. t \in Tasks /\ t.rows = {} /\ t.step \notin CloseSteps
    BY <1>9, RunsParts, TaskType DEF Flushed, Steps, CloseSteps
  <2>2. ready' = Append(Rest, t)
    BY <1>9 DEF Flushed
  <2> HIDE DEF t
  <2>3. Fresh(ready', saved, queue, table)
    BY <2>1, <2>2, <1>9, <1>b, PassFresh DEF Flushed
  <2> QED BY <2>3, <1>9, <1>b DEF Flushed, FreshInv
<1>10. ASSUME Select PROVE FreshInv'
  <2>1. Fresh(ready', saved, queue, table)
    BY <1>n, <1>10, <1>b, PassFresh DEF Select
  <2> QED BY <2>1, <1>10, <1>b DEF Select, FreshInv
<1>11. ASSUME Delete PROVE FreshInv'
  <2>1. Fresh(ready', saved, queue, {})
    BY <1>n, <1>11, <1>b, PassFresh DEF Delete
  <2> QED BY <2>1, <1>11, <1>b DEF Delete, FreshInv
<1>12. ASSUME FinishFails PROVE FreshInv'
  <2>1. Fresh(ready', saved, queue, table)
    BY <1>n, <1>12, <1>b, PassFresh DEF FinishFails
  <2> QED BY <2>1, <1>12, <1>b DEF FinishFails, FreshInv
<1>13. ASSUME NEW step \in CloseSteps PROVE ~Runs(step)
  <2> SUFFICES ASSUME Runs(step) PROVE FALSE
    OBVIOUS
  <2>1. ready # <<>> /\ Head(ready).step = step
    BY RunsParts
  <2>2. Fine(Head(ready), saved, queue, table)
    BY <2>1, <1>a, <1>b, FreshPopped
  <2> QED BY <2>1, <2>2 DEF Fine
<1>14. ~Close /\ ~CloseInsert /\ ~CloseFails /\ ~Closed
  BY <1>13 DEF Close, CloseInsert, CloseFails, Closed, CloseSteps
<1>17. ASSUME End PROVE FreshInv'
  <2>1. Fresh(<<>>, saved, {}, table)
    BY DEF Fresh, Apart
  <2> QED BY <2>1, <1>17, <1>b DEF End, FreshInv
<1>18. ASSUME UNCHANGED vars PROVE FreshInv'
  BY <1>18, <1>b DEF vars, FreshInv
<1> QED BY <1>1, <1>2, <1>3, <1>4, <1>5, <1>6, <1>7, <1>8, <1>9, <1>10, <1>11, <1>12, <1>14,
           <1>17, <1>18 DEF Next, Run

\* Without close() no row is stored twice: the queue, the batches under way and
\* the table share none (flushBatch replaces the array it has copied).
THEOREM NoRowTwice == Spec => []StoredOnce
<1>1. FreshInv => StoredOnce
  BY DEF FreshInv, StoredOnce
<1> QED BY <1>1, TypeInit, TypeStep, FreshInit, FreshStep, PTL DEF Spec

-----------------------------------------------------------------------------
(* A report contains what was saved before it was asked for.               *)

\* The steps of a call that has flushed: its own insert, and what comes after.
After == {"insert", "flushed", "finish"}

\* For such a task, what its call knew (k) is safe (S) or in an insert that runs
\* before it or is it.
CoveredAt(s, i, S, k) ==
  s[i].call # None /\ s[i].step \in After =>
    \A r \in k[s[i].call].known :
      r \in S \/ \E j \in 1..i : s[j].step = "insert" /\ r \in s[j].rows

Covered(s, S, k) == \A i \in 1..Len(s) : CoveredAt(s, i, S, k)

Running(s, k) == \A i \in 1..Len(s) : s[i].call # None => k[s[i].call].pc # "new"

CoverInv ==
  /\ \A c \in Calls : call[c].known \subseteq saved
  /\ Running(ready, call)
  /\ Covered(ready, Safe, call)
  /\ \A c \in Reads : call[c].pc = "done" => call[c].known \subseteq call[c].got \cup lost \cup cleared

LEMMA CoverPopped ==
  ASSUME NEW s \in Seq(Tasks), s # <<>>, NEW S, NEW S2, NEW k, Covered(s, S, k), S \subseteq S2,
         Head(s).step = "insert" => Head(s).rows \subseteq S2
  PROVE  Covered(Tail(s), S2, k)
<1>1. /\ Head(s) = s[1] /\ Len(s) \in Nat \ {0} /\ Len(Tail(s)) = Len(s) - 1
      /\ \A i \in 1..Len(Tail(s)) : Tail(s)[i] = s[i + 1]
  BY Popped
<1> SUFFICES ASSUME NEW i \in 1..Len(Tail(s)), Tail(s)[i].call # None, Tail(s)[i].step \in After,
                    NEW r \in k[Tail(s)[i].call].known, r \notin S2
             PROVE  \E j \in 1..i : Tail(s)[j].step = "insert" /\ r \in Tail(s)[j].rows
  BY DEF Covered, CoveredAt
<1>2. i + 1 \in 1..Len(s) /\ Tail(s)[i] = s[i + 1]
  BY <1>1
<1>3. PICK j \in 1..(i + 1) : s[j].step = "insert" /\ r \in s[j].rows
  BY <1>2 DEF Covered, CoveredAt
<1>4. j # 1
  BY <1>1, <1>3
<1>5. j - 1 \in 1..i /\ Tail(s)[j - 1] = s[j]
  BY <1>1, <1>3, <1>4
<1> QED BY <1>3, <1>5

LEMMA CoverPushed ==
  ASSUME NEW s \in Seq(Tasks), NEW t \in Tasks, NEW S, NEW k, Covered(s, S, k),
         t.call # None /\ t.step \in After =>
           \A r \in k[t.call].known :
             r \in S \/ Has(s, "insert", r) \/ (t.step = "insert" /\ r \in t.rows)
  PROVE  Covered(Append(s, t), S, k)
<1> DEFINE n == Len(s)
           u == Append(s, t)
<1>1. n \in Nat /\ Len(u) = n + 1 /\ u[n + 1] = t /\ \A i \in 1..n : u[i] = s[i]
  BY Pushed
<1>2. ASSUME NEW i \in 1..n PROVE CoveredAt(u, i, S, k)
  <2>1. CoveredAt(s, i, S, k)
    BY DEF Covered
  <2>2. u[i] = s[i] /\ \A j \in 1..i : u[j] = s[j]
    BY <1>1
  <2> HIDE DEF n, u
  <2> QED BY <2>1, <2>2 DEF CoveredAt
<1>3. CoveredAt(u, n + 1, S, k)
  <2>1. \A r : Has(s, "insert", r) => \E j \in 1..n : u[j].step = "insert" /\ r \in u[j].rows
    BY <1>1 DEF Has
  <2>2. 1..n \subseteq 1..(n + 1) /\ n + 1 \in 1..(n + 1)
    BY <1>1
  <2> HIDE DEF n, u
  <2> QED BY <2>1, <2>2, <1>1 DEF CoveredAt
<1>4. 1..Len(u) = 1..n \cup {n + 1}
  BY <1>1
<1> HIDE DEF n
<1> QED BY <1>2, <1>3, <1>4 DEF Covered

\* Only what the calls of the tasks know matters.
LEMMA CoverSame ==
  ASSUME NEW s, NEW S, NEW k, NEW k2, Covered(s, S, k),
         \A i \in 1..Len(s) : s[i].call # None => k2[s[i].call].known = k[s[i].call].known
  PROVE  Covered(s, S, k2)
BY DEF Covered, CoveredAt

LEMMA CoverMore ==
  ASSUME NEW s, NEW S, NEW S2, NEW k, Covered(s, S, k), S \subseteq S2
  PROVE  Covered(s, S2, k)
BY DEF Covered, CoveredAt

LEMMA RunningPopped ==
  ASSUME NEW s \in Seq(Tasks), s # <<>>, NEW k, Running(s, k)
  PROVE  Running(Tail(s), k) /\ (Head(s).call # None => k[Head(s).call].pc # "new")
<1>1. /\ Head(s) = s[1] /\ Len(s) \in Nat \ {0} /\ Len(Tail(s)) = Len(s) - 1
      /\ \A i \in 1..Len(Tail(s)) : Tail(s)[i] = s[i + 1]
  BY Popped
<1>2. 1 \in 1..Len(s) /\ \A i \in 1..Len(Tail(s)) : i + 1 \in 1..Len(s)
  BY <1>1
<1> QED BY <1>1, <1>2 DEF Running

LEMMA RunningPushed ==
  ASSUME NEW s \in Seq(Tasks), NEW t \in Tasks, NEW k, Running(s, k),
         t.call # None => k[t.call].pc # "new"
  PROVE  Running(Append(s, t), k)
<1> DEFINE n == Len(s)
           u == Append(s, t)
<1>1. n \in Nat /\ Len(u) = n + 1 /\ u[n + 1] = t /\ \A i \in 1..n : u[i] = s[i]
  BY Pushed
<1>2. 1..(n + 1) = 1..n \cup {n + 1}
  BY <1>1
<1>3. \A i \in 1..n : s[i].call # None => k[s[i].call].pc # "new"
  BY DEF Running
<1> HIDE DEF n, u
<1>4. Running(u, k)
  BY <1>1, <1>2, <1>3 DEF Running
<1> QED BY <1>4 DEF u

\* A flush that a call with this knowledge waits for, behind the tasks of rest.
LEMMA FlushCover ==
  ASSUME TypeOK, NEW rows \in SUBSET Rows, NEW rest \in Seq(Tasks),
         NEW c \in Calls \cup {None}, Flush(rows, rest, c), NEW S, NEW k,
         Covered(rest, S, k), Running(rest, k), c # None => k[c].pc # "new",
         c # None => \A r \in k[c].known : r \in S \/ Has(rest, "insert", r) \/ r \in rows
  PROVE  Covered(ready', S, k) /\ Running(ready', k)
<1>1. \/ rows # {} /\ ready' = Append(rest, Task("insert", rows, c))
      \/ rows = {} /\ c # None /\ ready' = Append(rest, Task("finish", {}, c))
      \/ rows = {} /\ ready' = rest
  BY FlushType
<1>2. CASE ready' = Append(rest, Task("insert", rows, c))
  <2> DEFINE t == Task("insert", rows, c)
  <2>1. t \in Tasks /\ t.step = "insert" /\ t.rows = rows /\ t.call = c
    BY TaskType DEF Steps
  <2> HIDE DEF t
  <2>2. Covered(Append(rest, t), S, k) /\ Running(Append(rest, t), k)
    BY <2>1, CoverPushed, RunningPushed
  <2> QED BY <2>2, <1>2 DEF t
<1>3. CASE rows = {} /\ ready' = Append(rest, Task("finish", {}, c))
  <2> DEFINE t == Task("finish", {}, c)
  <2>1. t \in Tasks /\ t.step = "finish" /\ t.call = c
    BY TaskType DEF Steps
  <2> HIDE DEF t
  <2>2. Covered(Append(rest, t), S, k) /\ Running(Append(rest, t), k)
    BY <1>3, <2>1, CoverPushed, RunningPushed
  <2> QED BY <2>2, <1>3 DEF t
<1> QED BY <1>1, <1>2, <1>3

\* The task at the head leaves; what it inserts is safe then.
LEMMA PassCover ==
  ASSUME TypeOK, CoverInv, NEW step, Runs(step), NEW S, Safe \subseteq S,
         step = "insert" => Head(ready).rows \subseteq S
  PROVE  /\ Covered(Rest, S, call) /\ Running(Rest, call)
         /\ Head(ready).call # None => call[Head(ready).call].pc # "new"
BY RunsParts, CoverPopped, RunningPopped DEF CoverInv

\* The calls keep what they know when one is answered.
LEMMA AnswerCover ==
  ASSUME NEW s \in Seq(Tasks), NEW S, Covered(s, S, call), Running(s, call), TypeOK,
         NEW pc \in {"done", "failed"},
         \A x \in Calls : call'[x].known = call[x].known /\ call'[x].pc \in {call[x].pc, pc}
  PROVE  Covered(s, S, call') /\ Running(s, call')
<1>1. \A i \in 1..Len(s) : s[i].call # None => s[i].call \in Calls
  <2>1. \A i \in 1..Len(s) : s[i] \in Tasks
    OBVIOUS
  <2> QED BY <2>1, TaskParts
<1>2. Covered(s, S, call')
  BY <1>1, CoverSame
<1>3. Running(s, call')
  BY <1>1 DEF Running
<1> QED BY <1>2, <1>3

LEMMA CoverHead ==
  ASSUME TypeOK, CoverInv, NEW step \in After, Runs(step), Head(ready).call # None,
         NEW r \in call[Head(ready).call].known
  PROVE  r \in Safe \/ (step = "insert" /\ r \in Head(ready).rows)
<1>1. ready \in Seq(Tasks) /\ ready # <<>> /\ Head(ready).step = step
  BY RunsParts
<1>2. 1 \in 1..Len(ready) /\ Head(ready) = ready[1] /\ \A j \in 1..1 : j = 1
  BY <1>1, Popped
<1>3. CoveredAt(ready, 1, Safe, call)
  BY <1>2 DEF CoverInv, Covered
<1> QED BY <1>1, <1>2, <1>3 DEF CoveredAt

\* A task that no call waits for.
LEMMA PushedAlone ==
  ASSUME NEW s \in Seq(Tasks), NEW S, NEW k, Covered(s, S, k), Running(s, k),
         NEW step \in Steps, NEW rows \in SUBSET Rows
  PROVE  /\ Covered(Append(s, Task(step, rows, None)), S, k)
         /\ Running(Append(s, Task(step, rows, None)), k)
<1> DEFINE t == Task(step, rows, None)
<1>1. t \in Tasks /\ t.call = None
  BY TaskType
<1> HIDE DEF t
<1>2. Covered(Append(s, t), S, k) /\ Running(Append(s, t), k)
  BY <1>1, CoverPushed, RunningPushed
<1> QED BY <1>2 DEF t

\* A task of a call whose knowledge is safe.
LEMMA PushedSafe ==
  ASSUME NEW s \in Seq(Tasks), NEW S, NEW k, Covered(s, S, k), Running(s, k),
         NEW step \in Steps, NEW c \in Calls \cup {None}, c # None => k[c].pc # "new",
         c # None => k[c].known \subseteq S
  PROVE  /\ Covered(Append(s, Task(step, {}, c)), S, k)
         /\ Running(Append(s, Task(step, {}, c)), k)
<1> DEFINE t == Task(step, {}, c)
<1>1. t \in Tasks /\ t.call = c
  BY TaskType
<1> HIDE DEF t
<1>2. Covered(Append(s, t), S, k) /\ Running(Append(s, t), k)
  BY <1>1, CoverPushed, RunningPushed
<1> QED BY <1>2 DEF t

LEMMA CoverInit == Init => CoverInv
<1> SUFFICES ASSUME Init PROVE CoverInv
  OBVIOUS
<1>1. \A c \in Calls : call[c].pc = "new" /\ call[c].known = {}
  BY DEF Init
<1>2. Running(ready, call) /\ Covered(ready, Safe, call)
  BY DEF Init, Running, Covered
<1> QED BY <1>1, <1>2 DEF CoverInv, Calls

\* Steps that answer nobody and lose nothing keep what was answered true.
Answered == \A c \in Reads : call[c].pc = "done" => call[c].known \subseteq call[c].got \cup lost \cup cleared

LEMMA AnsweredKept ==
  ASSUME Answered, lost \subseteq lost', cleared \subseteq cleared',
         \A c \in Reads : \/ call'[c] = call[c]
                          \/ call'[c].pc # "done"
                          \/ call'[c].known \subseteq call'[c].got \cup lost' \cup cleared'
  PROVE  Answered'
BY DEF Answered

LEMMA RejectedKeeps ==
  ASSUME TypeOK, NEW c, Rejected(c)
  PROVE  /\ \A x \in Calls : call'[x].known = call[x].known /\ call'[x].pc \in {call[x].pc, "failed"}
         /\ \A x \in Calls : call'[x] = call[x] \/ call'[x].pc = "failed"
BY DEF TypeOK, CallRecords, Rejected

LEMMA CoverStep == TypeOK /\ VanishInv /\ CoverInv /\ [Next]_vars => CoverInv'
<1> SUFFICES ASSUME TypeOK, VanishInv, CoverInv, [Next]_vars PROVE CoverInv'
  OBVIOUS
<1> USE DEF queueVars, tableVars
<1>a. ready \in Seq(Tasks) /\ queue \in SUBSET Rows /\ None \in Calls \cup {None} /\ Reads \subseteq Calls
  BY DEF TypeOK, Calls
<1>b. /\ \A c \in Calls : call[c].known \subseteq saved
      /\ Running(ready, call) /\ Covered(ready, Safe, call) /\ Answered
  BY DEF CoverInv, Answered
<1>c. ASSUME Answered', Running(ready', call'), Covered(ready', Safe', call'),
             \A c \in Calls : call'[c].known \subseteq saved'
      PROVE  CoverInv'
  BY <1>c DEF CoverInv, Answered
<1>d. ASSUME UNCHANGED <<tableVars, call, saved>>, Running(ready', call), Covered(ready', Safe, call)
      PROVE  CoverInv'
  <2>1. Safe' = Safe /\ Answered'
    BY <1>b, <1>d DEF Safe, Answered
  <2> QED BY <2>1, <1>b, <1>c, <1>d
<1>1. ASSUME NEW r \in Rows, CallSave(r) PROVE CoverInv'
  <2>1. Covered(ready', Safe, call) /\ Running(ready', call)
    BY <1>1, <1>a, <1>b, PushedAlone DEF CallSave, Steps
  <2> QED BY <2>1, <1>d, <1>1 DEF CallSave
<1>2. ASSUME NEW c \in Calls, Call(c) PROVE CoverInv'
  <2> DEFINE t == Task("read", {}, c)
  <2>1. /\ call[c].pc = "new" /\ ready' = Append(ready, t) /\ UNCHANGED <<tableVars, saved>>
        /\ call' = [call EXCEPT ![c].pc = "running", ![c].known = saved]
    BY <1>2 DEF Call
  <2>2. /\ call'[c].pc = "running" /\ call'[c].known = saved
        /\ \A x \in Calls \ {c} : call'[x] = call[x]
    BY <2>1 DEF TypeOK, CallRecords
  <2>3. t \in Tasks /\ t.step = "read" /\ t.call = c
    BY TaskType DEF Steps
  <2>4. \A i \in 1..Len(ready) : ready[i].call # None => ready[i].call \in Calls \ {c}
    <3>1. \A i \in 1..Len(ready) : ready[i] \in Tasks
      BY <1>a
    <3> QED BY <3>1, <1>b, <2>1, TaskParts DEF Running
  <2>5. Covered(ready, Safe, call') /\ Running(ready, call')
    <3>1. Covered(ready, Safe, call')
      BY <1>b, <2>2, <2>4, CoverSame
    <3> QED BY <3>1, <1>b, <2>2, <2>4 DEF Running
  <2> HIDE DEF t
  <2>6. Covered(Append(ready, t), Safe, call') /\ Running(Append(ready, t), call')
    BY <2>2, <2>3, <2>5, <1>a, CoverPushed, RunningPushed DEF After
  <2>7. Answered'
    <3>1. \A x \in Reads : call'[x] = call[x] \/ call'[x].pc # "done"
      BY <2>2, <1>a
    <3> QED BY <3>1, <2>1, <1>b, AnsweredKept
  <2>8. \A x \in Calls : call'[x].known \subseteq saved'
    BY <2>1, <2>2, <1>b
  <2>9. Safe' = Safe
    BY <2>1 DEF Safe
  <2> QED BY <2>1, <2>6, <2>7, <2>8, <2>9, <1>c
<1>3. ASSUME CallClose PROVE CoverInv'
  <2>1. Covered(ready', Safe, call) /\ Running(ready', call)
    BY <1>3, <1>a, <1>b, PushedAlone DEF CallClose, Steps
  <2> QED BY <2>1, <1>d, <1>3 DEF CallClose
<1>4. ASSUME Save PROVE CoverInv'
  <2> DEFINE rows == queue \cup Head(ready).rows
  <2>1. Rest \in Seq(Tasks) /\ rows \in SUBSET Rows
    BY <1>4, <1>a, RunsParts DEF Save
  <2>2. Covered(Rest, Safe, call) /\ Running(Rest, call)
    BY <1>4, PassCover DEF Save
  <2>3. Covered(ready', Safe, call) /\ Running(ready', call)
    <3>1. CASE Flush(rows, Rest, None)
      BY <3>1, <2>1, <2>2, <1>a, FlushCover
    <3>2. CASE ready' = Rest
      BY <3>2, <2>2
    <3> QED BY <3>1, <3>2, <1>4 DEF Save
  <2>4. UNCHANGED <<tableVars, call>> /\ saved \subseteq saved'
    BY <1>4 DEF Save
  <2>5. Safe' = Safe /\ Answered'
    BY <2>4, <1>b DEF Safe, Answered
  <2> QED BY <2>3, <2>4, <2>5, <1>b, <1>c
<1>5. ASSUME Timer PROVE CoverInv'
  <2>1. Flush(queue, <<>>, None) /\ ready = <<>>
    BY <1>5 DEF Timer
  <2>2. Covered(ready', Safe, call) /\ Running(ready', call)
    BY <2>1, <1>a, <1>b, FlushCover
  <2> QED BY <2>2, <1>d, <1>5 DEF Timer
<1>6. ASSUME Insert PROVE CoverInv'
  <2> DEFINE c == Head(ready).call
  <2>1. Runs("insert") /\ UNCHANGED <<call, saved, lost, cleared>> /\ table' = table \cup Head(ready).rows
    BY <1>6 DEF Insert, Stored
  <2>2. Rest \in Seq(Tasks) /\ c \in Calls \cup {None}
    BY <2>1, RunsParts
  <2>3. Safe \subseteq Safe' /\ Head(ready).rows \subseteq Safe'
    BY <2>1 DEF Safe
  <2>4. Covered(Rest, Safe', call) /\ Running(Rest, call) /\ (c # None => call[c].pc # "new")
    BY <2>1, <2>3, PassCover
  <2>5. c # None => call[c].known \subseteq Safe'
    BY <2>1, <2>3, CoverHead DEF After
  <2>6. ready' = Rest \/ ready' = Append(Rest, Task("flushed", {}, c))
    BY <1>6 DEF Insert
  <2> HIDE DEF c
  <2>7. Covered(ready', Safe', call) /\ Running(ready', call)
    BY <2>2, <2>4, <2>5, <2>6, PushedSafe DEF Steps
  <2>8. Answered'
    BY <2>1, <1>b, AnsweredKept
  <2> QED BY <2>1, <2>7, <2>8, <1>b, <1>c
<1>7. ASSUME InsertFails PROVE CoverInv'
  <2>1. /\ Runs("insert") /\ Rejected(Head(ready).call) /\ ready' = Rest
        /\ UNCHANGED <<saved, table, cleared>> /\ lost' = lost \cup Head(ready).rows
    BY <1>7 DEF InsertFails
  <2>2. Rest \in Seq(Tasks)
    BY <2>1, RunsParts
  <2>3. Safe \subseteq Safe' /\ Head(ready).rows \subseteq Safe'
    BY <2>1 DEF Safe
  <2>4. Covered(Rest, Safe', call) /\ Running(Rest, call)
    BY <2>1, <2>3, PassCover
  <2>5. /\ \A x \in Calls : call'[x].known = call[x].known /\ call'[x].pc \in {call[x].pc, "failed"}
        /\ \A x \in Calls : call'[x] = call[x] \/ call'[x].pc = "failed"
    BY <2>1, RejectedKeeps
  <2>6. Covered(Rest, Safe', call') /\ Running(Rest, call')
    BY <2>2, <2>4, <2>5, AnswerCover
  <2>7. Answered'
    BY <2>1, <2>5, <1>a, <1>b, AnsweredKept
  <2> QED BY <2>1, <2>5, <2>6, <2>7, <1>b, <1>c
<1>8. ASSUME Read PROVE CoverInv'
  <2> DEFINE c == Head(ready).call
  <2>1. Runs("read") /\ Flush(queue, Rest, c)
    BY <1>8 DEF Read
  <2>2. Rest \in Seq(Tasks) /\ Rest = Tail(ready) /\ ready # <<>> /\ c \in Calls \cup {None} /\ Head(ready).step = "read"
    BY <2>1, RunsParts
  <2>3. Covered(Rest, Safe, call) /\ Running(Rest, call) /\ (c # None => call[c].pc # "new")
    BY <2>1, PassCover
  <2>4. \A r \in saved : r \in Safe \/ Has(Rest, "insert", r) \/ r \in queue
    BY <2>2, <1>a, HasPopped DEF VanishInv
  <2>5. c # None => \A r \in call[c].known : r \in Safe \/ Has(Rest, "insert", r) \/ r \in queue
    BY <2>2, <2>4, <1>b
  <2> HIDE DEF c
  <2>6. Covered(ready', Safe, call) /\ Running(ready', call)
    BY <2>1, <2>2, <2>3, <2>5, <1>a, FlushCover
  <2> QED BY <2>6, <1>d, <1>8 DEF Read
<1>9. ASSUME Flushed PROVE CoverInv'
  <2> DEFINE c == Head(ready).call
  <2>1. Runs("flushed") /\ ready' = Append(Rest, Task("finish", {}, c))
    BY <1>9 DEF Flushed
  <2>2. Rest \in Seq(Tasks) /\ c \in Calls \cup {None}
    BY <2>1, RunsParts
  <2>3. Covered(Rest, Safe, call) /\ Running(Rest, call) /\ (c # None => call[c].pc # "new")
    BY <2>1, PassCover
  <2>4. c # None => call[c].known \subseteq Safe
    BY <2>1, CoverHead DEF After
  <2> HIDE DEF c
  <2>5. Covered(ready', Safe, call) /\ Running(ready', call)
    BY <2>1, <2>2, <2>3, <2>4, PushedSafe DEF Steps
  <2> QED BY <2>5, <1>d, <1>9 DEF Flushed
<1>10. ASSUME Select PROVE CoverInv'
  <2> DEFINE c == Head(ready).call
  <2>1. /\ Runs("finish") /\ c \in Reads /\ ready' = Rest /\ UNCHANGED <<tableVars, saved>>
        /\ call' = [call EXCEPT ![c].pc = "done", ![c].got = table]
    BY <1>10 DEF Select
  <2>2. Rest \in Seq(Tasks) /\ c \in Calls /\ c # None
    BY <2>1, <1>a, RunsParts, AnalyticsAssumption
  <2>3. Covered(Rest, Safe, call) /\ Running(Rest, call)
    BY <2>1, PassCover
  <2>4. call[c].known \subseteq Safe
    BY <2>1, <2>2, CoverHead DEF After
  <2> HIDE DEF c
  <2>5. /\ call'[c].known = call[c].known /\ call'[c].got = table /\ call'[c].pc = "done"
        /\ \A x \in Calls \ {c} : call'[x] = call[x]
    BY <2>1, <2>2 DEF TypeOK, CallRecords
  <2>6. \A x \in Calls : call'[x].known = call[x].known /\ call'[x].pc \in {call[x].pc, "done"}
    BY <2>5
  <2>7. Covered(Rest, Safe, call') /\ Running(Rest, call')
    BY <2>2, <2>3, <2>6, AnswerCover
  <2>8. Answered'
    <3>1. call'[c].known \subseteq call'[c].got \cup lost' \cup cleared'
      BY <2>1, <2>4, <2>5 DEF Safe
    <3>2. \A x \in Reads : call'[x] = call[x] \/ call'[x].known \subseteq call'[x].got \cup lost' \cup cleared'
      BY <3>1, <2>5, <1>a
    <3> QED BY <3>2, <2>1, <1>b, AnsweredKept
  <2>9. Safe' = Safe
    BY <2>1 DEF Safe
  <2> QED BY <2>1, <2>6, <2>7, <2>8, <2>9, <1>b, <1>c
<1>11. ASSUME Delete PROVE CoverInv'
  <2> DEFINE c == Head(ready).call
  <2>1. /\ Runs("finish") /\ c \in Clears /\ ready' = Rest /\ UNCHANGED <<lost, saved>>
        /\ table' = {} /\ cleared' = cleared \cup table
        /\ call' = [call EXCEPT ![c].pc = "done"]
    BY <1>11 DEF Delete
  <2>2. Rest \in Seq(Tasks) /\ c \in Calls /\ c \notin Reads
    BY <2>1, RunsParts, AnalyticsAssumption DEF Calls
  <2>3. Safe' = Safe
    BY <2>1 DEF Safe
  <2>4. Covered(Rest, Safe, call) /\ Running(Rest, call)
    BY <2>1, PassCover
  <2> HIDE DEF c
  <2>5. call'[c].known = call[c].known /\ call'[c].pc = "done" /\ \A x \in Calls \ {c} : call'[x] = call[x]
    BY <2>1, <2>2 DEF TypeOK, CallRecords
  <2>6. \A x \in Calls : call'[x].known = call[x].known /\ call'[x].pc \in {call[x].pc, "done"}
    BY <2>5
  <2>7. Covered(Rest, Safe, call') /\ Running(Rest, call')
    BY <2>2, <2>4, <2>6, AnswerCover
  <2>8. Answered'
    BY <2>1, <2>2, <2>5, <1>a, <1>b, AnsweredKept
  <2> QED BY <2>1, <2>3, <2>6, <2>7, <2>8, <1>b, <1>c
<1>12. ASSUME FinishFails PROVE CoverInv'
  <2>1. /\ Runs("finish") /\ Rejected(Head(ready).call) /\ ready' = Rest /\ UNCHANGED <<tableVars, saved>>
    BY <1>12 DEF FinishFails
  <2>2. Rest \in Seq(Tasks)
    BY <2>1, RunsParts
  <2>3. Covered(Rest, Safe, call) /\ Running(Rest, call)
    BY <2>1, PassCover
  <2>4. /\ \A x \in Calls : call'[x].known = call[x].known /\ call'[x].pc \in {call[x].pc, "failed"}
        /\ \A x \in Calls : call'[x] = call[x] \/ call'[x].pc = "failed"
    BY <2>1, RejectedKeeps
  <2>5. Covered(Rest, Safe, call') /\ Running(Rest, call')
    BY <2>2, <2>3, <2>4, AnswerCover
  <2>6. Answered'
    BY <2>1, <2>4, <1>a, <1>b, AnsweredKept
  <2>7. Safe' = Safe
    BY <2>1 DEF Safe
  <2> QED BY <2>1, <2>4, <2>5, <2>6, <2>7, <1>b, <1>c
<1>e. ASSUME NEW step \in CloseSteps, Runs(step), UNCHANGED <<call, saved, cleared>>,
             lost \subseteq lost', table \subseteq table',
             \/ ready' = Rest
             \/ \E next \in CloseSteps : ready' = Append(Rest, Task(next, {}, None))
      PROVE  CoverInv'
  <2>1. Rest \in Seq(Tasks) /\ Safe \subseteq Safe'
    BY <1>e, RunsParts DEF Safe
  <2>2. Covered(Rest, Safe', call) /\ Running(Rest, call)
    BY <2>1, <1>e, PassCover DEF CloseSteps
  <2>3. Covered(ready', Safe', call) /\ Running(ready', call)
    BY <2>1, <2>2, <1>e, PushedAlone DEF CloseSteps, Steps
  <2>4. Answered'
    BY <1>e, <1>b, AnsweredKept
  <2> QED BY <2>3, <2>4, <1>b, <1>c, <1>e
<1>13. ASSUME Close PROVE CoverInv'
  BY <1>13, <1>e DEF Close, CloseSteps
<1>14. ASSUME CloseInsert PROVE CoverInv'
  BY <1>14, <1>e DEF CloseInsert, Stored, CloseSteps
<1>15. ASSUME CloseFails PROVE CoverInv'
  BY <1>15, <1>e DEF CloseFails, CloseSteps
<1>16. ASSUME Closed PROVE CoverInv'
  BY <1>16, <1>e DEF Closed, CloseSteps
<1>17. ASSUME End PROVE CoverInv'
  <2>1. Covered(<<>>, Safe', call) /\ Running(<<>>, call)
    BY DEF Covered, Running
  <2>2. Answered'
    BY <1>17, <1>b, AnsweredKept DEF End
  <2> QED BY <2>1, <2>2, <1>17, <1>b, <1>c DEF End
<1>18. ASSUME UNCHANGED vars PROVE CoverInv'
  BY <1>18, <1>b, <1>d DEF vars
<1> QED BY <1>1, <1>2, <1>3, <1>4, <1>5, <1>6, <1>7, <1>8, <1>9, <1>10, <1>11, <1>12, <1>13,
           <1>14, <1>15, <1>16, <1>17, <1>18 DEF Next, Run

\* A report holds every row taken before it was asked for, also those that
\* another flush had under way: the event loop runs that insert first.
THEOREM ReportsComplete == Spec => []ReadsSeeSaves
<1>1. CoverInv => ReadsSeeSaves
  BY DEF CoverInv, ReadsSeeSaves
<1> QED BY <1>1, TypeInit, TypeStep, VanishInit, VanishStep, CoverInit, CoverStep, PTL DEF Spec
-----------------------------------------------------------------------------
(* Somebody has each row: the part of RowsSettle that is not scheduling.   *)

\* Rows that wait have a timer to wait for, and a process that has ended has no row.
WaitInv ==
  /\ queue # {} => timer
  /\ ended => queue = {} /\ ready = <<>>

LEMMA WaitInit == Init => WaitInv
BY DEF Init, WaitInv

LEMMA WaitStep == WaitInv /\ [Next]_vars => WaitInv'
<1> SUFFICES ASSUME WaitInv, [Next]_vars PROVE WaitInv'
  OBVIOUS
<1> USE DEF queueVars, tableVars, WaitInv
<1>1. ASSUME \/ \E r \in Rows : CallSave(r)
             \/ \E c \in Calls : Call(c)
             \/ CallClose
      PROVE  WaitInv'
  <2>1. ~ended /\ ended' = ended /\ queue' = queue /\ timer' = timer
    <3>1. ASSUME NEW r \in Rows, CallSave(r) PROVE ~ended /\ ended' = ended /\ queue' = queue /\ timer' = timer
      BY <3>1 DEF CallSave
    <3>2. ASSUME NEW c \in Calls, Call(c) PROVE ~ended /\ ended' = ended /\ queue' = queue /\ timer' = timer
      BY <3>2 DEF Call
    <3>3. ASSUME CallClose PROVE ~ended /\ ended' = ended /\ queue' = queue /\ timer' = timer
      BY <3>3 DEF CallClose
    <3> QED BY <1>1, <3>1, <3>2, <3>3
  <2> QED BY <2>1
<1>2. CASE Save
  BY <1>2 DEF Save, Runs, Flush
<1>3. CASE Read
  BY <1>3 DEF Read, Runs, Flush
<1>4. CASE Timer
  BY <1>4 DEF Timer, Flush
<1>5. CASE Insert \/ InsertFails \/ Flushed \/ Select \/ Delete \/ FinishFails \/ CloseInsert
             \/ CloseFails
  BY <1>5 DEF Insert, InsertFails, Flushed, Select, Delete, FinishFails, CloseInsert,
              CloseFails, Runs
<1>6. CASE Close
  BY <1>6 DEF Close, Runs
<1>7. CASE Closed
  BY <1>7 DEF Closed, Runs
<1>8. CASE End
  BY <1>8 DEF End
<1>9. CASE UNCHANGED vars
  BY <1>9 DEF vars
<1> QED BY <1>1, <1>2, <1>3, <1>4, <1>5, <1>6, <1>7, <1>8, <1>9 DEF Next, Run

\* While a row has not settled the process lives, and the row is in a batch whose
\* insert is to come, or in the queue with a timer set that will take it: no order
\* of saves, flushes, failures and close() leaves it to nobody (scheduleBatchFlush).
EachRowHasATaker ==
  \A r \in saved \ (table \cup lost \cup cleared) :
    ~ended /\ (r \in Under("insert") \/ (r \in queue /\ timer))

\* Nothing but the scheduling of the event loop and of its timer stands between a
\* row and the table.
THEOREM RowsHaveTakers == Spec => []EachRowHasATaker
<1>1. TypeOK /\ VanishInv /\ WaitInv => EachRowHasATaker
  <2> SUFFICES ASSUME TypeOK, VanishInv, WaitInv, NEW r \in saved, r \notin Safe
               PROVE  ~ended /\ (r \in Under("insert") \/ (r \in queue /\ timer))
    BY DEF EachRowHasATaker, Safe
  <2>1. r \in queue \/ Has(ready, "insert", r)
    BY DEF VanishInv
  <2>2. r \in Under("insert") <=> Has(ready, "insert", r)
    BY UnderHas DEF TypeOK
  <2>3. ready = <<>> => ~Has(ready, "insert", r)
    BY DEF Has
  <2>4. queue # {} => timer /\ ~ended
    BY DEF WaitInv
  <2>5. Has(ready, "insert", r) => ~ended
    BY <2>3 DEF WaitInv
  <2> QED BY <2>1, <2>2, <2>4, <2>5
<1> QED BY <1>1, TypeInit, TypeStep, VanishInit, VanishStep, WaitInit, WaitStep, PTL DEF Spec
=============================================================================
