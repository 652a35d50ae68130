------------------------- MODULE ConnectionsProofs -------------------------
(***************************************************************************)
(* What holds of a customer's connections, of the ads composed for them    *)
(* and of the work admitted for them, for any number of connections, ads,  *)
(* groups, rows and workers, and of tasks and handlers at a time.          *)
(***************************************************************************)
EXTENDS Connections, Compose, Admission, Integers, FiniteSetTheorems, TLAPS

-----------------------------------------------------------------------------
(***************************************************************************)
(* A customer's connections: creating and verifying them, logging in, the  *)
(* health loop and the disconnections, at the same time.                   *)
(***************************************************************************)

USE ConnectionsAssumption DEF ConnectionsAssumption

\* Who works on a connection: a handler of a request, or the worker's loop.
Slots == Tasks \cup {Loop}
\* A creation that has counted the connections, and one that inserts its own.
Opening == {"check", "create"}
\* The connections that count against the cap, but those whose opening overlapped
\* another's and those a task reopened.
Open == Counted \ late

\* The rows of connections and of their credentials.
ConnRowsTyped ==
    /\ connStatus \in [Conns -> ConnectionStatus \cup {"none"}]
    /\ account \in [Conns -> Accounts \cup {None}]
    /\ whose \in [Conns -> Accounts \cup {None}]
    /\ cred \subseteq Conns /\ torn \subseteq Conns /\ late \subseteq Conns

\* What a piece of work may be.
TaskRecords == [op : Opening \cup {"free", "code", "password", "health", "delivery",
                                "revoke", "disconnect"},
                conn : Conns \cup {None}, front : Fronts \cup {None},
                saw : ConnectionStatus \cup {"none"}, crowded : BOOLEAN]

\* The work under way.
TasksTyped ==
    task \in [Slots -> TaskRecords]

\* What the processes remember: which logins are open, and the conversation.
MemoryTyped ==
    /\ accepted \subseteq Conns
    /\ login \in [Fronts -> SUBSET Conns]
    /\ talk \in [step : {"none", "code", "password"}, conn : Conns \cup {None}]

\* What holds of each row: whose it is, and where its account and its credentials
\* are known.
RowFits(c) ==
    /\ connStatus[c] # "none" => whose[c] # None
    /\ connStatus[c] = "none" => account[c] = None /\ c \notin cred
    /\ account[c] \in {None, whose[c]}
    /\ (c \in cred \/ connStatus[c] = "active") /\ ~IsBot(c) => account[c] # None
    /\ connStatus[c] = "active" => c \in cred \cup torn

\* The unique index: an account has one row that has its id.
OneRowEach == \A c, d \in Conns : c # d /\ account[c] # None => account[c] # account[d]

\* A creation under way has its connection to itself; and, unless another one
\* has committed since it counted, room for it below the cap.
TaskFits(t) ==
    /\ task[t].op = "free" <=> task[t].conn = None
    /\ task[t].op = "free" => task[t] = FreeTask
    /\ task[t].op \in Opening =>
          /\ t # Loop /\ whose[task[t].conn] # None /\ connStatus[task[t].conn] = "none"
          /\ ~task[t].crowded => Cardinality(Open) < MaxConnections

\* No two creations are of one connection.
OneCreation ==
    \A t, u \in Slots :
        t # u /\ task[t].op \in Opening /\ task[u].op \in Opening => task[t].conn # task[u].conn

\* The rows, together.
ConnRowsFit == (\A c \in Conns : RowFits(c)) /\ OneRowEach
\* The work under way, together.
TasksFit == (\A t \in Slots : TaskFits(t)) /\ OneCreation
\* What the steps on rows and work rest on: the cap itself is part of it, as the
\* room a creation has found is measured against it.
ConnCore == ConnRowsTyped /\ TasksTyped /\ ConnRowsFit /\ TasksFit /\ CapHolds
\* The inductive invariant.
ConnInv == ConnCore /\ MemoryTyped

LEMMA OpenFinite ==
  ASSUME NEW S \in SUBSET Conns
  PROVE  IsFiniteSet(S) /\ Cardinality(S) \in Nat
  BY FS_Subset, FS_CardinalityType

LEMMA OpenTyped == Open \in SUBSET Conns /\ Open' \in SUBSET Conns
  BY DEF Open, Counted, ConnRows

\* Fewer open connections are fewer to count.
LEMMA OpenShrinks ==
  ASSUME Open' \subseteq Open
  PROVE  /\ Cardinality(Open') <= Cardinality(Open)
         /\ Cardinality(Open') \in Nat /\ Cardinality(Open) \in Nat
  BY OpenTyped, OpenFinite, FS_Subset

\* A connection that becomes open adds one at most.
LEMMA OpenGrows ==
  ASSUME NEW c \in Conns, Open' \subseteq Open \cup {c}
  PROVE  /\ Cardinality(Open') <= Cardinality(Open) + 1
         /\ Cardinality(Open') \in Nat /\ Cardinality(Open) \in Nat
<1>1. IsFiniteSet(Open) /\ Cardinality(Open) \in Nat /\ Cardinality(Open') \in Nat
  BY OpenTyped, OpenFinite
<1>2. IsFiniteSet(Open \cup {c}) /\ Cardinality(Open \cup {c}) \in {Cardinality(Open), Cardinality(Open) + 1}
  BY <1>1, FS_AddElement
<1>3. Cardinality(Open') <= Cardinality(Open \cup {c})
  BY <1>2, FS_Subset
<1>4. QED
  BY <1>1, <1>2, <1>3

LEMMA FreeTaskTyped ==
  FreeTask \in TaskRecords /\ FreeTask.op = "free" /\ FreeTask.conn = None /\ FreeTask.crowded = FALSE
  BY DEF FreeTask, TaskRecords

LEMMA CrowdedTyped ==
  ASSUME NEW r \in TaskRecords, NEW b \in BOOLEAN
  PROVE  /\ [r EXCEPT !.crowded = b] \in TaskRecords /\ [r EXCEPT !.crowded = b].crowded = b
         /\ [r EXCEPT !.crowded = b].op = r.op /\ [r EXCEPT !.crowded = b].conn = r.conn
         /\ r.crowded = b => [r EXCEPT !.crowded = b] = r
<1>1. [r EXCEPT !.crowded = b] \in TaskRecords /\ [r EXCEPT !.crowded = b].crowded = b
      /\ [r EXCEPT !.crowded = b].op = r.op /\ [r EXCEPT !.crowded = b].conn = r.conn
  BY DEF TaskRecords
<1>2. r.crowded = b => [r EXCEPT !.crowded = b] = r
  BY DEF TaskRecords
<1>3. QED
  BY <1>1, <1>2

LEMMA ConnInvInit == ConnInit => ConnInv
<1> SUFFICES ASSUME ConnInit PROVE ConnInv
  OBVIOUS
<1> USE DEF ConnInit
<1>1. ConnRowsTyped /\ ConnRowsFit
  BY DEF ConnRowsTyped, ConnRowsFit, RowFits, OneRowEach
<1>2. TasksTyped
  BY DEF TasksTyped, TaskRecords, FreeTask, Slots
<1>3. TasksFit
  <2>1. \A t \in Slots : task[t] = FreeTask
    BY DEF Slots
  <2>2. FreeTask.op = "free" /\ FreeTask.conn = None
    BY DEF FreeTask
  <2>3. \A t \in Slots : TaskFits(t)
    BY <2>1, <2>2 DEF TaskFits, Opening
  <2>4. OneCreation
    BY <2>1, <2>2 DEF OneCreation, Opening
  <2>5. QED
    BY <2>3, <2>4 DEF TasksFit
<1>4. CapHolds
  <2>1. Counted \ late = {}
    BY DEF Counted, ConnRows
  <2>2. Cardinality(Counted \ late) = 0
    BY <2>1, FS_EmptySet, Zenon
  <2>3. QED
    BY <2>2 DEF CapHolds
<1>5. MemoryTyped
  BY DEF MemoryTyped, Silent
<1>6. QED
  BY <1>1, <1>2, <1>3, <1>4, <1>5 DEF ConnInv, ConnCore

-----------------------------------------------------------------------------
(* The tasks *)

\* Creations that go on as they were keep what the invariant says of them.
LEMMA TasksKeep ==
  ASSUME ConnCore, TasksTyped',
         \A u \in Slots : /\ task'[u].op = "free" <=> task'[u].conn = None
                          /\ task'[u].op = "free" => task'[u] = FreeTask,
         \A u \in Slots : task'[u].op \in Opening =>
             /\ task[u].op \in Opening /\ task'[u].conn = task[u].conn
             /\ whose'[task[u].conn] # None /\ connStatus'[task[u].conn] = "none"
             /\ ~task'[u].crowded => ~task[u].crowded /\ Open' \subseteq Open
  PROVE  TasksFit'
<1>1. ASSUME NEW u \in Slots PROVE TaskFits(u)'
  <2>1. CASE task'[u].op \in Opening /\ ~task'[u].crowded
    <3>1. TaskFits(u) /\ task[u].op \in Opening /\ ~task[u].crowded /\ Open' \subseteq Open
      BY <2>1 DEF ConnCore, TasksFit
    <3>2. Cardinality(Open) < MaxConnections
      BY <3>1 DEF TaskFits
    <3>3. Cardinality(Open') < MaxConnections
      BY <3>1, <3>2, OpenShrinks
    <3>4. QED
      BY <2>1, <3>1, <3>3 DEF TaskFits, Opening
  <2>2. CASE task'[u].op \in Opening /\ task'[u].crowded
    BY <2>2 DEF TaskFits, ConnCore, TasksFit
  <2>3. CASE task'[u].op \notin Opening
    BY <2>3 DEF TaskFits
  <2>4. task'[u].crowded \in BOOLEAN
    BY DEF TasksTyped, TaskRecords
  <2>5. QED
    BY <2>1, <2>2, <2>3, <2>4
<1>2. OneCreation'
  BY DEF OneCreation, ConnCore, TasksFit
<1>3. QED
  BY <1>1, <1>2 DEF TasksFit

\* How an action that opens nothing leaves the tasks: one may have ended or begun.
Plain(t) ==
    \/ UNCHANGED task
    \/ Ends(t)
    \/ \E op \in {"code", "password", "health", "delivery", "revoke", "disconnect"},
          c \in Conns, f \in Fronts \cup {None} : Begins(t, op, c, f)

LEMMA PlainTasks ==
  ASSUME ConnCore, NEW t \in Slots, Plain(t)
  PROVE  /\ TasksTyped'
         /\ \A u \in Slots : /\ task'[u].op = "free" <=> task'[u].conn = None
                             /\ task'[u].op = "free" => task'[u] = FreeTask
                             /\ task'[u].op \in Opening => task'[u] = task[u]
<1> USE DEF ConnCore, TasksFit
<1>1. CASE UNCHANGED task
  BY <1>1 DEF TasksTyped, TaskRecords, TaskFits
<1>2. CASE Ends(t)
  <2>1. task'[t] = FreeTask /\ \A u \in Slots \ {t} : task'[u] = task[u]
    BY <1>2 DEF Ends, TasksTyped, TaskRecords
  <2>2. TasksTyped'
    BY <1>2 DEF Ends, TasksTyped, TaskRecords, FreeTask
  <2>3. FreeTask.op = "free" /\ FreeTask.conn = None
    BY DEF FreeTask
  <2>4. QED
    BY <2>1, <2>2, <2>3 DEF TaskFits, Opening
<1>3. ASSUME NEW op \in {"code", "password", "health", "delivery", "revoke", "disconnect"},
             NEW c \in Conns, NEW f \in Fronts \cup {None}, Begins(t, op, c, f)
      PROVE  /\ TasksTyped'
             /\ \A u \in Slots : /\ task'[u].op = "free" <=> task'[u].conn = None
                                 /\ task'[u].op = "free" => task'[u] = FreeTask
                                 /\ task'[u].op \in Opening => task'[u] = task[u]
  <2> DEFINE x == [FreeTask EXCEPT !.op = op, !.conn = c, !.front = f, !.saw = connStatus[c]]
  <2>1. task' = [task EXCEPT ![t] = x]
    BY <1>3 DEF Begins
  <2>2. x.op = op /\ x.conn = c
    BY DEF FreeTask
  <2>3. x \in TaskRecords
    BY DEF FreeTask, TaskRecords, ConnRowsTyped
  <2> HIDE DEF x
  <2>4. task'[t] = x /\ \A u \in Slots \ {t} : task'[u] = task[u]
    BY <2>1 DEF TasksTyped, TaskRecords
  <2>5. TasksTyped'
    BY <2>1, <2>3 DEF TasksTyped, TaskRecords
  <2>6. QED
    BY <2>2, <2>4, <2>5 DEF TaskFits, Opening
<1>4. QED
  BY <1>1, <1>2, <1>3 DEF Plain

-----------------------------------------------------------------------------
(* The rows *)

\* An action that leaves the rows as they are.
LEMMA QuietKeeps ==
  ASSUME ConnCore, NEW t \in Slots, Plain(t), UNCHANGED <<connColumns, ghosts>>
  PROVE  ConnCore'
<1> USE DEF ConnCore, connColumns, ghosts
<1>1. ConnRowsTyped' /\ ConnRowsFit'
  BY DEF ConnRowsTyped, ConnRowsFit, RowFits, OneRowEach, IsBot
<1>2. Open' = Open /\ CapHolds'
  BY DEF Open, Counted, ConnRows, CapHolds
<1>3. TasksFit'
  BY <1>2, PlainTasks, TasksKeep DEF TasksFit, TaskFits
<1>4. QED
  BY <1>1, <1>2, <1>3, PlainTasks

\* An action that writes one row.
LEMMA OneRowKeeps ==
  ASSUME ConnCore, NEW c \in Conns, ConnRowsTyped',
         \A d \in Conns \ {c} : /\ connStatus'[d] = connStatus[d] /\ account'[d] = account[d]
                                /\ whose'[d] = whose[d] /\ (d \in cred' <=> d \in cred)
                                /\ d \in torn => d \in torn',
         RowFits(c)',
         account'[c] # None => \A d \in Conns \ {c} : account[d] # account'[c]
  PROVE  ConnRowsFit'
<1> USE DEF ConnCore, ConnRowsFit
<1>1. \A d \in Conns \ {c} : RowFits(d)'
  BY DEF RowFits, IsBot
<1>2. OneRowEach'
  BY DEF OneRowEach
<1>3. QED
  BY <1>1, <1>2

\* A row that is there is written and dated by what the task had read.
LEMMA ConnWritesKeeps ==
  ASSUME ConnCore, NEW t \in Slots, Ends(t), NEW c \in Conns, c \in ConnRows,
         NEW s \in ConnectionStatus, Writes(t, c, s),
         whose' = whose, account' \in [Conns -> Accounts \cup {None}], cred' \subseteq Conns,
         \A d \in Conns \ {c} : account'[d] = account[d] /\ (d \in cred' <=> d \in cred),
         account'[c] \in {account[c], whose[c]},
         account'[c] # account[c] => \A d \in Conns \ {c} : account[d] # account'[c],
         (c \in cred' \/ s = "active") /\ ~IsBot(c) => account'[c] # None,
         s = "active" => c \in cred' \/ c \in torn \/ connStatus[c] # task[t].saw
  PROVE  ConnCore'
<1> USE DEF ConnCore
<1>1. /\ connStatus' = [connStatus EXCEPT ![c] = s] /\ s # "none" /\ connStatus[c] # "none"
      /\ torn' \in {torn, torn \cup {c}} /\ (connStatus[c] # task[t].saw => c \in torn')
      /\ late' = IF connStatus[c] = "disconnected" /\ s # "disconnected" THEN late \cup {c} ELSE late
  BY DEF Writes, ConnRows, ConnectionStatus, InProgress
<1>2. ConnRowsTyped'
  BY <1>1 DEF ConnRowsTyped
<1>3. connStatus'[c] = s /\ \A d \in Conns \ {c} : connStatus'[d] = connStatus[d]
  BY <1>1 DEF ConnRowsTyped
<1>4. RowFits(c) /\ whose[c] # None
  BY <1>1 DEF ConnRowsFit, RowFits
<1>5. RowFits(c)'
  <2>1. account'[c] \in {None, whose[c]}
    BY <1>4 DEF RowFits
  <2>2. QED
    BY <1>1, <1>3, <1>4, <2>1 DEF RowFits, IsBot
<1>6. account'[c] # None => \A d \in Conns \ {c} : account[d] # account'[c]
  BY DEF ConnRowsFit, OneRowEach
<1>7. ConnRowsFit'
  BY <1>1, <1>2, <1>3, <1>5, <1>6, OneRowKeeps
<1>8. Open' \subseteq Open
  <2> SUFFICES ASSUME NEW d \in Conns, d \in Open' PROVE d \in Open
    BY OpenTyped
  <2>1. connStatus'[d] \notin {"none", "disconnected"} /\ d \notin late'
    BY DEF Open, Counted, ConnRows
  <2>2. connStatus[d] \notin {"none", "disconnected"} /\ d \notin late
    BY <1>1, <1>3, <2>1
  <2>3. QED
    BY <2>2 DEF Open, Counted, ConnRows
<1>9. CapHolds'
  BY <1>8, OpenShrinks DEF CapHolds, Open
<1>10. Plain(t)
  BY DEF Plain
<1>11. ASSUME NEW u \in Slots, task'[u].op \in Opening
       PROVE  /\ task[u].op \in Opening /\ task'[u].conn = task[u].conn
              /\ whose'[task[u].conn] # None /\ connStatus'[task[u].conn] = "none"
              /\ ~task'[u].crowded => ~task[u].crowded /\ Open' \subseteq Open
  <2>1. task'[u] = task[u] /\ TaskFits(u)
    BY <1>10, <1>11, PlainTasks DEF TasksFit
  <2>2. task[u].conn \in Conns \ {c}
    BY <1>1, <1>11, <2>1 DEF TaskFits, TasksTyped, TaskRecords, Opening
  <2>3. QED
    BY <1>3, <1>8, <1>11, <2>1, <2>2 DEF TaskFits
<1>12. TasksFit'
  BY <1>10, <1>11, PlainTasks, TasksKeep
<1>13. QED
  BY <1>2, <1>7, <1>9, <1>10, <1>12, PlainTasks

\* A creation commits its row: the others that have counted are crowded from now on.
LEMMA OpensKeeps ==
  ASSUME ConnCore, NEW t \in Tasks, task[t].op = "create", Opens(t), NEW c, c = task[t].conn,
         NEW s \in ConnectionStatus, connStatus' = [connStatus EXCEPT ![c] = s],
         UNCHANGED <<whose, torn>>, cred' \in {cred, cred \cup {c}},
         account' \in {account, [account EXCEPT ![c] = whose[c]]},
         account' # account => Clashing(c, "active", whose[c]) = {},
         (c \in cred' \/ s = "active") => IsBot(c),
         s = "active" => c \in cred'
  PROVE  ConnCore'
<1> USE DEF ConnCore
<1>1. t \in Slots /\ c \in Conns /\ TaskFits(t) /\ connStatus[c] = "none" /\ whose[c] # None
  BY DEF Slots, TasksFit, TaskFits, TasksTyped, TaskRecords, Opening
<1>2. RowFits(c) /\ account[c] = None /\ c \notin cred
  BY <1>1 DEF ConnRowsFit, RowFits
<1>3. late' = IF task[t].crowded THEN late \cup {c} ELSE late
  BY DEF Opens
<1>4. ConnRowsTyped'
  BY <1>1, <1>3 DEF ConnRowsTyped
<1>5. /\ connStatus'[c] = s /\ \A d \in Conns \ {c} : connStatus'[d] = connStatus[d]
      /\ account'[c] \in {None, whose[c]} /\ \A d \in Conns \ {c} : account'[d] = account[d]
  BY <1>1, <1>2 DEF ConnRowsTyped
<1>6. RowFits(c)'
  <2>1. s # "none"
    BY DEF ConnectionStatus, InProgress
  <2>2. QED
    BY <1>1, <1>5, <2>1 DEF RowFits, IsBot
<1>7. account'[c] # None => \A d \in Conns \ {c} : account[d] # account'[c]
  <2> SUFFICES ASSUME account'[c] # None, NEW d \in Conns \ {c}, account[d] = account'[c]
               PROVE  FALSE
    OBVIOUS
  <2>1. account'[c] = whose[c] /\ Clashing(c, "active", whose[c]) = {}
    BY <1>2, <1>5
  <2>2. RowFits(d) /\ d \in ConnRows
    BY DEF ConnRowsFit, RowFits, ConnRows
  <2>3. QED
    BY <1>1, <2>1, <2>2 DEF Clashing
<1>8. ConnRowsFit'
  <2>1. \A d \in Conns \ {c} : d \in cred' <=> d \in cred
    OBVIOUS
  <2>2. QED
    BY <1>1, <1>4, <1>5, <1>6, <1>7, <2>1, OneRowKeeps
<1>9. CapHolds'
  <2>1. CASE task[t].crowded
    <3>1. Open' \subseteq Open
      BY <1>1, <1>3, <1>5, <2>1 DEF Open, Counted, ConnRows
    <3>2. QED
      BY <3>1, OpenShrinks DEF CapHolds, Open
  <2>2. CASE ~task[t].crowded
    <3>1. Open' \subseteq Open \cup {c}
      BY <1>1, <1>3, <1>5, <2>2 DEF Open, Counted, ConnRows
    <3>2. Cardinality(Open) < MaxConnections
      BY <1>1, <2>2 DEF TaskFits, Opening
    <3>3. Cardinality(Open') <= MaxConnections
      BY <1>1, <3>1, <3>2, OpenGrows
    <3>4. QED
      BY <3>3 DEF CapHolds, Open
  <2>3. QED
    BY <2>1, <2>2
<1>10. /\ task'[t] = FreeTask
       /\ \A u \in Slots \ {t} :
            task'[u] = [task[u] EXCEPT !.crowded = task[u].crowded \/ task[u].op \in {"check", "create"}]
  BY <1>1 DEF Opens, TasksTyped, TaskRecords
<1>11. ASSUME NEW u \in Slots \ {t}
       PROVE  /\ task'[u] \in TaskRecords
              /\ task'[u].op = task[u].op /\ task'[u].conn = task[u].conn
              /\ task[u].op \in Opening => task'[u].crowded
              /\ task[u] = FreeTask => task'[u] = FreeTask
  <2> DEFINE b == task[u].crowded \/ task[u].op \in {"check", "create"}
  <2>1. b \in BOOLEAN /\ (task[u].op \in Opening => b) /\ (task[u] = FreeTask => task[u].crowded = b)
    BY FreeTaskTyped DEF Opening
  <2>2. task'[u] = [task[u] EXCEPT !.crowded = b] /\ task[u] \in TaskRecords
    BY <1>10 DEF TasksTyped, TaskRecords
  <2> HIDE DEF b
  <2>3. QED
    BY <2>1, <2>2, CrowdedTyped
<1>12. TasksTyped'
  <2>1. \A u \in Slots : task'[u] \in TaskRecords
    BY <1>10, <1>11, FreeTaskTyped
  <2>2. task' = [u \in Slots |-> task'[u]]
    BY DEF Opens, TasksTyped, TaskRecords
  <2>3. QED
    BY <2>1, <2>2 DEF TasksTyped, TaskRecords
<1>13. \A u \in Slots \ {t} :
          /\ task'[u].op = task[u].op /\ task'[u].conn = task[u].conn
          /\ task[u].op \in Opening => task'[u].crowded
          /\ task[u] = FreeTask => task'[u] = FreeTask
  BY <1>11
<1>14. ASSUME NEW u \in Slots
       PROVE  /\ task'[u].op = "free" <=> task'[u].conn = None
              /\ task'[u].op = "free" => task'[u] = FreeTask
  <2>1. TaskFits(u)
    BY DEF TasksFit
  <2>2. QED
    BY <1>10, <1>13, <2>1, FreeTaskTyped DEF TaskFits
<1>15. ASSUME NEW u \in Slots, task'[u].op \in Opening
       PROVE  /\ task[u].op \in Opening /\ task'[u].conn = task[u].conn
              /\ whose'[task[u].conn] # None /\ connStatus'[task[u].conn] = "none"
              /\ ~task'[u].crowded => ~task[u].crowded /\ Open' \subseteq Open
  <2>1. u # t
    BY <1>10, <1>15 DEF FreeTask, Opening
  <2>2. TaskFits(u) /\ task[u].op \in Opening /\ task[u].conn # c
    BY <1>1, <1>13, <1>15, <2>1 DEF TasksFit, OneCreation, Opening
  <2>3. task[u].conn \in Conns
    BY <2>2 DEF TaskFits, TasksTyped, TaskRecords, Opening
  <2>4. QED
    BY <1>5, <1>13, <1>15, <2>1, <2>2, <2>3 DEF TaskFits
<1>16. TasksFit'
  BY <1>12, <1>14, <1>15, TasksKeep
<1>17. QED
  BY <1>4, <1>8, <1>9, <1>12, <1>16

-----------------------------------------------------------------------------
(* One lemma per action *)

LEMMA BeginCreateKeeps ==
  ASSUME ConnCore, NEW t \in Tasks, NEW f \in Fronts, NEW c \in Conns, NEW a \in Accounts,
         BeginCreate(t, f, c, a)
  PROVE  ConnCore'
<1> USE DEF ConnCore
<1> DEFINE x == [FreeTask EXCEPT !.op = "check", !.conn = c, !.front = f, !.saw = connStatus[c]]
<1>1. /\ whose[c] = None /\ MayOpen /\ task[t] = FreeTask /\ task' = [task EXCEPT ![t] = x]
      /\ whose' = [whose EXCEPT ![c] = a] /\ UNCHANGED <<connStatus, account, cred, torn, late>>
  BY DEF BeginCreate, Begins, ghosts
<1>2. RowFits(c) /\ connStatus[c] = "none" /\ account[c] = None /\ c \notin cred
  BY <1>1 DEF ConnRowsFit, RowFits
<1>3. whose'[c] = a /\ a # None /\ \A d \in Conns \ {c} : whose'[d] = whose[d]
  BY <1>1 DEF ConnRowsTyped
<1>4. ConnRowsTyped'
  BY <1>1 DEF ConnRowsTyped
<1>5. RowFits(c)'
  BY <1>1, <1>2, <1>3 DEF RowFits, IsBot
<1>6. ConnRowsFit'
  BY <1>1, <1>2, <1>3, <1>4, <1>5, OneRowKeeps
<1>7. Open' = Open /\ CapHolds'
  BY <1>1 DEF Open, Counted, ConnRows, CapHolds
<1>8. Cardinality(Open') < MaxConnections
  <2>1. Counted \in SUBSET Conns /\ Open \subseteq Counted
    BY DEF Open, Counted, ConnRows
  <2>2. Cardinality(Open) <= Cardinality(Counted) /\ Cardinality(Counted) \in Nat
        /\ Cardinality(Open) \in Nat
    BY <2>1, OpenTyped, OpenFinite, FS_Subset
  <2>3. QED
    BY <1>1, <1>7, <2>2 DEF MayOpen
<1>9. x.op = "check" /\ x.conn = c /\ x.crowded = FALSE
  BY DEF FreeTask
<1>10. TasksTyped'
  <2>1. x \in TaskRecords
    BY DEF FreeTask, TaskRecords, ConnRowsTyped, Opening
  <2> HIDE DEF x
  <2>2. QED
    BY <1>1, <2>1 DEF TasksTyped, TaskRecords
<1> HIDE DEF x
<1>11. t \in Slots /\ t # Loop /\ task'[t] = x /\ \A u \in Slots \ {t} : task'[u] = task[u]
  BY <1>1 DEF TasksTyped, TaskRecords, Slots
<1>12. ASSUME NEW u \in Slots \ {t}
       PROVE  TaskFits(u)' /\ (task[u].op \in Opening => task[u].conn # c)
  <2>1. TaskFits(u) /\ task'[u] = task[u]
    BY <1>11 DEF TasksFit
  <2>2. task[u].op \in Opening => task[u].conn \in Conns \ {c}
    BY <1>1, <2>1 DEF TaskFits, TasksTyped, TaskRecords, Opening
  <2>3. QED
    BY <1>1, <1>3, <1>7, <2>1, <2>2 DEF TaskFits
<1>13. TaskFits(t)'
  BY <1>1, <1>2, <1>3, <1>8, <1>9, <1>11 DEF TaskFits, Opening
<1>14. OneCreation'
  BY <1>9, <1>11, <1>12 DEF OneCreation, TasksFit
<1>15. QED
  BY <1>4, <1>6, <1>7, <1>10, <1>12, <1>13, <1>14 DEF TasksFit

\* A creation that is undone leaves its connection free again.
LEMMA UndoKeeps ==
  ASSUME ConnCore, NEW t \in Tasks, task[t].op \in Opening, Undo(t)
  PROVE  ConnCore'
<1> USE DEF ConnCore
<1>0. PICK c \in Conns : c = task[t].conn
  BY DEF TasksFit, TaskFits, TasksTyped, TaskRecords, Opening, Slots
<1>1. c = task[t].conn /\ t \in Slots /\ TaskFits(t) /\ connStatus[c] = "none"
  BY <1>0 DEF Slots, TasksFit, TaskFits
<1>2. /\ whose' = [whose EXCEPT ![c] = None] /\ Ends(t)
      /\ UNCHANGED <<connStatus, account, cred, torn, late>>
  BY <1>0 DEF Undo, ghosts
<1>3. ConnRowsTyped'
  BY <1>1, <1>2 DEF ConnRowsTyped
<1>4. whose'[c] = None /\ \A d \in Conns \ {c} : whose'[d] = whose[d]
  BY <1>1, <1>2 DEF ConnRowsTyped
<1>5. RowFits(c) /\ account[c] = None /\ c \notin cred
  BY <1>1 DEF ConnRowsFit, RowFits
<1>6. RowFits(c)'
  BY <1>1, <1>2, <1>4, <1>5 DEF RowFits
<1>7. ConnRowsFit'
  BY <1>1, <1>2, <1>3, <1>4, <1>5, <1>6, OneRowKeeps
<1>8. Open' = Open /\ CapHolds'
  BY <1>2 DEF Open, Counted, ConnRows, CapHolds
<1>9. Plain(t)
  BY <1>2 DEF Plain
<1>10. task'[t] = FreeTask
  BY <1>1, <1>2 DEF Ends, TasksTyped, TaskRecords
<1>11. ASSUME NEW u \in Slots, task'[u].op \in Opening
       PROVE  /\ task[u].op \in Opening /\ task'[u].conn = task[u].conn
              /\ whose'[task[u].conn] # None /\ connStatus'[task[u].conn] = "none"
              /\ ~task'[u].crowded => ~task[u].crowded /\ Open' \subseteq Open
  <2>1. task'[u] = task[u] /\ TaskFits(u) /\ u # t
    BY <1>1, <1>9, <1>10, <1>11, PlainTasks DEF TasksFit, FreeTask, Opening
  <2>2. task[u].conn \in Conns \ {c}
    BY <1>1, <1>11, <2>1 DEF TaskFits, TasksTyped, TaskRecords, Opening, TasksFit, OneCreation
  <2>3. QED
    BY <1>2, <1>4, <1>8, <1>11, <2>1, <2>2 DEF TaskFits
<1>12. TasksFit'
  BY <1>1, <1>9, <1>11, PlainTasks, TasksKeep
<1>13. QED
  BY <1>1, <1>3, <1>7, <1>8, <1>9, <1>12, PlainTasks

LEMMA InsertKeeps ==
  ASSUME ConnCore, NEW t \in Tasks, Insert(t)
  PROVE  ConnCore'
<1> USE DEF ConnCore
<1>1. CASE Undo(t)
  BY <1>1, UndoKeeps DEF Insert, Opening
<1>2. CASE task' = [task EXCEPT ![t].op = "create"] /\ UNCHANGED <<connColumns, ghosts>>
  <2>1. t \in Slots /\ task[t].op = "check"
    BY DEF Insert, Slots
  <2>2. TasksTyped'
    BY <1>2, <2>1 DEF TasksTyped, TaskRecords, Opening
  <2>3. /\ task'[t].op = "create" /\ task'[t].conn = task[t].conn
        /\ task'[t].crowded = task[t].crowded
        /\ \A u \in Slots \ {t} : task'[u] = task[u]
    BY <1>2, <2>1 DEF TasksTyped, TaskRecords
  <2>4. ConnRowsTyped' /\ ConnRowsFit' /\ CapHolds' /\ Open' = Open
    BY <1>2 DEF connColumns, ghosts, ConnRowsTyped, ConnRowsFit, RowFits, OneRowEach, IsBot, CapHolds,
                Open, Counted, ConnRows
  <2>5. \A u \in Slots : /\ task'[u].op = "free" <=> task'[u].conn = None
                         /\ task'[u].op = "free" => task'[u] = FreeTask
    BY <2>1, <2>3 DEF TasksFit, TaskFits
  <2>6. \A u \in Slots : task'[u].op \in Opening =>
             /\ task[u].op \in Opening /\ task'[u].conn = task[u].conn
             /\ whose'[task[u].conn] # None /\ connStatus'[task[u].conn] = "none"
             /\ ~task'[u].crowded => ~task[u].crowded /\ Open' \subseteq Open
    BY <1>2, <2>1, <2>3, <2>4 DEF TasksFit, TaskFits, Opening, connColumns
  <2>7. TasksFit'
    BY <2>2, <2>5, <2>6, TasksKeep
  <2>8. QED
    BY <2>2, <2>4, <2>7
<1>3. QED
  BY <1>1, <1>2 DEF Insert

LEMMA VerifyBotKeeps ==
  ASSUME ConnCore, NEW t \in Tasks, VerifyBot(t)
  PROVE  ConnCore'
<1> DEFINE c == task[t].conn
<1>1. task[t].op = "create" /\ IsBot(c)
  BY DEF VerifyBot
<1>2. CASE Undo(t)
  BY <1>1, <1>2, UndoKeeps DEF Opening
<1>3. CASE /\ Clashing(c, "active", whose[c]) = {}
           /\ connStatus' = [connStatus EXCEPT ![c] = "active"]
           /\ account' = [account EXCEPT ![c] = whose[c]]
           /\ cred' = Stored(c) /\ Opens(t) /\ UNCHANGED <<whose, torn>>
  <2>1. "active" \in ConnectionStatus
    BY DEF ConnectionStatus
  <2>2. QED
    BY <1>1, <1>3, <2>1, OpensKeeps DEF Stored
<1>4. CASE /\ connStatus' = [connStatus EXCEPT ![c] = "error"]
           /\ cred' = Stored(c) /\ Opens(t) /\ UNCHANGED <<account, whose, torn>>
  <2>1. "error" \in ConnectionStatus
    BY DEF ConnectionStatus
  <2>2. QED
    BY <1>1, <1>4, <2>1, OpensKeeps DEF Stored
<1>5. QED
  BY <1>2, <1>3, <1>4 DEF VerifyBot

LEMMA StartLoginKeeps ==
  ASSUME ConnCore, NEW t \in Tasks, StartLogin(t)
  PROVE  ConnCore'
<1> DEFINE c == task[t].conn
<1>1. task[t].op = "create"
  BY DEF StartLogin
<1>2. CASE Undo(t)
  BY <1>1, <1>2, UndoKeeps DEF Opening
<1>3. CASE /\ connStatus' = [connStatus EXCEPT ![c] = "awaiting_code"]
           /\ Opens(t) /\ UNCHANGED <<account, cred, whose, torn>>
  <2>1. "awaiting_code" \in ConnectionStatus
    BY DEF ConnectionStatus, InProgress
  <2>2. c \notin cred
    BY <1>1 DEF ConnCore, TasksFit, TaskFits, TasksTyped, TaskRecords, ConnRowsFit, RowFits, Opening, Slots
  <2>3. QED
    BY <1>1, <1>3, <2>1, <2>2, OpensKeeps
<1>4. QED
  BY <1>2, <1>3 DEF StartLogin

\* A sign-in that ends: the row is the account's, which no other row is.
LEMMA SignInKeeps ==
  ASSUME ConnCore, NEW t \in Tasks, SignIn(t)
  PROVE  ConnCore'
<1> DEFINE c == task[t].conn
<1>1. t \in Slots /\ Ends(t) /\ Plain(t)
  BY DEF SignIn, Finalize, Slots, Plain
<1>2. CASE UNCHANGED <<connColumns, ghosts>>
  BY <1>1, <1>2, QuietKeeps
<1>3. CASE /\ c \in ConnRows /\ Clashing(c, "active", whose[c]) = {}
           /\ Writes(t, c, "active") /\ account' = [account EXCEPT ![c] = whose[c]]
           /\ cred' = Stored(c) /\ whose' = whose
  <2>1. c \in Conns /\ "active" \in ConnectionStatus
    BY <1>3 DEF ConnRows, ConnectionStatus
  <2>2. /\ account' \in [Conns -> Accounts \cup {None}] /\ cred' \subseteq Conns /\ c \in cred'
        /\ account'[c] = whose[c] /\ whose[c] # None
        /\ \A d \in Conns \ {c} : account'[d] = account[d] /\ (d \in cred' <=> d \in cred)
    BY <1>3, <2>1 DEF Stored, ConnCore, ConnRowsTyped, ConnRowsFit, RowFits, ConnRows
  <2>3. \A d \in Conns \ {c} : account[d] # whose[c]
    <3> SUFFICES ASSUME NEW d \in Conns \ {c}, account[d] = whose[c] PROVE FALSE
      OBVIOUS
    <3>1. d \in ConnRows
      BY <2>2 DEF ConnCore, ConnRowsFit, RowFits, ConnRows
    <3>2. QED
      BY <1>3, <2>2, <3>1 DEF Clashing
  <2>4. QED
    BY <1>1, <1>3, <2>1, <2>2, <2>3, ConnWritesKeeps
<1>4. QED
  BY <1>2, <1>3 DEF SignIn, Finalize

\* A write of a status that is not a sign-in's leaves the account as it is.
LEMMA ConnStatusKeeps ==
  ASSUME ConnCore, NEW t \in Slots, Ends(t), NEW c, c \in ConnRows,
         NEW s \in ConnectionStatus, Writes(t, c, s), UNCHANGED <<whose, account>>,
         cred' \in {cred, cred \ {c}},
         s = "active" => \/ c \in cred'
                         \/ connStatus[c] = "active" /\ connStatus[c] # task[t].saw
  PROVE  ConnCore'
<1>1. c \in Conns /\ RowFits(c)
  BY DEF ConnRows, ConnCore, ConnRowsFit
<1>2. (c \in cred' \/ s = "active") /\ ~IsBot(c) => account'[c] # None
  BY <1>1 DEF RowFits
<1>3. account' \in [Conns -> Accounts \cup {None}] /\ cred' \subseteq Conns
  BY DEF ConnCore, ConnRowsTyped
<1>4. \A d \in Conns \ {c} : account'[d] = account[d] /\ (d \in cred' <=> d \in cred)
  OBVIOUS
<1>5. QED
  BY <1>1, <1>2, <1>3, <1>4, ConnWritesKeeps

LEMMA AskPasswordKeeps ==
  ASSUME ConnCore, NEW t \in Tasks, AskPassword(t)
  PROVE  ConnCore'
<1> DEFINE c == task[t].conn
<1>1. t \in Slots /\ Ends(t) /\ Plain(t)
  BY DEF AskPassword, Slots, Plain
<1>2. CASE UNCHANGED <<connColumns, ghosts>>
  BY <1>1, <1>2, QuietKeeps
<1>3. CASE c \in ConnRows /\ Writes(t, c, "awaiting_2fa") /\ UNCHANGED <<account, cred, whose>>
  <2>1. "awaiting_2fa" \in ConnectionStatus
    BY DEF ConnectionStatus, InProgress
  <2>2. QED
    BY <1>1, <1>3, <2>1, ConnStatusKeeps
<1>4. QED
  BY <1>2, <1>3 DEF AskPassword

LEMMA EndHealthKeeps ==
  ASSUME ConnCore, NEW t \in Slots, EndHealth(t)
  PROVE  ConnCore'
<1> DEFINE c == task[t].conn
<1>1. Ends(t) /\ Plain(t)
  BY DEF EndHealth, Plain
<1>2. CASE UNCHANGED <<connColumns, ghosts>>
  BY <1>1, <1>2, QuietKeeps
<1>3. ASSUME NEW healthy \in HealthAnswers(c), NEW s, s = HealthWrite(task[t].saw, healthy),
             c \in ConnRows, s # task[t].saw, Writes(t, c, s), UNCHANGED <<account, cred, whose>>
      PROVE  ConnCore'
  <2>1. healthy \in BOOLEAN /\ (healthy => c \in cred)
    BY <1>3 DEF HealthAnswers
  <2>2. s \in {"active", "error"} /\ (s = "active" => c \in cred)
    BY <1>3, <2>1 DEF HealthWrite
  <2>3. s \in ConnectionStatus /\ (s = "active" => c \in cred') /\ cred' = cred
    BY <1>3, <2>2 DEF ConnectionStatus
  <2>4. QED
    BY <1>1, <1>3, <2>3, ConnStatusKeeps
<1>4. QED
  BY <1>2, <1>3 DEF EndHealth

LEMMA PauseForSafetyKeeps ==
  ASSUME ConnCore, NEW t \in Tasks, PauseForSafety(t)
  PROVE  ConnCore'
<1> DEFINE c == task[t].conn
<1>1. t \in Slots /\ Ends(t) /\ Plain(t)
  BY DEF PauseForSafety, Slots, Plain
<1>2. CASE UNCHANGED <<connColumns, ghosts>>
  BY <1>1, <1>2, QuietKeeps
<1>3. CASE c \in ConnRows /\ Writes(t, c, "paused_safety") /\ UNCHANGED <<account, cred, whose>>
  <2>1. "paused_safety" \in ConnectionStatus
    BY DEF ConnectionStatus
  <2>2. QED
    BY <1>1, <1>3, <2>1, ConnStatusKeeps
<1>4. QED
  BY <1>2, <1>3 DEF PauseForSafety

LEMMA EndDisconnectKeeps ==
  ASSUME ConnCore, NEW t \in Tasks, EndDisconnect(t)
  PROVE  ConnCore'
<1> DEFINE c == task[t].conn
           s == DisconnectedFrom(task[t].saw, connStatus[c])
<1>1. t \in Slots /\ Ends(t) /\ Plain(t)
  BY DEF EndDisconnect, Slots, Plain
<1>2. CASE UNCHANGED <<connColumns, ghosts>>
  BY <1>1, <1>2, QuietKeeps
<1>3. CASE /\ c \in ConnRows /\ Writes(t, c, s) /\ UNCHANGED <<account, whose>>
           /\ cred' = Dropped(c, task[t].op = "revoke")
  <2>1. s \in ConnectionStatus
    BY <1>3 DEF DisconnectedFrom, ConnCore, ConnRowsTyped, ConnRows, ConnectionStatus
  <2>2. s = "active" => connStatus[c] = "active" /\ connStatus[c] # task[t].saw
    BY DEF DisconnectedFrom
  <2>3. cred' \in {cred, cred \ {c}}
    BY <1>3 DEF Dropped
  <2> HIDE DEF s
  <2>4. QED
    BY <1>1, <1>3, <2>1, <2>2, <2>3, ConnStatusKeeps
<1>4. QED
  BY <1>2, <1>3 DEF EndDisconnect

LEMMA AbandonAttemptKeeps ==
  ASSUME ConnCore, NEW c \in Conns, AbandonAttempt(c)
  PROVE  ConnCore'
<1> USE DEF ConnCore
<1>1. /\ connStatus' = [connStatus EXCEPT ![c] = "none"] /\ connStatus[c] # "none"
      /\ account' = [account EXCEPT ![c] = None] /\ cred' = cred \ {c}
      /\ UNCHANGED <<whose, task, torn, late>>
  BY DEF AbandonAttempt, ghosts, ConnRows
<1>2. ConnRowsTyped'
  BY <1>1 DEF ConnRowsTyped
<1>3. /\ connStatus'[c] = "none" /\ account'[c] = None /\ c \notin cred'
      /\ \A d \in Conns \ {c} : /\ connStatus'[d] = connStatus[d] /\ account'[d] = account[d]
                                /\ (d \in cred' <=> d \in cred)
  BY <1>1 DEF ConnRowsTyped
<1>4. RowFits(c)'
  BY <1>3 DEF RowFits
<1>5. ConnRowsFit'
  BY <1>1, <1>2, <1>3, <1>4, OneRowKeeps
<1>6. Open' \subseteq Open
  BY <1>1, <1>3 DEF Open, Counted, ConnRows
<1>7. CapHolds'
  BY <1>6, OpenShrinks DEF CapHolds, Open
<1>8. TasksTyped' /\ \A u \in Slots : TaskFits(u) /\ task'[u] = task[u]
  BY <1>1 DEF TasksTyped, TaskRecords, TasksFit
<1>9. \A u \in Slots : task[u].op \in Opening => task[u].conn \in Conns \ {c}
  BY <1>1, <1>8 DEF TaskFits, TasksTyped, TaskRecords, Opening
<1>10. TasksFit'
  BY <1>1, <1>3, <1>6, <1>8, <1>9, TasksKeep DEF TaskFits
<1>11. QED
  BY <1>2, <1>5, <1>7, <1>8, <1>10

\* A restart undoes every creation of its process, and frees its other tasks.
LEMMA RestartKeeps ==
  ASSUME ConnCore, NEW f \in Fronts, Restart(f)
  PROVE  ConnCore'
<1> USE DEF ConnCore
<1> DEFINE Undone(c) == \E t \in Tasks : /\ task[t].front = f /\ task[t].op \in {"check", "create"}
                                        /\ task[t].conn = c
<1>1. /\ task' = [t \in Slots |-> IF task[t].front = f THEN FreeTask ELSE task[t]]
      /\ whose' = [c \in Conns |-> IF Undone(c) THEN None ELSE whose[c]]
      /\ UNCHANGED <<connStatus, account, cred, torn, late>>
  BY DEF Restart, ghosts, TasksTyped, TaskRecords
<1>2. ConnRowsTyped'
  BY <1>1 DEF ConnRowsTyped
<1>3. TasksTyped'
  BY <1>1 DEF TasksTyped, TaskRecords, FreeTask
<1>4. \A c \in Conns : Undone(c) => connStatus[c] = "none"
  BY DEF TasksFit, TaskFits, Opening, Slots
<1>5. ASSUME NEW c \in Conns PROVE RowFits(c)'
  <2>1. RowFits(c)
    BY DEF ConnRowsFit
  <2>2. CASE Undone(c)
    BY <1>1, <1>4, <2>1, <2>2 DEF RowFits
  <2>3. CASE ~Undone(c)
    BY <1>1, <2>1, <2>3 DEF RowFits, IsBot
  <2>4. QED
    BY <2>2, <2>3
<1>6. ConnRowsFit' /\ Open' = Open /\ CapHolds'
  BY <1>1, <1>5 DEF ConnRowsFit, OneRowEach, Open, Counted, ConnRows, CapHolds
<1> HIDE DEF Undone
<1>7. \A u \in Slots : /\ task'[u].op = "free" <=> task'[u].conn = None
                       /\ task'[u].op = "free" => task'[u] = FreeTask
  BY <1>1 DEF TasksFit, TaskFits, FreeTask
<1>8. ASSUME NEW u \in Slots, task'[u].op \in Opening
      PROVE  /\ task[u].op \in Opening /\ task'[u].conn = task[u].conn
             /\ whose'[task[u].conn] # None /\ connStatus'[task[u].conn] = "none"
             /\ ~task'[u].crowded => ~task[u].crowded /\ Open' \subseteq Open
  <2>1. task'[u] = task[u] /\ task[u].front # f /\ TaskFits(u)
    BY <1>1, <1>8 DEF FreeTask, Opening, TasksFit
  <2>2. task[u].conn \in Conns /\ whose[task[u].conn] # None /\ connStatus[task[u].conn] = "none"
    BY <1>8, <2>1 DEF TaskFits, TasksTyped, TaskRecords, Opening
  <2>3. ~Undone(task[u].conn)
    BY <1>8, <2>1 DEF Undone, TasksFit, OneCreation, Slots, Opening
  <2>4. QED
    BY <1>1, <1>6, <1>8, <2>1, <2>2, <2>3
<1>9. TasksFit'
  BY <1>3, <1>7, <1>8, TasksKeep
<1>10. QED
  BY <1>2, <1>3, <1>6, <1>9

\* The actions that leave the rows alone.
LEMMA QuietActions ==
  ASSUME ConnCore,
         \/ \E t \in Tasks : WrongEntry(t)
         \/ \E t \in Tasks, f \in Fronts, c \in Conns, step \in {"code", "password"} :
                BeginEnter(t, f, c, step)
         \/ \E t \in Tasks, c \in Conns : BeginHealth(t, c) \/ BeginDelivery(t, c)
         \/ \E t \in Tasks, c \in Conns, revoke \in BOOLEAN : BeginDisconnect(t, c, revoke)
         \/ \E c \in Conns : LoopCheck(c) \/ Outside(c)
         \/ CancelTalk
  PROVE  ConnCore'
<1>1. \A t \in Tasks : t \in Slots
  BY DEF Slots
<1>2. Loop \in Slots
  BY DEF Slots
<1>3. CASE \E t \in Tasks : WrongEntry(t)
  BY <1>1, <1>3, QuietKeeps DEF WrongEntry, KeepsRows, Plain
<1>4. ASSUME NEW t \in Tasks, NEW f \in Fronts, NEW c \in Conns, NEW step \in {"code", "password"},
             BeginEnter(t, f, c, step)
      PROVE  ConnCore'
  <2>1. Plain(t) /\ UNCHANGED <<connColumns, ghosts>>
    BY <1>4 DEF BeginEnter, Plain
  <2>2. QED
    BY <1>1, <2>1, QuietKeeps
<1>5. ASSUME NEW t \in Tasks, NEW c \in Conns, BeginHealth(t, c) \/ BeginDelivery(t, c)
      PROVE  ConnCore'
  <2>1. Plain(t) /\ UNCHANGED <<connColumns, ghosts>>
    BY <1>5 DEF BeginHealth, BeginDelivery, KeepsRows, Plain
  <2>2. QED
    BY <1>1, <2>1, QuietKeeps
<1>6. ASSUME NEW t \in Tasks, NEW c \in Conns, NEW revoke \in BOOLEAN, BeginDisconnect(t, c, revoke)
      PROVE  ConnCore'
  <2>1. Plain(t) /\ UNCHANGED <<connColumns, ghosts>>
    BY <1>6 DEF BeginDisconnect, Plain
  <2>2. QED
    BY <1>1, <2>1, QuietKeeps
<1>7. ASSUME NEW c \in Conns, LoopCheck(c) \/ Outside(c) PROVE ConnCore'
  <2>1. Plain(Loop) /\ UNCHANGED <<connColumns, ghosts>>
    BY <1>7 DEF LoopCheck, Outside, KeepsRows, Plain
  <2>2. QED
    BY <1>2, <2>1, QuietKeeps
<1>8. CASE CancelTalk
  <2>1. Plain(Loop) /\ UNCHANGED <<connColumns, ghosts>>
    BY <1>8 DEF CancelTalk, KeepsRows, Plain
  <2>2. QED
    BY <1>2, <2>1, QuietKeeps
<1>9. QED
  BY <1>3, <1>4, <1>5, <1>6, <1>7, <1>8

LEMMA ConnCoreStep == ConnCore /\ [ConnNext]_connVars => ConnCore'
<1> SUFFICES ASSUME ConnCore, [ConnNext]_connVars PROVE ConnCore'
  OBVIOUS
<1>1. ASSUME NEW t \in Tasks, TaskStep(t) PROVE ConnCore'
  <2>1. t \in Slots
    BY DEF Slots
  <2>2. QED
    BY <1>1, <2>1, InsertKeeps, VerifyBotKeeps, StartLoginKeeps, QuietActions, AskPasswordKeeps,
       SignInKeeps, EndHealthKeeps, PauseForSafetyKeeps, EndDisconnectKeeps DEF TaskStep
<1>2. ASSUME NEW t \in Tasks, Asks(t) PROVE ConnCore'
  BY <1>2, BeginCreateKeeps, QuietActions DEF Asks
<1>3. CASE EndHealth(Loop)
  BY <1>3, EndHealthKeeps DEF Slots
<1>4. ASSUME NEW c \in Conns, LoopCheck(c) \/ AbandonAttempt(c) \/ Outside(c) PROVE ConnCore'
  BY <1>4, QuietActions, AbandonAttemptKeeps
<1>5. CASE CancelTalk
  BY <1>5, QuietActions
<1>6. CASE \E f \in Fronts : Restart(f)
  BY <1>6, RestartKeeps
<1>7. CASE UNCHANGED connVars
  <2>1. Loop \in Slots /\ Plain(Loop) /\ UNCHANGED <<connColumns, ghosts>>
    BY <1>7 DEF connVars, connColumns, ghosts, Plain, Slots
  <2>2. QED
    BY <2>1, QuietKeeps
<1>8. QED
  BY <1>1, <1>2, <1>3, <1>4, <1>5, <1>6, <1>7 DEF ConnNext
-----------------------------------------------------------------------------
(* The memory of the processes *)

LEMMA MemoryKeeps == ConnInv /\ [ConnNext]_connVars => MemoryTyped'
<1> SUFFICES ASSUME ConnInv, [ConnNext]_connVars PROVE MemoryTyped'
  OBVIOUS
<1>1. MemoryTyped /\ cred \subseteq Conns
  BY DEF ConnInv, ConnCore, ConnRowsTyped
<1>2. ASSUME NEW t \in Slots, task[t].op # "free" PROVE task[t].conn \in Conns
  BY <1>2 DEF ConnInv, ConnCore, TasksTyped, TaskRecords, TasksFit, TaskFits
<1>3. Silent \in [step : {"none", "code", "password"}, conn : Conns \cup {None}]
  BY DEF Silent
<1> USE DEF MemoryTyped
<1>4. CASE UNCHANGED <<accepted, login, talk>>
  BY <1>1, <1>4
<1>5. ASSUME NEW t \in Tasks, VerifyBot(t) PROVE MemoryTyped'
  <2>1. task[t].conn \in Conns
    BY <1>2, <1>5 DEF VerifyBot, Slots
  <2>2. accepted' \in {accepted, accepted \cup {task[t].conn}} /\ UNCHANGED <<login, talk>>
    BY <1>5 DEF VerifyBot, Undo, SignedIn
  <2>3. QED
    BY <1>1, <2>1, <2>2
<1>6. ASSUME NEW t \in Tasks, StartLogin(t) PROVE MemoryTyped'
  <2> DEFINE c == task[t].conn
  <2>1. c \in Conns
    BY <1>2, <1>6 DEF StartLogin, Slots
  <2>2. CASE /\ login' = [login EXCEPT ![task[t].front] = login[task[t].front] \cup {c}]
             /\ talk' = TalkAfterPhone(task[t].front, c) /\ UNCHANGED accepted
    <3> HIDE DEF c
    <3>1. login' \in [Fronts -> SUBSET Conns]
      BY <1>1, <2>1, <2>2
    <3>2. [step |-> "code", conn |-> c] \in [step : {"none", "code", "password"}, conn : Conns \cup {None}]
      BY <2>1
    <3>3. QED
      BY <1>1, <2>2, <3>1, <3>2 DEF TalkAfterPhone
  <2>3. QED
    BY <1>4, <1>6, <2>2 DEF StartLogin, Undo
<1>7. ASSUME NEW t \in Tasks, AskPassword(t) PROVE MemoryTyped'
  <2> DEFINE c == task[t].conn
  <2>1. c \in Conns
    BY <1>2, <1>7 DEF AskPassword, Slots
  <2>2. UNCHANGED <<accepted, login>> /\ (talk' = talk \/ talk' = TalkAfterCode(task[t].front, c))
    BY <1>7 DEF AskPassword
  <2> HIDE DEF c
  <2>3. [step |-> "password", conn |-> c] \in [step : {"none", "code", "password"}, conn : Conns \cup {None}]
    BY <2>1
  <2>4. QED
    BY <1>1, <2>2, <2>3 DEF TalkAfterCode
<1>8. ASSUME NEW t \in Tasks, SignIn(t) PROVE MemoryTyped'
  <2> DEFINE c == task[t].conn
  <2>1. c \in Conns
    BY <1>2, <1>8 DEF SignIn, Slots
  <2>2. /\ login' = [login EXCEPT ![task[t].front] = login[task[t].front] \ {c}]
        /\ accepted' \in {accepted, accepted \cup {c}}
        /\ talk' = talk \/ talk' = TalkAfterSignIn(task[t].front)
    BY <1>8 DEF SignIn, Finalize, SignedIn
  <2> HIDE DEF c
  <2>3. login' \in [Fronts -> SUBSET Conns]
    BY <1>1, <2>2
  <2>4. QED
    BY <1>1, <1>3, <2>1, <2>2, <2>3 DEF TalkAfterSignIn
<1>9. ASSUME NEW t \in Tasks, TaskStep(t) PROVE MemoryTyped'
  <2>1. CASE Insert(t)
    BY <1>4, <2>1 DEF Insert, Undo
  <2>2. CASE WrongEntry(t) \/ EndHealth(t) \/ PauseForSafety(t)
    BY <1>4, <2>2 DEF WrongEntry, KeepsRows, EndHealth, PauseForSafety
  <2>3. CASE EndDisconnect(t)
    BY <1>4, <2>3 DEF EndDisconnect, LoggedOut
  <2>4. QED
    BY <1>5, <1>6, <1>7, <1>8, <1>9, <2>1, <2>2, <2>3 DEF TaskStep
<1>10. ASSUME NEW t \in Tasks, Asks(t) PROVE MemoryTyped'
  <2>1. UNCHANGED <<accepted, login>> /\ (talk' = talk \/ talk' = Silent)
    BY <1>10 DEF Asks, BeginCreate, TalkAfterAdd, BeginEnter, BeginHealth, BeginDelivery,
                 BeginDisconnect, KeepsRows
  <2>2. QED
    BY <1>1, <1>3, <2>1
<1>11. CASE EndHealth(Loop)
  BY <1>4, <1>11 DEF EndHealth
<1>12. ASSUME NEW c \in Conns, LoopCheck(c) \/ AbandonAttempt(c) \/ Outside(c) PROVE MemoryTyped'
  <2>1. /\ talk' = talk /\ login' \in {login, [login EXCEPT !["bot"] = login["bot"] \ {c}]}
        /\ accepted' \in {accepted, accepted \ {c}, accepted \cup {c}}
    BY <1>12 DEF LoopCheck, AbandonAttempt, Outside, KeepsRows
  <2>2. QED
    BY <1>1, <2>1
<1>13. CASE CancelTalk
  BY <1>1, <1>3, <1>13 DEF CancelTalk, KeepsRows
<1>14. CASE \E f \in Fronts : Restart(f)
  BY <1>1, <1>14 DEF Restart
<1>15. CASE UNCHANGED connVars
  BY <1>4, <1>15 DEF connVars
<1>16. QED
  BY <1>9, <1>10, <1>11, <1>12, <1>13, <1>14, <1>15 DEF ConnNext

\* The inductive invariant holds of every behaviour of Connections.
THEOREM ConnHolds == ConnSpec => []ConnInv
<1>1. ConnInv /\ [ConnNext]_connVars => ConnInv'
  BY ConnCoreStep, MemoryKeeps DEF ConnInv
<1>2. QED
  BY <1>1, ConnInvInit, PTL DEF ConnSpec

LEMMA ConnInvTypes == ConnInv => ConnTypeOK
<1> SUFFICES ASSUME ConnInv PROVE ConnTypeOK
  OBVIOUS
<1>1. \A t \in DOMAIN task : (task[t].op = "free") <=> (task[t].conn = None)
  BY DEF ConnInv, ConnCore, TasksTyped, TaskRecords, TasksFit, TaskFits
<1>2. QED
  BY <1>1 DEF ConnInv, ConnCore, ConnRowsTyped, MemoryTyped, ConnTypeOK

\* The types of the rows, the work and the memory (db/models.py, adminbot/handlers.py,
\* services/connections.py): no work keeps a connection it has given up.
THEOREM ConnTyped == ConnSpec => []ConnTypeOK
<1>1. QED
  BY ConnInvTypes, ConnHolds, PTL

\* An active connection has the token or session it works with, whatever tasks and
\* handlers overlap, unless a task that had read another status wrote to its row
\* (services/connections.py run_health_check, disconnect).
THEOREM ActiveIsHeldOrTorn == ConnSpec => []ActiveHasCredentials
<1>1. ConnInv => ActiveHasCredentials
  BY DEF ConnInv, ConnCore, ConnRowsFit, RowFits, ActiveHasCredentials
<1>2. QED
  BY <1>1, ConnHolds, PTL

\* However creations, verifications and logins overlap, two active connections never
\* work with one account, but for a bot whose id nobody has learned
\* (verify_bot_connection, the unique constraint on telegram_account_id).
THEOREM OneConnectionPerAccount == ConnSpec => []OnePerAccount
<1>1. ConnInv => OnePerAccount
  <2> SUFFICES ASSUME ConnInv, NEW c \in Conns, NEW d \in Conns, c # d,
                      connStatus[c] = "active", connStatus[d] = "active", whose[c] = whose[d]
               PROVE  None \in {account[c], account[d]} /\ IsBot(c)
    BY DEF OnePerAccount
  <2>1. RowFits(c) /\ RowFits(d) /\ OneRowEach
    BY DEF ConnInv, ConnCore, ConnRowsFit
  <2>2. account[c] = None \/ account[d] = None
    BY <2>1 DEF RowFits, OneRowEach
  <2>3. QED
    BY <2>1, <2>2 DEF RowFits, IsBot
<1>2. QED
  BY <1>1, ConnHolds, PTL

\* The open connections stay within the cap, but for those whose creation overlapped
\* another and those a task reopened, for any number of creations at a time
\* (services/connections.py _enforce_connection_cap, which counts once).
THEOREM TheCapHolds == ConnSpec => []CapHolds
<1>1. ConnInv => CapHolds
  BY DEF ConnInv, ConnCore
<1>2. QED
  BY <1>1, ConnHolds, PTL

HIDE ConnectionsAssumption DEF ConnectionsAssumption

-----------------------------------------------------------------------------
(***************************************************************************)
(* Counting: finite sets of numbers, their unions and their order. The     *)
(* arguments by induction go over the least counterexample, as the         *)
(* induction theorems of the library take a predicate.                     *)
(***************************************************************************)

\* The least element of a set of natural numbers: induction without a predicate.
LEMMA LeastNat ==
  ASSUME NEW S \in SUBSET Nat, S # {}
  PROVE  \E n \in S : \A m \in S : n <= m
<1>1. PICK n \in S : \A m \in S : <<m, n>> \notin OpToRel(<, Nat)
  BY NatLessThanWellFounded, WFMin
<1>2. \A m \in S : ~(m < n)
  BY <1>1 DEF OpToRel
<1>3. QED
  BY <1>2

\* The numbers of two finite sets bound the number of their union.
LEMMA UnionOfTwo ==
  ASSUME NEW S, NEW T, IsFiniteSet(S), IsFiniteSet(T)
  PROVE  IsFiniteSet(S \cup T) /\ Cardinality(S \cup T) <= Cardinality(S) + Cardinality(T)
<1>1. Cardinality(S \cap T) \in Nat /\ Cardinality(S) \in Nat /\ Cardinality(T) \in Nat
  BY FS_Intersection, FS_CardinalityType
<1>2. /\ IsFiniteSet(S \cup T)
      /\ Cardinality(S \cup T) = Cardinality(S) + Cardinality(T) - Cardinality(S \cap T)
  BY FS_Union, Zenon
<1>3. QED
  BY <1>1, <1>2

\* Sets of at most m elements each have at most m times as many together.
LEMMA UnionBound ==
  ASSUME NEW W, IsFiniteSet(W), NEW R, NEW m \in Nat,
         \A w \in W : IsFiniteSet(R[w]) /\ Cardinality(R[w]) <= m
  PROVE  LET All == UNION {R[w] : w \in W}
         IN  IsFiniteSet(All) /\ Cardinality(All) <= m * Cardinality(W)
<1> DEFINE All(T) == UNION {R[w] : w \in T}
           Bound(T) == IsFiniteSet(All(T)) /\ Cardinality(All(T)) <= m * Cardinality(T)
           Bad == {n \in Nat : \E T \in SUBSET W : Cardinality(T) = n /\ ~Bound(T)}
<1> HIDE DEF Bound
<1>1. \A T \in SUBSET W : IsFiniteSet(T) /\ Cardinality(T) \in Nat
  BY FS_Subset, FS_CardinalityType
<1>2. Bad = {}
  <2> SUFFICES ASSUME Bad # {} PROVE FALSE
    OBVIOUS
  <2>1. PICK n \in Bad : \A k \in Bad : n <= k
    BY LeastNat
  <2>2. PICK T \in SUBSET W : Cardinality(T) = n /\ ~Bound(T)
    OBVIOUS
  <2>3. CASE T = {}
    <3>1. All(T) = {} /\ Cardinality(T) = 0
      BY <2>3, FS_EmptySet
    <3>2. IsFiniteSet(All(T)) /\ Cardinality(All(T)) = 0
      BY <3>1, FS_EmptySet
    <3>3. m * Cardinality(T) = 0
      BY <3>1
    <3>4. Bound(T)
      BY <3>2, <3>3 DEF Bound
    <3>5. QED
      BY <2>2, <3>4
  <2>4. CASE T # {}
    <3>1. PICK x : x \in T
      BY <2>4
    <3> DEFINE U == T \ {x}
    <3>2. U \in SUBSET W /\ Cardinality(U) = n - 1 /\ Cardinality(U) \in Nat
      BY <1>1, <2>2, <3>1, FS_RemoveElement
    <3>3. Bound(U)
      <4>1. n - 1 \notin Bad
        BY <2>1, <3>2
      <4>2. QED
        BY <3>2, <4>1
    <3>4. IsFiniteSet(All(U)) /\ Cardinality(All(U)) <= m * (n - 1)
      BY <3>2, <3>3 DEF Bound
    <3>5. All(T) = All(U) \cup R[x]
      BY <3>1
    <3>6. IsFiniteSet(R[x]) /\ Cardinality(R[x]) <= m /\ Cardinality(R[x]) \in Nat
      BY <2>2, <3>1, FS_CardinalityType
    <3>7. /\ IsFiniteSet(All(T))
          /\ Cardinality(All(T)) <= Cardinality(All(U)) + Cardinality(R[x])
      <4> DEFINE B == All(U)
                 X == R[x]
      <4>1. IsFiniteSet(B) /\ IsFiniteSet(X) /\ All(T) = B \cup X
        BY <3>4, <3>5, <3>6
      <4> HIDE DEF B, X
      <4>2. IsFiniteSet(B \cup X) /\ Cardinality(B \cup X) <= Cardinality(B) + Cardinality(X)
        BY <4>1, UnionOfTwo
      <4>3. IsFiniteSet(All(T)) /\ Cardinality(All(T)) <= Cardinality(B) + Cardinality(X)
        BY <4>1, <4>2, Zenon
      <4>4. QED
        BY <4>3 DEF B, X
    <3>8. m * (n - 1) + m = m * n
      OBVIOUS
    <3>9. Cardinality(All(U)) \in Nat /\ Cardinality(All(T)) \in Nat /\ n \in Nat
      BY <3>4, <3>7, FS_CardinalityType
    <3>10. Cardinality(All(T)) <= m * n
      <4> HIDE DEF All
      <4>1. m * (n - 1) \in Int /\ m * n \in Int
        BY <3>9
      <4>2. QED
        BY <3>4, <3>6, <3>7, <3>8, <3>9, <4>1
    <3>11. QED
      BY <2>2, <3>7, <3>10 DEF Bound
  <2>5. QED
    BY <2>3, <2>4
<1>3. Bound(W)
  BY <1>1, <1>2
<1>4. QED
  BY <1>3 DEF Bound

\* Of the rows of S, in their order, those that fit below a ceiling beside what is
\* there already are no more than the room below it.
LEMMA FittingBound ==
  ASSUME NEW S \in SUBSET Nat, IsFiniteSet(S), NEW there \in Nat, NEW ceiling \in Nat,
         NEW K, K = {i \in S : there + Cardinality({j \in S : j < i}) < ceiling}, K # {}
  PROVE  there + Cardinality(K) <= ceiling
<1> DEFINE Before == [i \in S |-> {j \in S : j < i}]
           Spare == [i \in S |-> ceiling - there - Cardinality(Before[i])]
<1>1. \A i \in S : /\ IsFiniteSet(Before[i]) /\ Cardinality(Before[i]) \in Nat
                   /\ i \notin Before[i]
                   /\ \A j \in S : j \in Before[i] <=> j < i
  <2> SUFFICES ASSUME NEW i \in S
               PROVE  IsFiniteSet(Before[i]) /\ Cardinality(Before[i]) \in Nat
    OBVIOUS
  <2>1. Before[i] \in SUBSET S
    OBVIOUS
  <2> HIDE DEF Before
  <2>2. QED
    BY <2>1, FS_Subset, FS_CardinalityType
<1>2. K = {i \in S : there + Cardinality(Before[i]) < ceiling}
  OBVIOUS
<1> HIDE DEF Before
<1>3. \A i \in K : Spare[i] \in Nat /\ i \in S
  BY <1>1, <1>2
<1>4. PICK i \in K : \A j \in K : Spare[i] <= Spare[j]
  <2> DEFINE Spares == {Spare[k] : k \in K}
  <2> HIDE DEF Spare
  <2>1. Spares \in SUBSET Nat /\ Spares # {}
    BY <1>3
  <2>2. PICK n \in Spares : \A k \in Spares : n <= k
    BY <2>1, LeastNat
  <2>3. QED
    BY <2>2
<1>5. \A j \in K : Cardinality(Before[j]) <= Cardinality(Before[i])
  BY <1>1, <1>3, <1>4
<1>6. /\ IsFiniteSet(Before[i] \cup {i})
      /\ Cardinality(Before[i] \cup {i}) = Cardinality(Before[i]) + 1
  BY <1>1, <1>3, FS_AddElement
<1>7. ASSUME NEW j \in K, i < j PROVE FALSE
  <2>1. Before[i] \subseteq Before[j]
    <3> SUFFICES ASSUME NEW k \in S, k < i PROVE k < j
      BY <1>1, <1>3 DEF Before
    <3>1. i \in Nat /\ j \in Nat /\ k \in Nat
      BY <1>3
    <3>2. QED
      BY <1>7, <3>1
  <2>2. Before[i] \cup {i} \in SUBSET Before[j]
    BY <1>1, <1>3, <1>7, <2>1
  <2>3. Cardinality(Before[i] \cup {i}) <= Cardinality(Before[j])
    BY <1>1, <1>3, <2>2, FS_Subset
  <2>4. QED
    BY <1>1, <1>3, <1>5, <1>6, <2>3
<1>8. K \in SUBSET (Before[i] \cup {i})
  <2> SUFFICES ASSUME NEW j \in K, j # i PROVE j \in Before[i]
    OBVIOUS
  <2>1. i \in Nat /\ j \in Nat /\ ~(i < j)
    BY <1>3, <1>7
  <2>2. j < i /\ j \in S /\ i \in S
    BY <1>3, <2>1
  <2>3. QED
    BY <1>1, <2>2
<1>9. Cardinality(K) <= Cardinality(Before[i]) + 1 /\ Cardinality(K) \in Nat
  <2>1. Cardinality(K) <= Cardinality(Before[i] \cup {i}) /\ IsFiniteSet(K)
    BY <1>6, <1>8, FS_Subset
  <2>2. QED
    BY <1>6, <2>1, FS_CardinalityType
<1>10. QED
  BY <1>1, <1>2, <1>3, <1>9

\* A finite set of natural numbers is bounded.
LEMMA NatSetBounded ==
  ASSUME NEW T \in SUBSET Nat, IsFiniteSet(T)
  PROVE  \E m \in Nat : \A y \in T : y <= m
<1> DEFINE Bounded(U) == \E m \in Nat : \A y \in U : y <= m
           Bad == {n \in Nat : \E U \in SUBSET T : Cardinality(U) = n /\ ~Bounded(U)}
<1> HIDE DEF Bounded
<1>1. \A U \in SUBSET T : IsFiniteSet(U) /\ Cardinality(U) \in Nat
  BY FS_Subset, FS_CardinalityType
<1>2. Bad = {}
  <2> SUFFICES ASSUME Bad # {} PROVE FALSE
    OBVIOUS
  <2>1. PICK n \in Bad : \A k \in Bad : n <= k
    BY LeastNat
  <2>2. PICK U \in SUBSET T : Cardinality(U) = n /\ ~Bounded(U)
    OBVIOUS
  <2>3. PICK x : x \in U
    <3>1. U # {}
      BY <2>2 DEF Bounded
    <3>2. QED
      BY <3>1
  <2> DEFINE V == U \ {x}
  <2>4. V \in SUBSET T /\ Cardinality(V) = n - 1 /\ Cardinality(V) \in Nat
    BY <1>1, <2>2, <2>3, FS_RemoveElement
  <2>5. Bounded(V)
    <3>1. n - 1 \notin Bad
      BY <2>1, <2>4
    <3>2. QED
      BY <2>4, <3>1
  <2>6. PICK m \in Nat : \A y \in V : y <= m
    BY <2>5 DEF Bounded
  <2>7. Bounded(U)
    <3>1. m + x \in Nat /\ \A y \in U : y <= m + x
      BY <2>3, <2>6
    <3>2. QED
      BY <3>1 DEF Bounded
  <2>8. QED
    BY <2>2, <2>7
<1>3. QED
  BY <1>1, <1>2 DEF Bounded

\* A finite set of numbers can be listed in increasing order.
LEMMA ListedInOrder ==
  ASSUME NEW S \in SUBSET Nat, IsFiniteSet(S)
  PROVE  \E s \in [1 .. Cardinality(S) -> S] : \A i, j \in DOMAIN s : i < j => s[i] < s[j]
<1> DEFINE Listed(T) == \E s \in [1 .. Cardinality(T) -> T] : \A i, j \in DOMAIN s : i < j => s[i] < s[j]
           Bad == {n \in Nat : \E T \in SUBSET S : Cardinality(T) = n /\ ~Listed(T)}
<1> HIDE DEF Listed
<1>1. \A T \in SUBSET S : IsFiniteSet(T) /\ Cardinality(T) \in Nat
  BY FS_Subset, FS_CardinalityType
<1>2. Bad = {}
  <2> SUFFICES ASSUME Bad # {} PROVE FALSE
    OBVIOUS
  <2>1. PICK n \in Bad : \A k \in Bad : n <= k
    BY LeastNat
  <2>2. PICK T \in SUBSET S : Cardinality(T) = n /\ ~Listed(T)
    OBVIOUS
  <2>3. CASE T = {}
    <3>1. Cardinality(T) = 0
      BY <2>3, FS_EmptySet
    <3>2. << >> \in [1 .. Cardinality(T) -> T] /\ DOMAIN << >> = {}
      BY <3>1
    <3>3. Listed(T)
      BY <3>2 DEF Listed
    <3>4. QED
      BY <2>2, <3>3
  <2>4. CASE T # {}
    <3>1. PICK x \in T : \A y \in T : y <= x
      <4> DEFINE Bounds == {m \in Nat : \A y \in T : y <= m}
      <4>1. PICK m \in Nat : \A y \in T : y <= m
        BY <1>1, <2>2, NatSetBounded
      <4>2. Bounds # {} /\ Bounds \in SUBSET Nat
        BY <4>1
      <4>3. PICK least \in Bounds : \A k \in Bounds : least <= k
        BY <4>2, LeastNat
      <4>4. CASE least \in T
        BY <4>3, <4>4
      <4>5. CASE least \notin T
        <5>1. PICK y : y \in T
          BY <2>4
        <5>2. least # 0 /\ least \in Nat
          BY <4>3, <4>5, <5>1
        <5>3. \A z \in T : z <= least - 1
          BY <4>3, <4>5, <5>2
        <5>4. least - 1 \in Bounds
          BY <5>2, <5>3
        <5>5. least <= least - 1
          BY <4>3, <5>4
        <5>6. QED
          BY <5>2, <5>5
      <4>6. QED
        BY <4>4, <4>5
    <3> DEFINE U == T \ {x}
    <3>2. U \in SUBSET S /\ Cardinality(U) = n - 1 /\ Cardinality(U) \in Nat
      BY <1>1, <2>2, FS_RemoveElement
    <3>3. Listed(U)
      <4>1. n - 1 \notin Bad
        BY <2>1, <3>2
      <4>2. QED
        BY <3>2, <4>1
    <3>4. PICK s \in [1 .. n - 1 -> U] : \A i, j \in DOMAIN s : i < j => s[i] < s[j]
      BY <3>2, <3>3 DEF Listed
    <3> DEFINE t == [i \in 1 .. n |-> IF i = n THEN x ELSE s[i]]
    <3>5. n \in Nat /\ \A i \in 1 .. n : i # n => i \in 1 .. n - 1
      OBVIOUS
    <3>6. t \in [1 .. n -> T]
      BY <3>4, <3>5
    <3>7. ASSUME NEW i \in 1 .. n, NEW j \in 1 .. n, i < j PROVE t[i] < t[j]
      <4>1. i \in 1 .. n - 1 /\ t[i] = s[i] /\ s[i] \in U
        BY <3>4, <3>5, <3>7
      <4>2. CASE j = n
        <5>1. t[j] = x /\ s[i] <= x /\ s[i] # x /\ s[i] \in Nat /\ x \in Nat
          BY <3>1, <4>1, <4>2
        <5>2. QED
          BY <4>1, <5>1
      <4>3. CASE j # n
        BY <3>4, <3>5, <3>7, <4>1, <4>3
      <4>4. QED
        BY <4>2, <4>3
    <3>8. Listed(T)
      <4> HIDE DEF t
      <4>1. DOMAIN t = 1 .. n
        BY <3>6
      <4>2. QED
        BY <2>2, <3>6, <3>7, <4>1 DEF Listed
    <3>9. QED
      BY <2>2, <3>8
  <2>5. QED
    BY <2>3, <2>4
<1>3. QED
  BY <1>1, <1>2 DEF Listed

-----------------------------------------------------------------------------
(***************************************************************************)
(* The ads composed for a connection: what old screens can do to them.     *)
(***************************************************************************)

USE ComposeAssumption DEF ComposeAssumption

\* The list of a picker is one of the groups.
LEMMA PostableListed == postable \subseteq Groups => PostableChats \in Seq(Groups)
<1> SUFFICES ASSUME postable \subseteq Groups PROVE PostableChats \in Seq(Groups)
  OBVIOUS
<1>1. postable \in SUBSET Nat /\ IsFiniteSet(postable) /\ Cardinality(postable) \in Nat
  BY FS_Subset, FS_CardinalityType
<1>2. PostableChats \in [1 .. Cardinality(postable) -> postable]
  BY <1>1, ListedInOrder DEF PostableChats
<1>3. PostableChats \in [1 .. Cardinality(postable) -> Groups]
  BY <1>2
<1>4. QED
  BY <1>1, <1>3

-----------------------------------------------------------------------------
(* The inductive invariant *)

\* The ads, and what was seen of them.
AdsTyped ==
    /\ ads \in [Ads -> AdType \cup {NoAd}]
    /\ been \in [Ads -> SUBSET AdStatus]
    /\ naming \in [NameHandlers -> [busy : BOOLEAN, drafts : SUBSET Ads]]
    /\ touched \subseteq Ads /\ returned \subseteq Ads /\ doubled \subseteq Ads
    /\ \A b \in AdRows : ads[b].status \in been[b]

\* The conversation and the pickers.
ScreensTyped ==
    /\ flow \in [step : Steps, ad : Ads \cup {NoAd}, listed : Seq(Groups), selected : SUBSET Groups]
    /\ picker \in [Pickers -> [ad : Ads \cup {NoAd}, listed : Seq(Groups),
                               ticked : SUBSET Groups, saves : BOOLEAN]]
    /\ \A p \in Pickers : picker[p].saves => picker[p].listed # <<>>
    /\ postable \subseteq Groups

\* Whatever its status, an ad that was not changed since is one that validate accepts.
UntouchedFit == \A b \in AdRows \ touched : Validate(ads[b])

\* The drafts that are not accounted for are one; and every handler of a name
\* under way has read it.
Unaccounted == Drafts \ (returned \cup doubled)
\* At most one draft is unaccounted for; a handler of a name that reads again finds it.
OneDraft ==
    /\ \A b, d \in Unaccounted : b = d
    /\ \A h \in NameHandlers : naming[h].busy => Unaccounted \subseteq naming[h].drafts

\* What holds of the ads, whatever the screens show.
AdsFit == AdsTyped /\ UntouchedFit /\ OneDraft
\* The inductive invariant.
ComposeInv == AdsFit /\ ScreensTyped

LEMMA ComposeInvInit == ComposeInit => ComposeInv
<1> SUFFICES ASSUME ComposeInit PROVE ComposeInv
  OBVIOUS
<1> USE DEF ComposeInit
<1>1. PICK first \in Ads, a \in Begun : ads = [b \in Ads |-> IF b = first THEN a ELSE NoAd]
  OBVIOUS
<1>2. a \in AdType /\ a.status \in AdStatus /\ AdRows \subseteq {first}
  BY <1>1 DEF AdRows, AdType
<1>3. AdsTyped
  <2>1. ads \in [Ads -> AdType \cup {NoAd}]
    BY <1>1, <1>2
  <2>2. \A b \in Ads : been[b] \in SUBSET AdStatus /\ (b \in AdRows => ads[b].status \in been[b])
    BY <1>1, <1>2 DEF AdRows
  <2>3. naming \in [NameHandlers -> [busy : BOOLEAN, drafts : SUBSET Ads]]
    BY DEF NotNaming
  <2>4. touched \subseteq Ads /\ AdRows \subseteq Ads
    BY DEF AdRows
  <2>5. QED
    BY <2>1, <2>2, <2>3, <2>4 DEF AdsTyped
<1>4. UntouchedFit
  BY DEF UntouchedFit
<1>5. OneDraft
  BY <1>2 DEF OneDraft, Unaccounted, Drafts, NotNaming
<1>6. ScreensTyped
  <2>1. << >> \in Seq(Groups) /\ "none" \in Steps
    BY DEF Steps
  <2>2. QED
    BY <2>1 DEF ScreensTyped, NoFlow, NoPicker
<1>7. QED
  BY <1>3, <1>4, <1>5, <1>6 DEF ComposeInv, AdsFit

-----------------------------------------------------------------------------
(* The ads *)

\* validate asks for nothing but the content, the pace and the groups.
LEMMA SameContent ==
  ASSUME NEW a, NEW x, x.body = a.body, x.media = a.media, x.delay = a.delay,
         x.repeat = a.repeat, x.groups = a.groups, Validate(a)
  PROVE  Validate(x)
  BY DEF Validate, FitsTelegram, Round

\* A status is no content.
LEMMA StatusWritten ==
  ASSUME NEW a \in AdType, NEW s \in AdStatus
  PROVE  /\ [a EXCEPT !.status = s] \in AdType
         /\ [a EXCEPT !.status = s].status = s
         /\ Validate(a) => Validate([a EXCEPT !.status = s])
<1>1. [a EXCEPT !.status = s] \in AdType /\ [a EXCEPT !.status = s].status = s
  BY DEF AdType
<1> DEFINE x == [a EXCEPT !.status = s]
<1>2. x.body = a.body /\ x.media = a.media /\ x.delay = a.delay /\ x.repeat = a.repeat
      /\ x.groups = a.groups
  BY DEF AdType
<1> HIDE DEF x
<1>3. Validate(a) => Validate(x)
  BY <1>2, SameContent
<1>4. QED
  BY <1>1, <1>3 DEF x

\* A step that writes no ad.
LEMMA AdsStand ==
  ASSUME AdsFit, KeepsAds, UNCHANGED naming
  PROVE  AdsFit'
  BY DEF AdsFit, KeepsAds, AdsTyped, AdRows, UntouchedFit, OneDraft, Unaccounted, Drafts

\* One ad is written: it is one that validate accepts, or counts as changed; and
\* it is no draft unless it was one or was given back.
LEMMA WriteKeeps ==
  ASSUME AdsFit, NEW b \in AdRows, NEW x \in AdType, WritesAd(b, x),
         touched' \in {touched, touched \cup {b}, touched \ {b}},
         b \in touched' \/ Validate(x),
         returned' \in {returned, returned \cup {b}}, UNCHANGED <<doubled, naming>>,
         x.status = "draft" => ads[b].status = "draft" \/ b \in returned'
  PROVE  AdsFit'
<1> USE DEF AdsFit
<1>1. b \in Ads /\ ads' = [ads EXCEPT ![b] = x] /\ been' = [been EXCEPT ![b] = been[b] \cup {x.status}]
  BY DEF AdRows, WritesAd
<1>2. ads'[b] = x /\ \A d \in Ads \ {b} : ads'[d] = ads[d] /\ been'[d] = been[d]
  BY <1>1 DEF AdsTyped
<1>3. AdRows' = AdRows
  BY <1>1, <1>2 DEF AdRows
<1>4. AdsTyped'
  <2>1. x.status \in AdStatus
    BY DEF AdType
  <2>2. been' \in [Ads -> SUBSET AdStatus] /\ x.status \in been'[b]
    BY <1>1, <2>1 DEF AdsTyped
  <2>3. ads' \in [Ads -> AdType \cup {NoAd}]
    BY <1>1 DEF AdsTyped
  <2>4. \A d \in AdRows' : ads'[d].status \in been'[d]
    BY <1>2, <1>3, <2>2 DEF AdsTyped, AdRows
  <2>5. QED
    BY <1>1, <2>2, <2>3, <2>4 DEF AdsTyped
<1>5. UntouchedFit'
  BY <1>1, <1>2, <1>3 DEF UntouchedFit, AdRows
<1>6. Unaccounted' \subseteq Unaccounted
  BY <1>1, <1>2, <1>3 DEF Unaccounted, Drafts, AdRows
<1>7. OneDraft'
  BY <1>6 DEF OneDraft
<1>8. QED
  BY <1>4, <1>5, <1>7

\* A write of a status.
LEMMA AdStatusKeeps ==
  ASSUME AdsFit, NEW b \in AdRows, NEW s \in AdStatus,
         WritesAd(b, [ads[b] EXCEPT !.status = s]),
         touched' \in {touched, touched \ {b}}, b \in touched' \/ b \notin touched \/ Validate(ads[b]),
         returned' \in {returned, returned \cup {b}}, UNCHANGED <<doubled, naming>>,
         s = "draft" => b \in returned'
  PROVE  AdsFit'
<1>1. ads[b] \in AdType
  BY DEF AdsFit, AdsTyped, AdRows
<1>2. Validate(ads[b]) \/ b \in touched'
  BY DEF AdsFit, UntouchedFit
<1>3. QED
  BY <1>1, <1>2, StatusWritten, WriteKeeps

\* Ads are deleted.
LEMMA DropKeeps ==
  ASSUME AdsFit, NEW S \in SUBSET Ads, ads' = [b \in Ads |-> IF b \in S THEN NoAd ELSE ads[b]],
         UNCHANGED <<been, touched, returned, doubled, naming>>
  PROVE  AdsFit'
<1> USE DEF AdsFit
<1>1. \A b \in AdRows' : b \in AdRows /\ ads'[b] = ads[b]
  BY DEF AdRows
<1>2. AdsTyped'
  BY <1>1 DEF AdsTyped
<1>3. UntouchedFit'
  BY <1>1 DEF UntouchedFit
<1>4. Unaccounted' \subseteq Unaccounted
  BY <1>1 DEF Unaccounted, Drafts
<1>5. OneDraft'
  BY <1>4 DEF OneDraft
<1>6. QED
  BY <1>2, <1>3, <1>5

\* A write that leaves every status as it is, to ads that count as changed or whose
\* content is the same.
LEMMA QuietWriteKeeps ==
  ASSUME AdsFit, ads' \in [Ads -> AdType \cup {NoAd}],
         \A b \in Ads : ads'[b] = NoAd <=> ads[b] = NoAd,
         \A b \in AdRows : ads'[b].status = ads[b].status,
         \A b \in AdRows : b \in touched' \/ (b \notin touched /\ Validate(ads'[b])),
         touched' \subseteq Ads, UNCHANGED <<been, returned, doubled, naming>>
  PROVE  AdsFit'
<1> USE DEF AdsFit
<1>1. AdRows' = AdRows /\ Drafts' = Drafts
  BY DEF AdRows, Drafts
<1>2. AdsTyped'
  BY <1>1 DEF AdsTyped
<1>3. UntouchedFit'
  BY <1>1 DEF UntouchedFit
<1>4. OneDraft'
  BY <1>1 DEF OneDraft, Unaccounted
<1>5. QED
  BY <1>2, <1>3, <1>4

-----------------------------------------------------------------------------
(* One lemma per kind of action *)

LEMMA BeginNameKeeps ==
  ASSUME AdsFit, NEW h \in NameHandlers, BeginName(h)
  PROVE  AdsFit'
<1> USE DEF AdsFit
<1>1. /\ naming' = [naming EXCEPT ![h] = [busy |-> TRUE, drafts |-> Drafts]]
      /\ UNCHANGED <<ads, been, touched, returned, doubled>>
  BY DEF BeginName, KeepsAds
<1>2. AdsTyped'
  BY <1>1 DEF AdsTyped, AdRows, Drafts
<1>3. UntouchedFit'
  BY <1>1 DEF UntouchedFit, AdRows
<1>4. Unaccounted' = Unaccounted /\ Unaccounted \subseteq Drafts
  BY <1>1 DEF Unaccounted, Drafts, AdRows
<1>5. /\ naming'[h].drafts = Drafts
      /\ \A g \in NameHandlers \ {h} : naming'[g] = naming[g]
  BY <1>1 DEF AdsTyped
<1>6. OneDraft'
  BY <1>4, <1>5 DEF OneDraft
<1>7. QED
  BY <1>2, <1>3, <1>6

\* The handler discards the drafts it has read; one that overlapped another's is
\* accounted for.
LEMMA EndNameKeeps ==
  ASSUME AdsFit, NEW h \in NameHandlers, EndName(h)
  PROVE  AdsFit'
<1> USE DEF AdsFit
<1>1. /\ naming[h].busy /\ naming' = [naming EXCEPT ![h] = NotNaming]
  BY DEF EndName
<1>2. /\ naming'[h].busy = FALSE /\ \A g \in NameHandlers \ {h} : naming'[g] = naming[g]
      /\ naming' \in [NameHandlers -> [busy : BOOLEAN, drafts : SUBSET Ads]]
  BY <1>1 DEF AdsTyped, NotNaming
<1>3. CASE KeepsAds
  <2>1. AdsTyped' /\ UntouchedFit'
    BY <1>2, <1>3 DEF KeepsAds, AdsTyped, UntouchedFit, AdRows
  <2>2. Unaccounted' = Unaccounted
    BY <1>3 DEF KeepsAds, Unaccounted, Drafts, AdRows
  <2>3. OneDraft'
    BY <1>2, <2>2 DEF OneDraft
  <2>4. QED
    BY <2>1, <2>3
<1>4. ASSUME NEW b \in Ads \ AdRows,
             ads' = [Discarded(naming[h].drafts \cap Drafts) EXCEPT ![b] = NewDraft],
             been' = [been EXCEPT ![b] = {"draft"}], touched' = touched \cup {b},
             doubled' = IF \E g \in NameHandlers \ {h} : naming[g].busy
                        THEN doubled \cup {b} ELSE doubled,
             UNCHANGED returned
      PROVE  AdsFit'
  <2> DEFINE S == naming[h].drafts \cap Drafts
  <2>1. NewDraft \in AdType /\ NewDraft.status = "draft"
    BY DEF NewDraft, AdType, AdStatus
  <2>2. /\ ads' = [d \in Ads |-> IF d = b THEN NewDraft ELSE IF d \in S THEN NoAd ELSE ads[d]]
    BY <1>4 DEF Discarded
  <2>3. \A d \in AdRows' : d = b \/ (d \in AdRows \ S /\ ads'[d] = ads[d])
    BY <2>2 DEF AdRows
  <2>4. ads' \in [Ads -> AdType \cup {NoAd}]
    BY <2>1, <2>2 DEF AdsTyped
  <2>5. been' \in [Ads -> SUBSET AdStatus] /\ been'[b] = {"draft"}
        /\ \A d \in Ads \ {b} : been'[d] = been[d]
    BY <1>4 DEF AdsTyped, AdStatus
  <2>6. ads'[b] = NewDraft /\ b \in Ads
    BY <2>2
  <2> HIDE DEF S
  <2>7. AdsTyped'
    <3>1. \A d \in AdRows' : ads'[d].status \in been'[d]
      BY <2>1, <2>3, <2>5, <2>6 DEF AdsTyped, AdRows
    <3>2. QED
      BY <1>2, <1>4, <2>4, <2>5, <3>1, ZenonT(40) DEF AdsTyped
  <2>8. UntouchedFit'
    BY <1>4, <2>3 DEF UntouchedFit
  <2>9. Unaccounted \subseteq naming[h].drafts /\ Unaccounted \subseteq Drafts
    BY <1>1 DEF OneDraft, Unaccounted
  <2>10. Unaccounted' \subseteq {b}
    <3> SUFFICES ASSUME NEW d \in Unaccounted', d # b PROVE FALSE
      OBVIOUS
    <3>1. d \in AdRows \ S /\ ads[d].status = "draft" /\ d \notin returned \cup doubled
      BY <1>4, <2>3 DEF Unaccounted, Drafts
    <3>2. d \in Unaccounted
      BY <3>1 DEF Unaccounted, Drafts
    <3>3. QED
      BY <2>9, <3>1, <3>2 DEF S
  <2>11. \A g \in NameHandlers \ {h} : naming[g].busy => Unaccounted' = {}
    BY <1>4, <2>10 DEF Unaccounted
  <2>12. OneDraft'
    BY <1>2, <2>10, <2>11 DEF OneDraft
  <2>13. QED
    BY <2>7, <2>8, <2>12
<1>5. QED
  BY <1>3, <1>4 DEF EndName

\* The prompts' answers, the speeds and the picker: the ad counts as changed.
LEMMA EditKeeps ==
  ASSUME AdsFit, NEW b \in AdRows, NEW x \in AdType, WritesAd(b, x), x.status = ads[b].status,
         touched' = touched \cup {b}, UNCHANGED <<returned, doubled, naming>>
  PROVE  AdsFit'
<1>1. b \in touched'
  OBVIOUS
<1>2. QED
  BY <1>1, WriteKeeps

LEMMA AnswerKeeps ==
  ASSUME AdsFit, NEW step, NEW new, Answer(step, new),
         flow.ad \in AdRows => new \in AdType /\ new.status = ads[flow.ad].status
  PROVE  AdsFit'
<1>1. UNCHANGED naming
  BY DEF Answer, KeepsScreens
<1>2. CASE flow.ad \in AdRows
  <2>1. PICK b \in AdRows : b = flow.ad
    BY <1>2
  <2>2. WritesAd(b, new) /\ touched' = touched \cup {b} /\ UNCHANGED <<returned, doubled>>
    BY <1>2, <2>1 DEF Answer
  <2>3. QED
    BY <1>1, <2>1, <2>2, EditKeeps
<1>3. CASE flow.ad \notin AdRows
  BY <1>1, <1>3, AdsStand DEF Answer
<1>4. QED
  BY <1>2, <1>3

LEMMA TypedKeeps ==
  ASSUME AdsFit, Typed
  PROVE  AdsFit'
<1>1. flow.ad \in AdRows => Current \in AdType /\ Current.status = ads[flow.ad].status
  BY DEF Current, AdsFit, AdsTyped, AdRows
<1>2. CASE AdText
  <2>1. PICK body \in {"short", "long"} : Answer("text", [Current EXCEPT !.body = body])
    BY <1>2 DEF AdText
  <2>2. flow.ad \in AdRows => /\ [Current EXCEPT !.body = body] \in AdType
                             /\ [Current EXCEPT !.body = body].status = Current.status
    BY <1>1 DEF AdType
  <2>3. QED
    BY <1>1, <2>1, <2>2, AnswerKeeps
<1>3. CASE AdMedia
  <2>1. PICK body \in {Current.body, "short"} :
           Answer("media", [Current EXCEPT !.media = TRUE, !.body = body])
    BY <1>3 DEF AdMedia
  <2>2. flow.ad \in AdRows => /\ [Current EXCEPT !.media = TRUE, !.body = body] \in AdType
                             /\ [Current EXCEPT !.media = TRUE, !.body = body].status = Current.status
    BY <1>1 DEF AdType
  <2>3. QED
    BY <1>1, <2>1, <2>2, AnswerKeeps
<1>4. CASE AdDelay
  <2>1. PICK d \in Delays : Answer("delay", [Current EXCEPT !.delay = d])
    BY <1>4 DEF AdDelay
  <2>2. flow.ad \in AdRows => /\ [Current EXCEPT !.delay = d] \in AdType
                             /\ [Current EXCEPT !.delay = d].status = Current.status
    BY <1>1 DEF AdType
  <2>3. QED
    BY <1>1, <2>1, <2>2, AnswerKeeps
<1>5. CASE AdSchedule
  <2>1. PICK s \in {"none", "later"} : Answer("schedule", [Current EXCEPT !.start = s])
    BY <1>5 DEF AdSchedule
  <2>2. flow.ad \in AdRows => /\ [Current EXCEPT !.start = s] \in AdType
                             /\ [Current EXCEPT !.start = s].status = Current.status
    BY <1>1 DEF AdType
  <2>3. QED
    BY <1>1, <2>1, <2>2, AnswerKeeps
<1>6. CASE AdRepeat
  <2>1. PICK r \in Intervals : Answer("repeat", [Current EXCEPT !.repeat = r])
    BY <1>6 DEF AdRepeat
  <2>2. flow.ad \in AdRows => /\ [Current EXCEPT !.repeat = r] \in AdType
                             /\ [Current EXCEPT !.repeat = r].status = Current.status
    BY <1>1 DEF AdType
  <2>3. QED
    BY <1>1, <2>1, <2>2, AnswerKeeps
<1>7. CASE CancelFlow
  BY <1>7, AdsStand DEF CancelFlow, KeepsScreens
<1>8. QED
  BY <1>2, <1>3, <1>4, <1>5, <1>6, <1>7 DEF Typed

LEMMA SavePickedKeeps ==
  ASSUME ComposeInv, NEW p \in Pickers, SavePicked(p)
  PROVE  AdsFit'
<1> USE DEF ComposeInv
<1>1. UNCHANGED naming
  BY DEF SavePicked
<1>2. CASE flow.ad \in AdRows
  <2>1. PICK b \in AdRows : b = flow.ad
    BY <1>2
  <2>2. /\ WritesAd(b, [ads[b] EXCEPT !.groups = flow.selected])
        /\ touched' = touched \cup {b} /\ UNCHANGED <<returned, doubled>>
    BY <1>2, <2>1 DEF SavePicked
  <2>3. ads[b] \in AdType /\ flow.selected \in SUBSET Groups
    BY DEF AdsFit, AdsTyped, AdRows, ScreensTyped
  <2>4. /\ [ads[b] EXCEPT !.groups = flow.selected] \in AdType
        /\ [ads[b] EXCEPT !.groups = flow.selected].status = ads[b].status
    BY <2>3 DEF AdType
  <2>5. QED
    BY <1>1, <2>2, <2>4, EditKeeps
<1>3. CASE flow.ad \notin AdRows
  BY <1>1, <1>3, AdsStand DEF SavePicked
<1>4. QED
  BY <1>2, <1>3

LEMMA DropDeadKeeps ==
  ASSUME AdsFit, NEW g \in Groups, NEW S \in SUBSET AdRows, DropDead(g, S)
  PROVE  AdsFit'
<1>1. /\ ads' = [b \in Ads |-> IF b \in S THEN [ads[b] EXCEPT !.groups = ads[b].groups \ {g}] ELSE ads[b]]
      /\ touched' = touched \cup S /\ UNCHANGED <<been, returned, doubled, naming>>
  BY DEF DropDead, KeepsScreens
<1>2. S \subseteq Ads /\ \A b \in AdRows : ads[b] \in AdType
  BY DEF AdsFit, AdsTyped, AdRows
<1>3. \A b \in S : /\ [ads[b] EXCEPT !.groups = ads[b].groups \ {g}] \in AdType
                   /\ [ads[b] EXCEPT !.groups = ads[b].groups \ {g}].status = ads[b].status
  BY <1>2 DEF AdType
<1>4. ads' \in [Ads -> AdType \cup {NoAd}]
  BY <1>1, <1>3 DEF AdsFit, AdsTyped
<1>5. \A b \in Ads : ads'[b] = NoAd <=> ads[b] = NoAd
  BY <1>1, <1>3 DEF AdRows
<1>6. \A b \in AdRows : ads'[b].status = ads[b].status
  BY <1>1, <1>3 DEF AdRows
<1>7. \A b \in AdRows : b \in touched' \/ (b \notin touched /\ Validate(ads'[b]))
  BY <1>1 DEF AdsFit, UntouchedFit, AdRows
<1>8. touched' \subseteq Ads
  BY <1>1, <1>2 DEF AdsFit, AdsTyped
<1>9. QED
  BY <1>1, <1>4, <1>5, <1>6, <1>7, <1>8, QuietWriteKeeps

LEMMA StartComesKeeps ==
  ASSUME AdsFit, NEW b \in Ads, StartComes(b)
  PROVE  AdsFit'
<1>1. /\ b \in AdRows /\ ads' = [ads EXCEPT ![b] = [ads[b] EXCEPT !.start = "due"]]
      /\ UNCHANGED <<been, touched, returned, doubled, naming>>
  BY DEF StartComes, TapsElsewhere
<1>2. ads[b] \in AdType /\ ads \in [Ads -> AdType \cup {NoAd}]
  BY <1>1 DEF AdsFit, AdsTyped, AdRows
<1> DEFINE x == [ads[b] EXCEPT !.start = "due"]
<1>3. /\ x \in AdType /\ x.status = ads[b].status /\ x.body = ads[b].body /\ x.media = ads[b].media
      /\ x.delay = ads[b].delay /\ x.repeat = ads[b].repeat /\ x.groups = ads[b].groups
  BY <1>2 DEF AdType
<1> HIDE DEF x
<1>4. ads' = [ads EXCEPT ![b] = x]
  BY <1>1 DEF x
<1>5. Validate(ads[b]) => Validate(x)
  BY <1>3, SameContent
<1>6. ads' \in [Ads -> AdType \cup {NoAd}] /\ ads'[b] = x /\ \A d \in Ads \ {b} : ads'[d] = ads[d]
  BY <1>2, <1>3, <1>4
<1>7. \A d \in Ads : ads'[d] = NoAd <=> ads[d] = NoAd
  BY <1>1, <1>3, <1>6 DEF AdRows
<1>8. \A d \in AdRows : ads'[d].status = ads[d].status
  BY <1>3, <1>6 DEF AdRows
<1>9. \A d \in AdRows : d \in touched' \/ (d \notin touched /\ Validate(ads'[d]))
  BY <1>1, <1>5, <1>6 DEF AdsFit, UntouchedFit, AdRows
<1>10. touched' \subseteq Ads
  BY <1>1 DEF AdsFit, AdsTyped
<1>11. QED
  BY <1>1, <1>6, <1>7, <1>8, <1>9, <1>10, QuietWriteKeeps

LEMMA ButtonKeeps ==
  ASSUME AdsFit, NEW b \in Ads, AdButton(b)
  PROVE  AdsFit'
<1>1. b \in AdRows => ads[b] \in AdType
  BY DEF AdsFit, AdsTyped, AdRows
<1> USE DEF Becomes, KeepsScreens, Shown
<1>2. CASE \E step \in Steps : Prompt(b, step)
  BY <1>2, AdsStand DEF Prompt
<1>3. CASE EditAd(b)
  <2>1. CASE ads[b].status = "sending"
    <3>1. "paused" \in AdStatus
      BY DEF AdStatus
    <3>2. /\ b \in AdRows /\ WritesAd(b, [ads[b] EXCEPT !.status = "paused"])
          /\ UNCHANGED <<naming, touched, returned, doubled>>
      BY <1>3, <2>1 DEF EditAd
    <3>3. QED
      BY <3>1, <3>2, AdStatusKeeps
  <2>2. CASE ads[b].status # "sending"
    <3>1. /\ b \in AdRows /\ WritesAd(b, ads[b])
          /\ UNCHANGED <<naming, touched, returned, doubled>>
      BY <1>3, <2>2 DEF EditAd
    <3>2. b \in touched' \/ Validate(ads[b])
      BY <3>1 DEF AdsFit, UntouchedFit
    <3>3. QED
      BY <1>1, <3>1, <3>2, WriteKeeps
  <2>3. QED
    BY <2>1, <2>2
<1>4. CASE SpeedPreset(b)
  <2>1. PICK d \in Delays : WritesAd(b, [ads[b] EXCEPT !.delay = d])
    BY <1>4 DEF SpeedPreset
  <2>2. b \in AdRows /\ touched' = touched \cup {b} /\ UNCHANGED <<returned, doubled, naming>>
    BY <1>4 DEF SpeedPreset
  <2>3. [ads[b] EXCEPT !.delay = d] \in AdType /\ [ads[b] EXCEPT !.delay = d].status = ads[b].status
    BY <1>1, <2>2 DEF AdType
  <2>4. QED
    BY <2>1, <2>2, <2>3, EditKeeps
<1>5. CASE DeleteAd(b)
  <2>1. ads' = [d \in Ads |-> IF d \in {b} THEN NoAd ELSE ads[d]]
        /\ UNCHANGED <<been, touched, returned, doubled, naming>>
    BY <1>5 DEF DeleteAd, AdsFit, AdsTyped
  <2>2. QED
    BY <2>1, DropKeeps
<1>6. CASE Discard(b)
  <2>1. Drafts \in SUBSET Ads
    BY DEF Drafts, AdRows
  <2>2. ads' = [d \in Ads |-> IF d \in Drafts THEN NoAd ELSE ads[d]]
        /\ UNCHANGED <<been, touched, returned, doubled, naming>>
    BY <1>6 DEF Discard, Discarded
  <2>3. QED
    BY <2>1, <2>2, DropKeeps
<1>7. CASE SendAd(b)
  <2> DEFINE s == IF ads[b].start = "later" THEN "scheduled" ELSE "sending"
  <2>1. s \in AdStatus /\ s # "draft"
    BY DEF AdStatus
  <2>2. /\ b \in AdRows /\ Validate(ads[b]) /\ touched' = touched \ {b}
        /\ WritesAd(b, [ads[b] EXCEPT !.status = s]) /\ UNCHANGED <<returned, doubled, naming>>
    BY <1>7 DEF SendAd, MayQueue
  <2> HIDE DEF s
  <2>3. QED
    BY <2>1, <2>2, AdStatusKeeps
<1>8. ASSUME NEW s \in {"paused", "sending", "cancelled"}, b \in AdRows,
             WritesAd(b, [ads[b] EXCEPT !.status = s]), UNCHANGED <<naming, touched, returned, doubled>>
      PROVE  AdsFit'
  <2>1. s \in AdStatus /\ s # "draft"
    BY DEF AdStatus
  <2>2. QED
    BY <1>8, <2>1, AdStatusKeeps
<1>9. CASE PauseAd(b) \/ ResumeAd(b) \/ CancelAd(b) \/ RetryAd(b)
  BY <1>8, <1>9 DEF PauseAd, ResumeAd, CancelAd, RetryAd
<1>10. QED
  BY <1>2, <1>3, <1>4, <1>5, <1>6, <1>7, <1>9 DEF AdButton

LEMMA RoundsKeep ==
  ASSUME AdsFit, NEW b \in Ads, RoundEnds(b) \/ StartScheduledAd(b)
  PROVE  AdsFit'
<1>1. "completed" \in AdStatus /\ "sending" \in AdStatus /\ "draft" \in AdStatus
  BY DEF AdStatus
<1>2. CASE RoundEnds(b)
  <2>1. /\ b \in AdRows /\ WritesAd(b, [ads[b] EXCEPT !.status = "completed"])
        /\ UNCHANGED <<naming, touched, returned, doubled>>
    BY <1>2 DEF RoundEnds, TapsElsewhere
  <2>2. QED
    BY <1>1, <2>1, AdStatusKeeps
<1>3. CASE StartScheduledAd(b) /\ MayQueue(ads[b])
  <2>1. /\ b \in AdRows /\ WritesAd(b, [ads[b] EXCEPT !.status = "sending"])
        /\ Validate(ads[b]) /\ touched' = touched \ {b} /\ UNCHANGED <<naming, returned, doubled>>
    BY <1>3 DEF StartScheduledAd, TapsElsewhere, MayQueue
  <2>2. QED
    BY <1>1, <2>1, AdStatusKeeps
<1>4. CASE StartScheduledAd(b) /\ ~MayQueue(ads[b])
  <2>1. /\ b \in AdRows /\ WritesAd(b, [ads[b] EXCEPT !.status = "draft"])
        /\ returned' = returned \cup {b} /\ UNCHANGED <<naming, touched, doubled>>
    BY <1>4 DEF StartScheduledAd, TapsElsewhere
  <2>2. b \in touched' \/ b \notin touched \/ Validate(ads[b])
    BY <2>1
  <2>3. QED
    BY <1>1, <2>1, <2>2, AdStatusKeeps
<1>5. QED
  BY <1>2, <1>3, <1>4

LEMMA AdsKeep == ComposeInv /\ [ComposeNext]_composeVars => AdsFit'
<1> SUFFICES ASSUME ComposeInv, [ComposeNext]_composeVars PROVE AdsFit'
  OBVIOUS
<1>1. AdsFit
  BY DEF ComposeInv
<1>2. CASE NewAd
  BY <1>1, <1>2, AdsStand DEF NewAd, KeepsScreens
<1>3. CASE Typed
  BY <1>1, <1>3, TypedKeeps
<1>4. CASE \E h \in NameHandlers : BeginName(h) \/ EndName(h)
  BY <1>1, <1>4, BeginNameKeeps, EndNameKeeps
<1>5. CASE \E b \in Ads : AdButton(b) \/ RoundEnds(b) \/ StartComes(b) \/ StartScheduledAd(b)
  BY <1>1, <1>5, ButtonKeeps, RoundsKeep, StartComesKeeps
<1>6. ASSUME NEW p \in Pickers,
             \/ \E b \in Ads : OpenPicker(p, b)
             \/ \E i \in 1 .. Cardinality(Groups) : PickOne(p, i)
             \/ PickAllOrNone(p)
      PROVE  AdsFit'
  BY <1>1, <1>6, AdsStand DEF OpenPicker, PickOne, PickAllOrNone
<1>7. CASE \E p \in Pickers : SavePicked(p)
  BY <1>7, SavePickedKeeps
<1>8. CASE \E g \in Groups : PostableChanges(g)
  BY <1>1, <1>8, AdsStand DEF PostableChanges, TapsElsewhere
<1>9. CASE \E g \in Groups, S \in SUBSET AdRows : DropDead(g, S)
  BY <1>1, <1>9, DropDeadKeeps
<1>10. CASE UNCHANGED composeVars
  BY <1>1, <1>10, AdsStand DEF composeVars, KeepsAds
<1>11. QED
  BY <1>2, <1>3, <1>4, <1>5, <1>6, <1>7, <1>8, <1>9, <1>10 DEF ComposeNext

-----------------------------------------------------------------------------
(* The conversation and the pickers *)

\* The conversations there may be.
Flows == [step : Steps, ad : Ads \cup {NoAd}, listed : Seq(Groups), selected : SUBSET Groups]
\* The messages with a picker there may be.
PickerScreens == [ad : Ads \cup {NoAd}, listed : Seq(Groups), ticked : SUBSET Groups, saves : BOOLEAN]

LEMMA NoFlowTyped == NoFlow \in Flows /\ NoPicker \in PickerScreens /\ NoPicker.saves = FALSE
<1>1. << >> \in Seq(Groups) /\ "none" \in Steps
  BY DEF Steps
<1>2. QED
  BY <1>1 DEF NoFlow, NoPicker, Flows, PickerScreens

LEMMA AsksForTyped ==
  ASSUME NEW step \in Steps, NEW b \in Ads \cup {NoAd}, AsksFor(step, b)
  PROVE  flow' \in Flows
  BY NoFlowTyped DEF AsksFor, Flows

\* The screens stay typed if the conversation does and no picker changes.
LEMMA FlowKeeps ==
  ASSUME ScreensTyped, flow' \in Flows, UNCHANGED <<picker, postable>>
  PROVE  ScreensTyped'
  BY DEF ScreensTyped, Flows

LEMMA PicksKeeps ==
  ASSUME ScreensTyped, NEW p \in Pickers, NEW selected \in SUBSET Groups, Picks(p, selected),
         flow.listed # <<>>, UNCHANGED postable
  PROVE  ScreensTyped'
<1> DEFINE x == [ad |-> flow.ad, listed |-> flow.listed, ticked |-> selected, saves |-> TRUE]
<1>1. flow' = [flow EXCEPT !.selected = selected] /\ picker' = [picker EXCEPT ![p] = x]
  BY DEF Picks
<1>2. flow' \in Flows
  BY <1>1 DEF ScreensTyped, Flows
<1>3. x \in PickerScreens /\ x.listed # <<>>
  BY DEF ScreensTyped, PickerScreens
<1> HIDE DEF x
<1>4. picker' \in [Pickers -> PickerScreens] /\ picker'[p] = x
      /\ \A q \in Pickers \ {p} : picker'[q] = picker[q]
  BY <1>1, <1>3 DEF ScreensTyped, PickerScreens
<1>5. QED
  BY <1>2, <1>3, <1>4 DEF ScreensTyped, Flows, PickerScreens

LEMMA ScreensKeep == ComposeInv /\ [ComposeNext]_composeVars => ScreensTyped'
<1> SUFFICES ASSUME ComposeInv, [ComposeNext]_composeVars PROVE ScreensTyped'
  OBVIOUS
<1>1. ScreensTyped /\ flow \in Flows
  BY DEF ComposeInv, ScreensTyped, Flows
<1>2. \A step \in {"none", "name", "text", "media", "delay", "schedule", "repeat"} : step \in Steps
  BY DEF Steps
<1>3. CASE UNCHANGED <<flow, picker, postable>>
  BY <1>1, <1>3, FlowKeeps
<1>4. CASE NewAd
  BY <1>1, <1>2, <1>4, AsksForTyped, FlowKeeps DEF NewAd, KeepsScreens, Tap
<1>5. CASE Typed
  <2>1. UNCHANGED <<picker, postable>>
    BY <1>5 DEF Typed, AdText, AdMedia, AdDelay, AdSchedule, AdRepeat, CancelFlow, Answer,
                KeepsScreens, Tap
  <2>2. flow' = NoFlow \/ flow' = [flow EXCEPT !.step = "none"]
    BY <1>5 DEF Typed, AdText, AdMedia, AdDelay, AdSchedule, AdRepeat, CancelFlow, Answer, Cleared
  <2>3. flow' \in Flows
    BY <1>1, <1>2, <2>2, NoFlowTyped DEF Flows
  <2>4. QED
    BY <1>1, <2>1, <2>3, FlowKeeps
<1>6. ASSUME NEW h \in NameHandlers, BeginName(h) \/ EndName(h) PROVE ScreensTyped'
  <2>1. UNCHANGED <<picker, postable>>
    BY <1>6 DEF BeginName, EndName, Tap
  <2>2. \/ flow' = flow \/ flow' = NoFlow
        \/ \E b \in Ads : flow' = [flow EXCEPT !.step = "text", !.ad = b]
    BY <1>6 DEF BeginName, EndName, Cleared
  <2>3. flow' \in Flows
    BY <1>1, <1>2, <2>2, NoFlowTyped DEF Flows
  <2>4. QED
    BY <1>1, <2>1, <2>3, FlowKeeps
<1>7. ASSUME NEW b \in Ads, AdButton(b) PROVE ScreensTyped'
  <2>1. UNCHANGED <<picker, postable>>
    BY <1>7 DEF AdButton, Prompt, EditAd, SpeedPreset, DeleteAd, Discard, SendAd, PauseAd, ResumeAd,
                CancelAd, RetryAd, Becomes, KeepsScreens, Tap
  <2>2. flow' = flow \/ flow' = NoFlow \/ \E step \in Steps : AsksFor(step, b)
    BY <1>2, <1>7 DEF AdButton, Prompt, EditAd, SpeedPreset, DeleteAd, Discard, SendAd, PauseAd,
                ResumeAd, CancelAd, RetryAd, Cleared
  <2>3. QED
    BY <1>1, <2>1, <2>2, NoFlowTyped, AsksForTyped, FlowKeeps
<1>8. ASSUME NEW b \in Ads, RoundEnds(b) \/ StartComes(b) \/ StartScheduledAd(b) PROVE ScreensTyped'
  BY <1>3, <1>8 DEF RoundEnds, StartComes, StartScheduledAd, TapsElsewhere
<1>9. ASSUME NEW p \in Pickers, NEW b \in Ads, OpenPicker(p, b) PROVE ScreensTyped'
  <2> DEFINE selected == IF b \in AdRows THEN ads[b].groups ELSE {}
             x == [ad |-> b, listed |-> PostableChats, ticked |-> selected, saves |-> FALSE]
  <2>1. selected \in SUBSET Groups
    BY DEF ComposeInv, AdsFit, AdsTyped, AdRows, AdType
  <2>2. PostableChats \in Seq(Groups)
    BY <1>1, PostableListed DEF ScreensTyped
  <2>3. /\ flow' = [step |-> "picking", ad |-> b, listed |-> PostableChats, selected |-> selected]
        /\ picker' = [picker EXCEPT ![p] = x] /\ postable' = postable
    BY <1>9 DEF OpenPicker, Tap
  <2> HIDE DEF selected
  <2>4. flow' \in Flows /\ x \in PickerScreens /\ x.saves = FALSE
    BY <2>1, <2>2, <2>3 DEF Flows, PickerScreens, Steps
  <2> HIDE DEF x
  <2>5. picker' \in [Pickers -> PickerScreens] /\ picker'[p] = x
        /\ \A q \in Pickers \ {p} : picker'[q] = picker[q]
    BY <1>1, <2>3, <2>4 DEF ScreensTyped, PickerScreens
  <2>6. QED
    BY <1>1, <2>3, <2>4, <2>5 DEF ScreensTyped, Flows, PickerScreens
<1>10. ASSUME NEW p \in Pickers, NEW i \in 1 .. Cardinality(Groups), PickOne(p, i) PROVE ScreensTyped'
  <2>1. flow.listed # <<>> /\ postable' = postable
    BY <1>10 DEF PickOne, Tap
  <2>2. CASE i \in DOMAIN flow.listed /\ Picks(p, Toggled(flow.selected, flow.listed[i]))
    <3>1. Toggled(flow.selected, flow.listed[i]) \in SUBSET Groups
      BY <1>1, <2>2 DEF Toggled, Flows
    <3>2. QED
      BY <1>1, <2>1, <2>2, <3>1, PicksKeeps
  <2>3. CASE Picks(p, flow.selected)
    BY <1>1, <2>1, <2>3, PicksKeeps DEF Flows
  <2>4. QED
    BY <1>10, <2>2, <2>3 DEF PickOne
<1>11. ASSUME NEW p \in Pickers, PickAllOrNone(p) PROVE ScreensTyped'
  <2>1. PICK selected \in {{}, flow.selected \cup ToSet(flow.listed)} : Picks(p, selected)
    BY <1>11 DEF PickAllOrNone
  <2>2. selected \in SUBSET Groups
    BY <1>1 DEF Flows, ToSet
  <2>3. QED
    BY <1>1, <1>11, <2>1, <2>2, PicksKeeps DEF PickAllOrNone, Tap
<1>12. ASSUME NEW p \in Pickers, SavePicked(p) PROVE ScreensTyped'
  <2>1. flow' = NoFlow /\ postable' = postable /\ picker' \in {picker, [picker EXCEPT ![p] = NoPicker]}
    BY <1>1, <1>12 DEF SavePicked, Cleared, Tap, ScreensTyped
  <2>2. picker' \in [Pickers -> PickerScreens]
        /\ \A q \in Pickers : picker'[q] = picker[q] \/ picker'[q].saves = FALSE
    BY <1>1, <2>1, NoFlowTyped DEF ScreensTyped, PickerScreens
  <2>3. QED
    BY <1>1, <2>1, <2>2, NoFlowTyped DEF ScreensTyped, Flows, PickerScreens
<1>13. ASSUME NEW g \in Groups, PostableChanges(g) PROVE ScreensTyped'
  <2>1. UNCHANGED <<flow, picker>> /\ postable' \subseteq Groups
    BY <1>1, <1>13 DEF PostableChanges, TapsElsewhere, Toggled, ScreensTyped
  <2>2. QED
    BY <1>1, <2>1 DEF ScreensTyped
<1>14. ASSUME NEW g \in Groups, NEW S \in SUBSET AdRows, DropDead(g, S) PROVE ScreensTyped'
  BY <1>3, <1>14 DEF DropDead, KeepsScreens, Tap
<1>15. CASE UNCHANGED composeVars
  BY <1>3, <1>15 DEF composeVars
<1>16. QED
  BY <1>4, <1>5, <1>6, <1>7, <1>8, <1>9, <1>10, <1>11, <1>12, <1>13, <1>14, <1>15 DEF ComposeNext

\* The inductive invariant holds of every behaviour of Compose.
THEOREM ComposeHolds == ComposeSpec => []ComposeInv
<1>1. ComposeInv /\ [ComposeNext]_composeVars => ComposeInv'
  BY AdsKeep, ScreensKeep DEF ComposeInv
<1>2. QED
  BY <1>1, ComposeInvInit, PTL DEF ComposeSpec

LEMMA ComposeInvTypes == ComposeInv => ComposeTypeOK
<1> SUFFICES ASSUME ComposeInv PROVE ComposeTypeOK
  OBVIOUS
<1>1. Cardinality(Unaccounted) <= 1
  <2>1. CASE Unaccounted = {}
    <3>1. Cardinality(Unaccounted) = 0
      BY <2>1, FS_EmptySet, Zenon
    <3>2. QED
      BY <3>1
  <2>2. CASE Unaccounted # {}
    <3>1. PICK b : Unaccounted = {b}
      BY <2>2 DEF ComposeInv, AdsFit, OneDraft
    <3>2. Cardinality(Unaccounted) = 1
      BY <3>1, FS_Singleton, Zenon
    <3>3. QED
      BY <3>2
  <2>3. QED
    BY <2>1, <2>2
<1>2. QED
  BY <1>1 DEF ComposeInv, AdsFit, AdsTyped, ScreensTyped, Unaccounted, ComposeTypeOK

\* The types of ads, conversation and screens; and, however names are typed and ads
\* are returned, one draft is left that nobody overlapped (adminbot/handlers.py ad_name).
THEOREM ComposeTyped == ComposeSpec => []ComposeTypeOK
<1>1. QED
  BY ComposeInvTypes, ComposeHolds, PTL

\* Whatever old screens are tapped in whatever order, an ad that is scheduled or sent
\* and was not changed since is one that validate accepts (services/broadcast.py).
THEOREM RunningAdsAreFit == ComposeSpec => []RunningAdsFit
<1>1. ComposeInv => RunningAdsFit
  BY DEF ComposeInv, AdsFit, UntouchedFit, RunningAdsFit
<1>2. QED
  BY <1>1, ComposeHolds, PTL

HIDE ComposeAssumption DEF ComposeAssumption

-----------------------------------------------------------------------------
(***************************************************************************)
(* The work a connection has in flight: workers that lease, weigh and      *)
(* admit at the same time.                                                 *)
(***************************************************************************)

USE AdmissionAssumption DEF AdmissionAssumption

-----------------------------------------------------------------------------
(* Admission: the inductive invariant *)

\* The rows of a kind and a connection that a worker works on or is about to.
Held(w, kind, c) == {i \in (running[w] \cup batch[w].keeps) \cap kind : ConnectionOf(i) = c}

\* The batches of the workers.
BatchesTyped ==
    batch \in [WorkerProcesses -> [at : {"none", "leased", "weighed"},
                                   rows : SUBSET WorkRows, keeps : SUBSET WorkRows]]

\* What a worker keeps is of its batch, which is of one kind, and whose rows are due
\* until the worker commits.
BatchesFit ==
    \A w \in WorkerProcesses :
        /\ batch[w].keeps \subseteq batch[w].rows
        /\ batch[w].at = "none" => batch[w].rows = {}
        /\ batch[w].at = "leased" => batch[w].keeps = {}
        /\ batch[w].rows \subseteq JobRows \/ batch[w].rows \subseteq TargetRows
        /\ \A i \in batch[w].rows : workRow[i] = "pending"

\* No two workers have a row in their batches, or work on one.
Apart ==
    \A w, v \in WorkerProcesses :
        w # v => batch[w].rows \cap batch[v].rows = {} /\ running[w] \cap running[v] = {}

\* What one worker holds of a kind and a connection, what it is about to admit
\* included, stays within the ceiling: a worker sees its own rows when it weighs.
BelowCeiling ==
    \A w \in WorkerProcesses, c \in WorkConnections :
       /\ Cardinality(Held(w, JobRows, c)) <= JobCeiling
       /\ Cardinality(Held(w, TargetRows, c)) <= TargetCeiling

\* The inductive invariant.
AdmissionInv == AdmissionTypeOK /\ BatchesTyped /\ BatchesFit /\ Apart /\ BelowCeiling

LEMMA AdmissionInvInit == AdmissionInit => AdmissionInv
<1> SUFFICES ASSUME AdmissionInit PROVE AdmissionInv
  OBVIOUS
<1> USE DEF AdmissionInit, NoBatch
<1>1. AdmissionTypeOK
  BY DEF AdmissionTypeOK
<1>2. BatchesTyped /\ BatchesFit /\ Apart
  BY DEF BatchesTyped, BatchesFit, Apart
<1>3. BelowCeiling
  <2>1. ASSUME NEW w \in WorkerProcesses, NEW c \in WorkConnections, NEW kind
        PROVE  Held(w, kind, c) = {}
    BY DEF Held
  <2>2. Cardinality({}) = 0
    BY FS_EmptySet
  <2>3. \A w \in WorkerProcesses, c \in WorkConnections :
            Cardinality(Held(w, JobRows, c)) = 0 /\ Cardinality(Held(w, TargetRows, c)) = 0
    BY <2>1, <2>2, Zenon
  <2>4. QED
    BY <2>3 DEF BelowCeiling
<1>4. QED
  BY <1>1, <1>2, <1>3 DEF AdmissionInv

\* Only what a worker keeps of its batch adds to what it holds.
LEMMA HeldStands ==
  ASSUME BelowCeiling, BatchesTyped, AdmissionTypeOK,
         NEW w \in WorkerProcesses,
         (running[w] \cup batch[w].keeps)' \subseteq running[w] \cup batch[w].keeps,
         NEW c \in WorkConnections
  PROVE  /\ Cardinality(Held(w, JobRows, c)') <= JobCeiling
         /\ Cardinality(Held(w, TargetRows, c)') <= TargetCeiling
<1>1. ASSUME NEW kind \in {JobRows, TargetRows}
      PROVE  /\ Cardinality(Held(w, kind, c)') <= Cardinality(Held(w, kind, c))
             /\ Cardinality(Held(w, kind, c)') \in Nat /\ Cardinality(Held(w, kind, c)) \in Nat
  <2>1. Held(w, kind, c)' \in SUBSET Held(w, kind, c) /\ Held(w, kind, c) \in SUBSET kind
    BY DEF Held
  <2>2. IsFiniteSet(kind)
    BY <1>1
  <2>3. QED
    BY <2>1, <2>2, FS_Subset, FS_CardinalityType
<1>2. QED
  BY <1>1 DEF BelowCeiling

LEMMA BecomesDueKeeps ==
  ASSUME AdmissionInv, NEW i \in WorkRows, BecomesDue(i)
  PROVE  AdmissionInv'
<1> USE DEF AdmissionInv, BecomesDue
<1>1. AdmissionTypeOK' /\ BatchesTyped' /\ Apart'
  BY DEF AdmissionTypeOK, BatchesTyped, Apart
<1>2. BatchesFit'
  BY DEF BatchesFit, BatchesTyped, AdmissionTypeOK
<1>3. BelowCeiling'
  BY DEF BelowCeiling, Held
<1>4. QED
  BY <1>1, <1>2, <1>3

LEMMA LeaseKeeps ==
  ASSUME AdmissionInv, NEW w \in WorkerProcesses, NEW kind \in {JobRows, TargetRows}, Lease(w, kind)
  PROVE  AdmissionInv'
<1> USE DEF AdmissionInv
<1>1. PICK S \in SUBSET Free(kind) :
          batch' = [batch EXCEPT ![w] = [at |-> "leased", rows |-> S, keeps |-> {}]]
  BY DEF Lease
<1>2. batch[w] = NoBatch /\ UNCHANGED <<workRow, running>>
  BY DEF Lease
<1>3. S \subseteq kind /\ kind \subseteq WorkRows
      /\ \A i \in S : workRow[i] = "pending" /\ \A v \in WorkerProcesses : i \notin batch[v].rows
  BY DEF Free, WorkRows
<1>4. AdmissionTypeOK' /\ BatchesTyped'
  BY <1>1, <1>2, <1>3 DEF AdmissionTypeOK, BatchesTyped
<1>5. BatchesFit'
  BY <1>1, <1>2, <1>3 DEF BatchesFit, BatchesTyped
<1>6. Apart'
  BY <1>1, <1>2, <1>3 DEF Apart, BatchesTyped
<1>7. BelowCeiling'
  BY <1>1, <1>2, HeldStands DEF BelowCeiling, BatchesTyped, NoBatch
<1>8. QED
  BY <1>4, <1>5, <1>6, <1>7

\* The rows a worker keeps of its batch fit beside all that is leased.
LEMMA KeptFit ==
  ASSUME AdmissionInv, NEW w \in WorkerProcesses, Weigh(w), NEW c \in WorkConnections,
         NEW kind, NEW ceiling \in Nat,
         \/ kind = JobRows /\ ceiling = JobCeiling
         \/ kind = TargetRows /\ ceiling = TargetCeiling
  PROVE  Cardinality(Held(w, kind, c)') <= ceiling
<1> DEFINE S == {i \in batch[w].rows : ConnectionOf(i) = c}
           there == IF kind = JobRows THEN InFlight(c, JobRows) ELSE InFlight(c, WorkRows)
           K == {i \in S : there + Cardinality({j \in S : j < i}) < ceiling}
           Mine == {i \in running[w] \cap kind : ConnectionOf(i) = c}
           All == {i \in (IF kind = JobRows THEN JobRows ELSE WorkRows) :
                      workRow[i] = "leased" /\ ConnectionOf(i) = c}
           New == {i \in batch'[w].keeps \cap kind : ConnectionOf(i) = c}
<1> USE DEF AdmissionInv
<1>1. JobRows \cap TargetRows = {} /\ JobRows \subseteq WorkRows /\ TargetRows \subseteq WorkRows
      /\ WorkRows \subseteq Nat
  BY DEF WorkRows
<1>2. IsFiniteSet(WorkRows)
  BY FS_Union DEF WorkRows
<1>3. there = Cardinality(All) /\ IsFiniteSet(All) /\ there \in Nat
  <2>1. there = Cardinality(All)
    BY DEF InFlight
  <2>2. All \in SUBSET WorkRows
    BY <1>1
  <2> HIDE DEF All, there
  <2>3. QED
    BY <2>1, <2>2, <1>2, FS_Subset, FS_CardinalityType
<1>4. Mine \in SUBSET All
  BY <1>1 DEF AdmissionTypeOK
<1>5. IsFiniteSet(Mine) /\ Cardinality(Mine) \in Nat /\ Cardinality(Mine) <= there
  <2> HIDE DEF Mine, All, there
  <2>1. QED
    BY <1>3, <1>4, FS_Subset, FS_CardinalityType
<1>6. S \in SUBSET Nat /\ IsFiniteSet(S)
  <2>1. S \in SUBSET WorkRows
    BY DEF BatchesTyped
  <2> HIDE DEF S
  <2>2. QED
    BY <1>1, <1>2, <2>1, FS_Subset
<1>7. batch'[w].keeps = {i \in batch[w].rows : Within(w, i)} /\ running' = running
  BY DEF Weigh, BatchesTyped
<1>8. New \in SUBSET K
  <2> SUFFICES ASSUME NEW i \in batch[w].rows, i \in kind, ConnectionOf(i) = c, Within(w, i)
               PROVE  there + Cardinality({j \in S : j < i}) < ceiling
    BY <1>7
  <2>1. Ahead(w, i) = Cardinality({j \in S : j < i})
    <3>1. {j \in batch[w].rows : j < i /\ ConnectionOf(j) = ConnectionOf(i)} = {j \in S : j < i}
      OBVIOUS
    <3>2. QED
      BY <3>1 DEF Ahead
  <2>2. QED
    BY <1>1, <2>1 DEF Within
<1>9. Held(w, kind, c)' = Mine \cup New
  BY <1>7 DEF Held
<1>10. CASE New = {}
  <2>1. batch[w].keeps = {} /\ Held(w, kind, c)' = Held(w, kind, c)
    <3>1. batch[w].keeps = {}
      BY DEF Weigh, BatchesFit
    <3>2. QED
      BY <1>9, <1>10, <3>1 DEF Held
  <2>2. QED
    BY <2>1 DEF BelowCeiling
<1>11. CASE New # {}
  <2>1. K # {} /\ K \in SUBSET S /\ K = {i \in S : there + Cardinality({j \in S : j < i}) < ceiling}
    BY <1>8, <1>11
  <2> HIDE DEF S, there, Mine, New
  <2>2. there + Cardinality(K) <= ceiling
    BY <1>3, <1>6, <2>1, FittingBound
  <2> HIDE DEF K
  <2>3. IsFiniteSet(K) /\ Cardinality(K) \in Nat
    BY <1>6, <2>1, FS_Subset, FS_CardinalityType
  <2>4. IsFiniteSet(New) /\ Cardinality(New) \in Nat /\ Cardinality(New) <= Cardinality(K)
    BY <1>8, <2>3, FS_Subset, FS_CardinalityType
  <2>5. IsFiniteSet(Mine \cup New) /\ Cardinality(Mine \cup New) <= Cardinality(Mine) + Cardinality(New)
    BY <1>5, <2>4, UnionOfTwo
  <2>6. Cardinality(Mine \cup New) \in Nat
    BY <2>5, FS_CardinalityType
  <2>7. Cardinality(Mine \cup New) <= ceiling
    BY <1>3, <1>5, <2>2, <2>3, <2>4, <2>5, <2>6
  <2>8. QED
    BY <1>9, <2>7
<1>12. QED
  BY <1>10, <1>11

LEMMA WeighKeeps ==
  ASSUME AdmissionInv, NEW w \in WorkerProcesses, Weigh(w)
  PROVE  AdmissionInv'
<1> USE DEF AdmissionInv
<1>1. /\ batch' = [batch EXCEPT ![w].at = "weighed",
                                ![w].keeps = {i \in batch[w].rows : Within(w, i)}]
      /\ UNCHANGED <<workRow, running>> /\ batch[w].at = "leased"
  BY DEF Weigh
<1>2. AdmissionTypeOK' /\ BatchesTyped'
  <2>1. AdmissionTypeOK'
    BY <1>1 DEF AdmissionTypeOK
  <2>2. BatchesTyped'
    BY <1>1, ZenonT(60) DEF BatchesTyped
  <2>3. QED
    BY <2>1, <2>2
<1>3. \A v \in WorkerProcesses : /\ batch'[v].rows = batch[v].rows
                                 /\ v # w => batch'[v] = batch[v]
  BY <1>1 DEF BatchesTyped
<1>4. batch'[w].at = "weighed" /\ batch'[w].keeps \subseteq batch[w].rows
  BY <1>1 DEF BatchesTyped
<1>5. BatchesFit'
  BY <1>1, <1>3, <1>4, ZenonT(60) DEF BatchesFit
<1>6. Apart'
  BY <1>1, <1>3 DEF Apart
<1>7. BelowCeiling'
  <2> SUFFICES ASSUME NEW v \in WorkerProcesses, NEW c \in WorkConnections
               PROVE  /\ Cardinality(Held(v, JobRows, c)') <= JobCeiling
                      /\ Cardinality(Held(v, TargetRows, c)') <= TargetCeiling
    BY DEF BelowCeiling
  <2>1. CASE v = w
    BY <2>1, KeptFit
  <2>2. CASE v # w
    BY <1>1, <1>3, <2>2, HeldStands
  <2>3. QED
    BY <2>1, <2>2
<1>8. QED
  BY <1>2, <1>5, <1>6, <1>7

LEMMA AdmitKeeps ==
  ASSUME AdmissionInv, NEW w \in WorkerProcesses, Admit(w)
  PROVE  AdmissionInv'
<1> USE DEF AdmissionInv
<1>1. /\ workRow' = [i \in WorkRows |-> IF i \in batch[w].keeps THEN "leased" ELSE workRow[i]]
      /\ running' = [running EXCEPT ![w] = running[w] \cup batch[w].keeps]
      /\ batch' = [batch EXCEPT ![w] = NoBatch]
  BY DEF Admit
<1>2. BatchesTyped'
  BY <1>1 DEF BatchesTyped, NoBatch
<1>3. /\ running'[w] = running[w] \cup batch[w].keeps
      /\ \A v \in WorkerProcesses \ {w} : running'[v] = running[v]
      /\ batch[w].keeps \subseteq WorkRows /\ batch[w].keeps \subseteq batch[w].rows
      /\ batch'[w] = NoBatch
      /\ \A v \in WorkerProcesses \ {w} : batch'[v] = batch[v]
  BY <1>1 DEF BatchesTyped, BatchesFit, AdmissionTypeOK
<1>4. AdmissionTypeOK'
  <2>1. /\ workRow' \in [WorkRows -> {"absent", "pending", "leased", "done"}]
        /\ running' \in [WorkerProcesses -> SUBSET WorkRows]
    BY <1>1, <1>3 DEF AdmissionTypeOK
  <2>2. \A i \in WorkRows : workRow'[i] = "leased" <=> i \in batch[w].keeps \/ workRow[i] = "leased"
    BY <1>1
  <2>3. \A i \in WorkRows : (\E v \in WorkerProcesses : i \in running'[v])
           <=> i \in batch[w].keeps \/ \E v \in WorkerProcesses : i \in running[v]
    BY <1>3
  <2>4. QED
    BY <2>1, <2>2, <2>3 DEF AdmissionTypeOK
<1>5. \A v \in WorkerProcesses : v # w =>
         /\ batch[v].rows \cap batch[w].rows = {}
         /\ batch[v].rows \subseteq WorkRows
  BY DEF Apart, BatchesTyped
<1>6. BatchesFit'
  <2> SUFFICES ASSUME NEW v \in WorkerProcesses
               PROVE  /\ batch'[v].keeps \subseteq batch'[v].rows
                      /\ batch'[v].at = "none" => batch'[v].rows = {}
                      /\ batch'[v].at = "leased" => batch'[v].keeps = {}
                      /\ batch'[v].rows \subseteq JobRows \/ batch'[v].rows \subseteq TargetRows
                      /\ \A i \in batch'[v].rows : workRow'[i] = "pending"
    BY DEF BatchesFit
  <2>1. CASE v = w
    BY <1>3, <2>1 DEF NoBatch
  <2>2. CASE v # w
    BY <1>1, <1>3, <1>5, <2>2 DEF BatchesFit
  <2>3. QED
    BY <2>1, <2>2
<1>7. Apart'
  <2>1. ASSUME NEW v \in WorkerProcesses, NEW i \in batch[w].keeps PROVE i \notin running[v]
    <3>1. workRow[i] = "pending" /\ i \in WorkRows
      BY <1>3, <2>1 DEF BatchesFit
    <3>2. QED
      BY <3>1 DEF AdmissionTypeOK
  <2>2. QED
    BY <1>3, <2>1 DEF Apart, NoBatch
<1>8. BelowCeiling'
  <2>1. \A v \in WorkerProcesses :
            (running[v] \cup batch[v].keeps)' \subseteq running[v] \cup batch[v].keeps
    BY <1>3 DEF NoBatch
  <2>2. QED
    BY <2>1, HeldStands DEF BelowCeiling
<1>9. QED
  BY <1>2, <1>4, <1>6, <1>7, <1>8

LEMMA WorkKeeps ==
  ASSUME AdmissionInv, NEW w \in WorkerProcesses, NEW i \in WorkRows, Work(w, i)
  PROVE  AdmissionInv'
<1> USE DEF AdmissionInv
<1>1. /\ i \in running[w] /\ workRow' = [workRow EXCEPT ![i] = "done"]
      /\ running' = [running EXCEPT ![w] = running[w] \ {i}]
      /\ batch' = batch
  BY DEF Work
<1>2. /\ running'[w] = running[w] \ {i}
      /\ \A v \in WorkerProcesses \ {w} : running'[v] = running[v] /\ i \notin running[v]
  BY <1>1 DEF AdmissionTypeOK, Apart
<1>3. AdmissionTypeOK'
  <2>1. /\ workRow' \in [WorkRows -> {"absent", "pending", "leased", "done"}]
        /\ running' \in [WorkerProcesses -> SUBSET WorkRows]
    BY <1>1 DEF AdmissionTypeOK
  <2>2. \A v \in WorkerProcesses, k \in WorkRows : k \in running'[v] <=> k \in running[v] /\ k # i
    BY <1>2
  <2>3. QED
    BY <1>1, <2>1, <2>2 DEF AdmissionTypeOK
<1>4. workRow[i] = "leased"
  BY <1>1 DEF AdmissionTypeOK
<1>5. BatchesTyped' /\ Apart'
  BY <1>1, <1>2 DEF BatchesTyped, Apart
<1>6. BatchesFit'
  BY <1>1, <1>4 DEF BatchesFit, BatchesTyped, AdmissionTypeOK
<1>7. BelowCeiling'
  <2>1. \A v \in WorkerProcesses :
            (running[v] \cup batch[v].keeps)' \subseteq running[v] \cup batch[v].keeps
    BY <1>1, <1>2
  <2>2. QED
    BY <2>1, HeldStands DEF BelowCeiling
<1>8. QED
  BY <1>3, <1>5, <1>6, <1>7

LEMMA AdmissionInvStep == AdmissionInv /\ [AdmissionNext]_admissionVars => AdmissionInv'
<1> SUFFICES ASSUME AdmissionInv, [AdmissionNext]_admissionVars PROVE AdmissionInv'
  OBVIOUS
<1>1. CASE \E i \in WorkRows : BecomesDue(i)
  BY <1>1, BecomesDueKeeps
<1>2. CASE \E w \in WorkerProcesses : Lease(w, JobRows) \/ Lease(w, TargetRows)
  BY <1>2, LeaseKeeps
<1>3. CASE \E w \in WorkerProcesses : Weigh(w)
  BY <1>3, WeighKeeps
<1>4. CASE \E w \in WorkerProcesses : Admit(w)
  BY <1>4, AdmitKeeps
<1>5. CASE \E w \in WorkerProcesses, i \in WorkRows : Work(w, i)
  BY <1>5, WorkKeeps
<1>6. CASE UNCHANGED admissionVars
  <2> USE <1>6 DEF admissionVars
  <2>1. AdmissionTypeOK' /\ BatchesTyped' /\ BatchesFit' /\ Apart'
    BY DEF AdmissionInv, AdmissionTypeOK, BatchesTyped, BatchesFit, Apart
  <2>2. BelowCeiling'
    BY DEF AdmissionInv, BelowCeiling, Held
  <2>3. QED
    BY <2>1, <2>2 DEF AdmissionInv
<1>7. QED
  BY <1>1, <1>2, <1>3, <1>4, <1>5, <1>6 DEF AdmissionNext, WorkerStep

\* What is leased for a connection is what the workers hold of it, each at most a
\* ceiling.
LEMMA AdmissionInvCeiling == AdmissionInv => CeilingPerWorker
<1> SUFFICES ASSUME AdmissionInv, NEW c \in WorkConnections,
                    NEW kind \in {JobRows, TargetRows}, NEW ceiling \in Nat,
                    \/ kind = JobRows /\ ceiling = JobCeiling
                    \/ kind = TargetRows /\ ceiling = TargetCeiling
             PROVE  InFlight(c, kind) <= ceiling * Cardinality(WorkerProcesses)
  BY DEF CeilingPerWorker
<1> USE DEF AdmissionInv
<1> DEFINE R == [w \in WorkerProcesses |-> Held(w, kind, c)]
           All == UNION {R[w] : w \in WorkerProcesses}
           Leased == {i \in kind : workRow[i] = "leased" /\ ConnectionOf(i) = c}
<1>1. \A w \in WorkerProcesses : R[w] = Held(w, kind, c) /\ Held(w, kind, c) \in SUBSET kind
  BY DEF Held
<1>2. \A w \in WorkerProcesses : IsFiniteSet(R[w]) /\ Cardinality(R[w]) <= ceiling
  <2> HIDE DEF R
  <2>1. QED
    BY <1>1, FS_Subset DEF BelowCeiling
<1>3. Leased \in SUBSET All
  <2> SUFFICES ASSUME NEW i \in kind, workRow[i] = "leased", ConnectionOf(i) = c
               PROVE  \E w \in WorkerProcesses : i \in R[w]
    OBVIOUS
  <2>1. PICK w \in WorkerProcesses : i \in running[w]
    BY DEF AdmissionTypeOK, WorkRows
  <2>2. i \in R[w]
    BY <2>1 DEF Held
  <2>3. QED
    BY <2>2
<1>4. IsFiniteSet(All) /\ Cardinality(All) <= ceiling * Cardinality(WorkerProcesses)
  <2> HIDE DEF R
  <2>1. QED
    BY <1>2, UnionBound
<1>5. Cardinality(Leased) <= Cardinality(All) /\ Cardinality(Leased) \in Nat /\ Cardinality(All) \in Nat
  <2> HIDE DEF All, Leased
  <2>1. QED
    BY <1>3, <1>4, FS_Subset, FS_CardinalityType
<1>6. InFlight(c, kind) = Cardinality(Leased) /\ Cardinality(WorkerProcesses) \in Nat
  BY FS_CardinalityType DEF InFlight
<1>7. QED
  <2> HIDE DEF All, Leased
  <2>1. ceiling * Cardinality(WorkerProcesses) \in Nat
    BY <1>6
  <2>2. QED
    BY <1>4, <1>5, <1>6, <2>1

\* The inductive invariant holds of every behaviour of Admission.
THEOREM AdmissionHolds == AdmissionSpec => []AdmissionInv
<1>1. QED
  BY AdmissionInvInit, AdmissionInvStep, PTL DEF AdmissionSpec

\* The types of rows, batches and leases (repositories/jobs.py, worker.py).
THEOREM AdmissionTyped == AdmissionSpec => []AdmissionTypeOK
<1>1. AdmissionInv => AdmissionTypeOK
  BY DEF AdmissionInv
<1>2. QED
  BY <1>1, AdmissionHolds, PTL

\* However many workers weigh their batches at once, without seeing each other's, a
\* connection has no more work of a kind in flight than one ceiling for each of them
\* (worker.py _claim_within_limits, repositories/jobs.py in_flight_count).
THEOREM EachWorkerWithinCeiling == AdmissionSpec => []CeilingPerWorker
<1>1. QED
  BY AdmissionInvCeiling, AdmissionHolds, PTL

HIDE AdmissionAssumption DEF AdmissionAssumption
=============================================================================
