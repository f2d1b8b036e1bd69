---------------------- MODULE SimpleRelThreadsRowsProofs ----------------------
(***************************************************************************)
(* Proofs about the ids that databases and tables are given, and about the *)
(* rows that the tables count, for any number of threads, names, managers, *)
(* buffers and ids: of the ids as long as no two are taken at once, of the *)
(* rows as long as besides what SimpleRelThreadsProofs excludes no two     *)
(* insertions into one table meet.                                         *)
(***************************************************************************)
EXTENDS SimpleRelThreadsProofs

-----------------------------------------------------------------------------
(* Ids.  Whatever else requests do to each other, the counter is above all *)
(* ids that clients were told of and all that items about to be appended   *)
(* have, and these are all different.                                      *)

Told == acked.dbs \cup acked.tables

IdsApart ==
  /\ Numbered
  /\ \A x \in Told : x.id < g_dbGenNum
  /\ \A x, y \in Told : x.id = y.id => x = y
  /\ \A t \in Thread : HasId(t) => /\ thread[t].item.id < g_dbGenNum
                                   /\ \A x \in Told : x.id # thread[t].item.id
  /\ \A t, u \in Thread : HasId(t) /\ HasId(u) /\ thread[t].item.id = thread[u].item.id => t = u

IdsCalm == "ids" \notin races => IdsApart

\* Clients are told of new ids at the end of an append only, and no other step
\* changes an item that has its id.
LEMMA IdsElsewhere ==
  ASSUME NEW kind \in Kind, TypedBy(kind), NEW t \in Thread, Step(t),
         ~ LoadGenNum(t), ~ StoreGenNum(t), ~ AddSize(t)
  PROVE  /\ acked'.dbs \subseteq acked.dbs /\ acked'.tables \subseteq acked.tables
         /\ thread'[t].pc \in Filling =>
              thread[t].pc \in Filling /\ thread'[t].item = thread[t].item
<1>1. /\ thread[t] \in ThreadT /\ thread \in [Thread -> ThreadT]
      /\ acked \in [dbs    : SUBSET [name : DbName, id : Id],
                    tables : SUBSET [dbId : Nat, id : Id],
                    rows   : [Id -> Nat]]
  BY DEF TypedBy, ThreadsTyped, RestTyped
<1>2. CASE Request(t)
  <2>1. PICK op, pc, name, dbId, labelId :
          Begin(t, op, pc, name, dbId, labelId) /\ pc \in {"manager", "open"}
    BY <1>2 DEF Request
  <2>2. PICK new : new = [Idle EXCEPT !.op = op, !.pc = pc, !.name = name,
                                      !.dbId = dbId, !.labelId = labelId]
    OBVIOUS
  <2>3. thread' = [thread EXCEPT ![t] = new] /\ UNCHANGED acked
    BY <2>1, <2>2 DEF Begin
  <2>4. new.pc = pc
    BY <2>2 DEF Idle
  <2>5. thread'[t] = new
    BY <1>1, <2>3
  <2> QED BY <2>1, <2>3, <2>4, <2>5 DEF Filling
<1>3. CASE Manage(t)
  BY <1>1, <1>3 DEF Manage, GetDbCtrlManager, Publish, InitVector, OpenDb, Searches, Goes,
                    At, ThreadT, Filling
<1>4. CASE Search(t)
  <2>1. CASE DropIsSure(t)
    <3>1. thread'[t].pc = "move"
      BY <1>1, <2>1 DEF DropIsSure, ThreadT
    <3>2. PICK gone, left : acked' = [acked EXCEPT !.dbs = @ \ gone, !.tables = @ \cap left]
      <4>1. PICK gone : gone = {d \in acked.dbs : d.name = thread[t].name}
        OBVIOUS
      <4>2. PICK left : left = {l \in acked.tables : \A d \in gone : l.dbId # d.id}
        OBVIOUS
      <4>3. left = acked.tables \cap left
        BY <4>2
      <4>4. acked' = [acked EXCEPT !.dbs = @ \ gone, !.tables = left]
        BY <2>1, <4>1, <4>2 DEF DropIsSure
      <4> QED BY <4>3, <4>4
    <3> QED BY <1>1, <3>1, <3>2 DEF Filling
  <2>2. CASE ~ DropIsSure(t)
    <3>1. UNCHANGED acked
      BY <1>4, <2>2 DEF Search, ReadSize, ReadData, SearchGoesOn, SearchEnds, NameIsFree,
                        SearchAgain, RowIsFor
    <3>2. thread'[t].pc \notin Filling
      BY <1>1, <1>4, <2>2 DEF Search, ReadSize, ReadData, SearchGoesOn, SearchEnds, NameIsFree,
                        SearchAgain, RowIsFor, Goes, Answers, Idle, ThreadT, Filling
    <3> QED BY <3>1, <3>2
  <2> QED BY <2>1, <2>2
<1>5. CASE AppendItem(t)
  BY <1>1, <1>5 DEF AppendItem, CheckCapacity, Realloc, SetData, CopyItem, Goes, At, ThreadT,
                    Filling
<1>6. CASE Change(t)
  BY <1>1, <1>6 DEF Change, MoveItem, SubtractSize, ReadRowCnt, WriteRowCnt, Answers, Idle,
                    At, ThreadT, Filling
<1>7. CASE Strays(t)
  BY <1>1, <1>7 DEF Strays, Goes, ThreadT, Filling
<1> QED BY <1>2, <1>3, <1>4, <1>5, <1>6, <1>7 DEF Step

\* An item whose append ends is one that clients are told of.
LEMMA AddSizeTells ==
  ASSUME NEW kind \in Kind, TypedBy(kind), NEW t \in Thread, AddSize(t)
  PROVE  /\ UNCHANGED g_dbGenNum /\ HasId(t) /\ thread'[t].pc = "idle"
         /\ \E new : /\ new.id = thread[t].item.id
                     /\ acked'.dbs \cup acked'.tables = Told \cup {new}
<1>1. /\ thread[t] \in ThreadT /\ thread \in [Thread -> ThreadT]
      /\ acked \in [dbs    : SUBSET [name : DbName, id : Id],
                    tables : SUBSET [dbId : Nat, id : Id],
                    rows   : [Id -> Nat]]
  BY DEF TypedBy, ThreadsTyped, RestTyped
<1>2. PICK item : item = thread[t].item
  OBVIOUS
<1>3. UNCHANGED g_dbGenNum /\ HasId(t) /\ thread'[t].pc = "idle"
  BY <1>1 DEF AddSize, At, HasId, Answers, Idle, ThreadT
<1>4. CASE thread[t].op = "create"
  <2>1. PICK new : new = [name |-> item.name, id |-> item.id]
    OBVIOUS
  <2>2. acked' = [acked EXCEPT !.dbs = @ \cup {new}]
    BY <1>2, <1>4, <2>1 DEF AddSize
  <2>3. acked'.dbs \cup acked'.tables = Told \cup {new}
    BY <1>1, <2>2 DEF Told
  <2> QED BY <1>2, <1>3, <2>1, <2>3
<1>5. CASE thread[t].op # "create"
  <2>1. PICK new : new = [dbId |-> item.dbId, id |-> item.id]
    OBVIOUS
  <2>2. acked' = [acked EXCEPT !.tables = @ \cup {new}]
    BY <1>2, <1>5, <2>1 DEF AddSize
  <2>3. acked'.dbs \cup acked'.tables = Told \cup {new}
    BY <1>1, <2>2 DEF Told
  <2> QED BY <1>2, <1>3, <2>1, <2>3
<1> QED BY <1>4, <1>5

LEMMA IdsKept ==
  ASSUME NEW kind \in Kind, TypedBy(kind), NEW t \in Thread, Step(t), IdsApart,
         "ids" \notin races'
  PROVE  IdsApart'
<1>1. /\ \A u \in Thread : u # t => thread'[u] = thread[u]
      /\ thread \in [Thread -> ThreadT] /\ g_dbGenNum \in Nat
      /\ acked \in [dbs    : SUBSET [name : DbName, id : Id],
                    tables : SUBSET [dbId : Nat, id : Id],
                    rows   : [Id -> Nat]]
  BY OthersStay DEF TypedBy, ThreadsTyped, RestTyped
<1>2. PICK old, new : old = Told /\ new = acked'.dbs \cup acked'.tables
  OBVIOUS
<1>3. \A x \in old : x.id \in Nat
  BY <1>1, <1>2 DEF Told, Id
<1>4. Numbered'
  BY NumberedKept DEF IdsApart
<1> DEFINE Goal ==
      /\ \A x \in new : x.id < g_dbGenNum'
      /\ \A x, y \in new : x.id = y.id => x = y
      /\ \A u \in Thread : thread'[u].pc \in Filling =>
           /\ thread'[u].item.id < g_dbGenNum'
           /\ \A x \in new : x.id # thread'[u].item.id
      /\ \A u, v \in Thread : thread'[u].pc \in Filling /\ thread'[v].pc \in Filling
                              /\ thread'[u].item.id = thread'[v].item.id => u = v
<1> SUFFICES Goal
  BY <1>2, <1>4 DEF IdsApart, HasId, Filling, Told
<1>5. /\ \A x \in old : x.id < g_dbGenNum
      /\ \A x, y \in old : x.id = y.id => x = y
      /\ \A u \in Thread : thread[u].pc \in Filling =>
           /\ thread[u].item.id < g_dbGenNum
           /\ \A x \in old : x.id # thread[u].item.id
      /\ \A u, v \in Thread : thread[u].pc \in Filling /\ thread[v].pc \in Filling
                              /\ thread[u].item.id = thread[v].item.id => u = v
  BY <1>2 DEF IdsApart, HasId, Filling
<1>6. \A u \in Thread : thread[u].pc \in Filling => thread[u].item.id \in Nat
  <2> SUFFICES ASSUME NEW u \in Thread, thread[u].pc \in Filling
               PROVE  thread[u].item.id \in Nat
    OBVIOUS
  <2>1. PICK k \in {"dbs", "tables"} : thread[u].item \in ItemT(kind, k)
    BY DEF TypedBy, ThreadsTyped, Placed
  <2>2. Id \subseteq Nat
    BY SimpleRelThreadsAssumption DEF Id
  <2>3. thread[u].item.id \in Id
    BY <2>1 DEF ItemT, DbT, LabelItem
  <2> QED BY <2>2, <2>3
\* A step that gives nobody an id, and tells nobody of one.
<1>7. ASSUME UNCHANGED g_dbGenNum, new \subseteq old,
              \A u \in Thread : thread'[u].pc \in Filling =>
                thread[u].pc \in Filling /\ thread'[u].item = thread[u].item
       PROVE  Goal
  <2>1. \A x \in new : x.id < g_dbGenNum'
    BY <1>5, <1>7
  <2>2. \A x, y \in new : x.id = y.id => x = y
    BY <1>5, <1>7
  <2>3. ASSUME NEW u \in Thread, thread'[u].pc \in Filling
        PROVE  /\ thread'[u].item.id < g_dbGenNum'
               /\ \A x \in new : x.id # thread'[u].item.id
    BY <1>5, <1>7, <2>3
  <2>4. ASSUME NEW u \in Thread, NEW v \in Thread, thread'[u].pc \in Filling,
               thread'[v].pc \in Filling, thread'[u].item.id = thread'[v].item.id
        PROVE  u = v
    BY <1>5, <1>7, <2>4
  <2> QED BY <2>1, <2>2, <2>3, <2>4
<1>8. CASE LoadGenNum(t)
  <2>1. thread'[t].pc = "store" /\ UNCHANGED <<g_dbGenNum, acked>>
    BY <1>1, <1>8 DEF LoadGenNum, ThreadT
  <2>2. new = old /\ thread'[t].pc \notin Filling
    BY <1>2, <2>1 DEF Told, Filling
  <2>3. \A u \in Thread : thread'[u].pc \in Filling =>
          thread[u].pc \in Filling /\ thread'[u].item = thread[u].item
    BY <1>1, <2>2
  <2> QED BY <2>1, <2>2, <2>3, <1>7
<1>9. CASE StoreGenNum(t)
  <2>1. /\ thread[t].num = g_dbGenNum /\ thread[t].item.id = g_dbGenNum
        /\ thread[t].pc = "store"
    BY <1>9 DEF StoreGenNum, At, IdsApart, Numbered
  <2>2. /\ thread'[t].item = thread[t].item /\ g_dbGenNum' = g_dbGenNum + 1
        /\ UNCHANGED acked
    BY <1>1, <1>9, <2>1 DEF StoreGenNum, ThreadT
  <2>3. new = old
    BY <1>2, <2>2 DEF Told
  <2>4. \A u \in Thread : u # t /\ thread'[u].pc \in Filling =>
          /\ thread[u].pc \in Filling /\ thread'[u].item.id = thread[u].item.id
          /\ thread[u].item.id \in Nat /\ thread[u].item.id < g_dbGenNum
    BY <1>1, <1>5, <1>6
  <2>5. thread'[t].item.id = g_dbGenNum
    BY <2>1, <2>2
  <2>6. \A x \in new : x.id \in Nat /\ x.id < g_dbGenNum
    BY <1>3, <1>5, <2>3
  <2>7. ASSUME NEW u \in Thread, thread'[u].pc \in Filling
        PROVE  /\ thread'[u].item.id < g_dbGenNum'
               /\ \A x \in new : x.id # thread'[u].item.id
    <3>1. CASE u = t
      BY <1>1, <2>2, <2>5, <2>6, <3>1
    <3>2. CASE u # t
      BY <1>1, <1>5, <2>2, <2>3, <2>4, <2>7, <3>2
    <3> QED BY <3>1, <3>2
  <2>8. ASSUME NEW u \in Thread, NEW v \in Thread, thread'[u].pc \in Filling,
               thread'[v].pc \in Filling, thread'[u].item.id = thread'[v].item.id
        PROVE  u = v
    <3>1. CASE u # t /\ v # t
      BY <1>5, <2>4, <2>8, <3>1
    <3>2. CASE u = t \/ v = t
      BY <1>1, <2>4, <2>5, <2>8, <3>2
    <3> QED BY <3>1, <3>2
  <2>9. \A x \in new : x.id < g_dbGenNum'
    BY <1>1, <2>2, <2>6
  <2>10. \A x, y \in new : x.id = y.id => x = y
    BY <1>5, <2>3
  <2> QED BY <2>7, <2>8, <2>9, <2>10
<1>10. CASE AddSize(t)
  <2>1. /\ UNCHANGED g_dbGenNum /\ thread[t].pc \in Filling /\ thread'[t].pc \notin Filling
    BY <1>10, AddSizeTells DEF HasId, Filling
  <2>2. PICK one : one.id = thread[t].item.id /\ new = old \cup {one}
    BY <1>2, <1>10, AddSizeTells
  <2>3. \A u \in Thread : thread'[u].pc \in Filling =>
          u # t /\ thread[u].pc \in Filling /\ thread'[u].item = thread[u].item
    BY <1>1, <2>1
  <2>4. \A x \in new : x.id < g_dbGenNum'
    BY <1>5, <2>1, <2>2
  <2>5. \A x, y \in new : x.id = y.id => x = y
    BY <1>5, <2>1, <2>2
  <2>6. ASSUME NEW u \in Thread, thread'[u].pc \in Filling
        PROVE  /\ thread'[u].item.id < g_dbGenNum'
               /\ \A x \in new : x.id # thread'[u].item.id
    BY <1>5, <2>1, <2>2, <2>3, <2>6
  <2>7. ASSUME NEW u \in Thread, NEW v \in Thread, thread'[u].pc \in Filling,
               thread'[v].pc \in Filling, thread'[u].item.id = thread'[v].item.id
        PROVE  u = v
    BY <1>5, <2>3, <2>7
  <2> QED BY <2>4, <2>5, <2>6, <2>7
<1>11. CASE ~ LoadGenNum(t) /\ ~ StoreGenNum(t) /\ ~ AddSize(t)
  <2>1. UNCHANGED g_dbGenNum
    BY <1>11, NumberedElsewhere
  <2>2. /\ acked'.dbs \subseteq acked.dbs /\ acked'.tables \subseteq acked.tables
        /\ thread'[t].pc \in Filling =>
             thread[t].pc \in Filling /\ thread'[t].item = thread[t].item
    BY <1>11, IdsElsewhere
  <2>3. new \subseteq old
    BY <1>2, <2>2 DEF Told
  <2>4. \A u \in Thread : thread'[u].pc \in Filling =>
          thread[u].pc \in Filling /\ thread'[u].item = thread[u].item
    BY <1>1, <2>2
  <2> QED BY <2>1, <2>3, <2>4, <1>7
<1> QED BY <1>8, <1>9, <1>10, <1>11

\* No id is given twice: no two databases or tables that clients were told of have
\* one id, and none that is about to be appended has the id of one of these, as
\* long as no request loads g_dbGenNum while another is about to store it, whatever
\* else threads do to each other (GenSrDbId, GenSrTableId, DbVectorAppendItem).
THEOREM SrIdsGivenOnce == Spec => []IdsGivenOnce
<1>1. Init => IdsCalm
  <2> SUFFICES ASSUME Init PROVE IdsApart
    BY DEF IdsCalm
  <2>1. Told = {}
    BY DEF Init, Told
  <2>2. \A t \in Thread : thread[t].pc = "idle"
    BY DEF Init, Idle
  <2> QED BY <2>1, <2>2 DEF IdsApart, Numbered, HasId
<1>2. Typed /\ IdsCalm /\ [Next]_vars => IdsCalm'
  <2> SUFFICES ASSUME Typed, IdsCalm, [Next]_vars, "ids" \notin races' PROVE IdsApart'
    BY DEF IdsCalm
  <2>1. CASE UNCHANGED vars
    BY <2>1 DEF vars, IdsCalm, IdsApart, Numbered, Told, HasId
  <2>2. CASE Next
    <3>1. PICK t \in Thread : Step(t)
      BY <2>2 DEF Next, Step
    <3>2. PICK kind \in Kind : TypedBy(kind)
      BY DEF Typed
    <3>3. IdsApart
      BY <3>1, <3>2, OthersStay DEF IdsCalm
    <3> QED BY <3>1, <3>2, <3>3, IdsKept
  <2> QED BY <2>1, <2>2
<1>3. IdsCalm => IdsGivenOnce
  BY DEF IdsCalm, IdsApart, IdsGivenOnce, NoRace, Told
<1> QED BY <1>1, <1>2, <1>3, SrThreadsTyped, PTL DEF Spec

-----------------------------------------------------------------------------
(* Where tables lie, and what requests know of their rows.                  *)

IsTable(b, i) == IsItem(b, i) /\ buffer[b][i] \in LabelItem

\* Every item that is a table, wherever it is, counts its rows, and is the only one.
Counted ==
  \A b \in Buffer : \A i \in Nat : IsTable(b, i) =>
    /\ buffer[b][i].id < g_dbGenNum
    /\ buffer[b][i].rowCnt = acked.rows[buffer[b][i].id]
    /\ \A c \in Buffer : \A j \in Nat :
         IsTable(c, j) /\ buffer[c][j].id = buffer[b][i].id => b = c /\ i = j

\* What has no id yet has no rows.
Unborn == \A id \in Id : id >= g_dbGenNum => acked.rows[id] = 0

\* A table that has its id and is not in its vector yet.
Pending(me) == me.op = "table" /\ me.pc \in {"check", "realloc", "setData", "copy"}

Born(me) ==
  /\ me.op = "table" /\ me.pc \in {"store", "check", "realloc", "setData", "copy"} =>
       me.item.rowCnt = 0
  /\ Pending(me) =>
       /\ me.item.id < g_dbGenNum /\ acked.rows[me.item.id] = 0
       /\ \A b \in Buffer : \A i \in Nat : IsTable(b, i) => buffer[b][i].id # me.item.id

BornApart ==
  \A t, u \in Thread : Pending(thread[t]) /\ Pending(thread[u])
                       /\ thread[t].item.id = thread[u].item.id => u = t

\* An insertion has found its table, and has read how many rows it has.
Inserting(me) ==
  me.op = "insert" =>
    /\ me.pc \in {"row", "count"} =>
         buffer[me.place.data][me.place.index].id = me.labelId
    /\ me.pc = "count" => me.num = buffer[me.place.data][me.place.index].rowCnt

OneInserts ==
  \A t, u \in Thread : thread[t].op = "insert" /\ thread[u].op = "insert"
                       /\ thread[t].labelId = thread[u].labelId => u = t

\* Nothing lies in the slots of b behind the n-th.
Bare(b, n) == \A j \in DOMAIN buffer[b] : j > n => buffer[b][j] = Garbage

\* The items of the k-th database, with the one that is about to be counted.
Ahead(k) ==
  IF \E t \in Thread : thread[t].op = "table" /\ thread[t].pc = "size"
                       /\ thread[t].place.index = k
    THEN 1 ELSE 0

BareIn(list) == \A k \in 1 .. D.size : Bare(list[k].data, list[k].size + Ahead(k))

BareLists == Vectors => \A me \in Standing : BareIn(Lists(me))

NewBare(me) ==
  me.op = "create" /\ me.pc \in {"store"} \cup Filling => Bare(me.item.list.data, 0)

RowsInv ==
  /\ Counted /\ Unborn /\ BornApart /\ OneInserts /\ BareLists
  /\ \A t \in Thread : Born(thread[t]) /\ Inserting(thread[t]) /\ NewBare(thread[t])

RowsCalm == NoRace({"ids", "dbs", "tables", "growth", "lists", "rows"}) => RowsInv

\* Databases are no tables.
LEMMA DbNoTable ==
  ASSUME NEW kind \in Kind, NEW x \in DbT(kind)
  PROVE  x \notin LabelItem
<1>1. DOMAIN x = {"name", "id", "list"}
  BY DEF DbT
<1>2. \A y \in LabelItem : DOMAIN y = {"name", "id", "dbId", "rowCnt"}
  BY DEF LabelItem
<1> QED BY <1>1, <1>2

LEMMA TableIs ==
  ASSUME NEW kind \in Kind, TypedBy(kind), NEW b \in Buffer, NEW i
  PROVE  IsTable(b, i) <=> b \in Of(kind, "tables") /\ IsItem(b, i)
<1>1. ASSUME IsTable(b, i) PROVE b \in Of(kind, "tables")
  <2>1. PICK k \in {"none", "dbs", "tables"} : k = kind[b]
    BY DEF Kind
  <2>2. k # "none"
    BY <1>1, <2>1 DEF TypedBy, BufferTyped, IsTable, IsItem, IsArray
  <2>3. CASE k = "dbs"
    <3>1. k \in {"dbs", "tables"} /\ b \in Of(kind, k) /\ IsItem(b, i)
      BY <1>1, <2>1, <2>3 DEF Of, IsTable
    <3>2. buffer[b][i] \in DbT(kind)
      BY <2>3, <3>1, ItemAt
    <3> QED BY <1>1, <3>2, DbNoTable DEF IsTable
  <2> QED BY <2>1, <2>2, <2>3 DEF Of
<1>2. ASSUME b \in Of(kind, "tables"), IsItem(b, i) PROVE IsTable(b, i)
  <2>1. PICK k \in {"dbs", "tables"} : k = "tables"
    OBVIOUS
  <2>2. b \in Of(kind, k)
    BY <1>2, <2>1
  <2>3. buffer[b][i] \in LabelItem
    BY <1>2, <2>1, <2>2, ItemAt
  <2> QED BY <1>2, <2>3 DEF IsTable
<1> QED BY <1>1, <1>2 DEF IsTable

\* A buffer that is not for tables has none.
LEMMA NoTableAfter ==
  ASSUME NEW kind \in Kind, NEW b \in Buffer, b \notin Of(kind, "tables"),
         BufferTyped(b, kind)', NEW i
  PROVE  ~ IsTable(b, i)'
<1> SUFFICES ASSUME IsTable(b, i)' PROVE FALSE
  OBVIOUS
<1>1. /\ buffer'[b] # Unused /\ buffer'[b] # Freed /\ i \in DOMAIN buffer'[b]
      /\ buffer'[b][i] # Garbage /\ buffer'[b][i] \in LabelItem
  BY DEF IsTable, IsItem, IsArray
<1>2. kind[b] = "dbs"
  BY <1>1 DEF BufferTyped, Of, Kind
<1>3. buffer'[b] \in Seq(DbT(kind) \cup {Garbage})
  BY <1>1, <1>2 DEF BufferTyped, ItemT
<1>4. buffer'[b][i] \in DbT(kind)
  BY <1>1, <1>3
<1> QED BY <1>1, <1>4, DbNoTable

\* The tables in the buffers are those that were there: nothing is miscounted.
LEMMA CountedStays ==
  ASSUME Counted, Unborn, g_dbGenNum \in Nat, g_dbGenNum' \in Nat,
         g_dbGenNum <= g_dbGenNum', acked'.rows = acked.rows,
         \A b \in Buffer : \A i \in Nat :
           IsTable(b, i)' => IsTable(b, i) /\ buffer'[b][i] = buffer[b][i],
         \A b \in Buffer : \A i \in Nat : IsTable(b, i) => buffer[b][i].id \in Nat
  PROVE  Counted' /\ Unborn'
<1>1. Unborn'
  BY DEF Unborn, Id
<1>2. ASSUME NEW b \in Buffer, NEW i \in Nat, IsTable(b, i)'
      PROVE  /\ buffer'[b][i].id < g_dbGenNum'
             /\ buffer'[b][i].rowCnt = acked'.rows[buffer'[b][i].id]
             /\ \A c \in Buffer : \A j \in Nat :
                  IsTable(c, j)' /\ buffer'[c][j].id = buffer'[b][i].id => b = c /\ i = j
  <2>1. IsTable(b, i) /\ buffer'[b][i] = buffer[b][i]
    BY <1>2
  <2>2. /\ buffer[b][i].id < g_dbGenNum /\ buffer[b][i].id \in Nat
        /\ buffer[b][i].rowCnt = acked.rows[buffer[b][i].id]
        /\ \A c \in Buffer : \A j \in Nat :
             IsTable(c, j) /\ buffer[c][j].id = buffer[b][i].id => b = c /\ i = j
    BY <2>1 DEF Counted
  <2>3. buffer'[b][i].id < g_dbGenNum'
    BY <2>1, <2>2
  <2>4. ASSUME NEW c \in Buffer, NEW j \in Nat, IsTable(c, j)',
               buffer'[c][j].id = buffer'[b][i].id
        PROVE  b = c /\ i = j
    BY <2>1, <2>2, <2>4
  <2> QED BY <2>1, <2>2, <2>3, <2>4
<1> QED BY <1>1, <1>2 DEF Counted

LEMMA BornStays ==
  ASSUME g_dbGenNum \in Nat, g_dbGenNum' \in Nat,
         g_dbGenNum <= g_dbGenNum', acked'.rows = acked.rows,
         \A b \in Buffer : \A i \in Nat :
           IsTable(b, i)' => IsTable(b, i) /\ buffer'[b][i] = buffer[b][i],
         NEW me, Born(me), Pending(me) => me.item.id \in Nat
  PROVE  Born(me)'
<1>1. ASSUME Pending(me)
      PROVE  /\ me.item.id < g_dbGenNum' /\ acked'.rows[me.item.id] = 0
             /\ \A b \in Buffer : \A i \in Nat : IsTable(b, i)' => buffer'[b][i].id # me.item.id
  BY <1>1 DEF Born
<1> QED BY <1>1 DEF Born, Pending

LEMMA InsertingStays ==
  ASSUME NEW kind \in Kind, \A b \in Of(kind, "tables") : buffer'[b] = buffer[b],
         NEW me, Placed(me, kind), Inserting(me)
  PROVE  Inserting(me)'
  BY DEF Inserting, Placed, InItem

LEMMA NewBareStays ==
  ASSUME NEW kind \in Kind, \A b \in Of(kind, "tables") : buffer'[b] = buffer[b],
         NEW me, Placed(me, kind), NewBare(me)
  PROVE  NewBare(me)'
<1>1. ASSUME me.op = "create", me.pc \in {"store"} \cup Filling
      PROVE  Bare(me.item.list.data, 0)'
  <2>1. me.item \in DbT(kind)
    BY <1>1 DEF Placed, ItemT
  <2>2. me.item.list.data \in Of(kind, "tables")
    BY <2>1 DEF DbT
  <2> QED BY <1>1, <2>2 DEF NewBare, Bare
<1> QED BY <1>1 DEF NewBare

\* What the steps that leave the buffers of tables alone have in common.
LEMMA RowsStep ==
  ASSUME NEW kind \in Kind, TypedBy(kind), RestTyped', RowsInv, OneInserts', BareLists',
         NEW t \in Thread, NEW new, thread' = [thread EXCEPT ![t] = new],
         acked'.rows = acked.rows, g_dbGenNum <= g_dbGenNum',
         \A b \in Of(kind, "tables") : buffer'[b] = buffer[b],
         \A b \in Buffer \ Of(kind, "tables") : \A i \in Nat : ~ IsTable(b, i)',
         Born(new)', Inserting(new)', NewBare(new)',
         Pending(new) => \A u \in Thread : u # t /\ Pending(thread[u]) =>
                           thread[u].item.id # new.item.id
  PROVE  RowsInv'
<1>1. thread \in [Thread -> ThreadT] /\ \A u \in Thread : Placed(thread[u], kind)
  BY DEF TypedBy, ThreadsTyped
<1>2. g_dbGenNum \in Nat /\ g_dbGenNum' \in Nat
  BY SimpleRelThreadsAssumption DEF TypedBy, RestTyped
<1>3. ASSUME NEW b \in Buffer, NEW i \in Nat, IsTable(b, i)'
      PROVE  IsTable(b, i) /\ buffer'[b][i] = buffer[b][i]
  <2>1. buffer'[b] = buffer[b]
    BY <1>3
  <2> QED BY <1>3, <2>1 DEF IsTable, IsItem, IsArray
<1>4. ASSUME NEW b \in Buffer, NEW i \in Nat, IsTable(b, i) PROVE buffer[b][i].id \in Nat
  <2>1. buffer[b][i] \in LabelItem
    BY <1>4 DEF IsTable
  <2> QED BY <2>1, SimpleRelThreadsAssumption DEF LabelItem, Id
<1>5. Counted' /\ Unborn'
  BY <1>2, <1>3, <1>4, CountedStays DEF RowsInv
<1>6. ASSUME NEW u \in Thread
      PROVE  Born(thread[u])' /\ Inserting(thread[u])' /\ NewBare(thread[u])'
  <2>1. CASE u = t
    <3>1. PICK me : me = thread'[u]
      OBVIOUS
    <3>2. me = new
      BY <1>1, <2>1, <3>1
    <3>3. Born(me)' /\ Inserting(me)' /\ NewBare(me)'
      BY <3>2
    <3> QED BY <3>1, <3>3
  <2>2. CASE u # t
    <3>1. PICK me \in ThreadT : me = thread[u]
      BY <1>1
    <3>2. Born(me) /\ Inserting(me) /\ NewBare(me) /\ Placed(me, kind) /\ me = thread'[u]
      BY <1>1, <2>2, <3>1 DEF RowsInv
    <3>3. Pending(me) => me.item.id \in Nat
      <4> SUFFICES ASSUME Pending(me) PROVE me.item.id \in Nat
        OBVIOUS
      <4>1. me.item \in LabelItem
        BY <3>2 DEF Pending, Placed, Filling, ItemT
      <4> QED BY <4>1, SimpleRelThreadsAssumption DEF LabelItem, Id
    <3>4. Born(me)'
      BY <1>2, <1>3, <3>2, <3>3, BornStays
    <3>5. Inserting(me)' /\ NewBare(me)'
      BY <3>2, InsertingStays, NewBareStays
    <3> QED BY <3>2, <3>4, <3>5
  <2> QED BY <2>1, <2>2
<1>7. BornApart'
  BY <1>1 DEF RowsInv, BornApart
<1> QED BY <1>5, <1>6, <1>7 DEF RowsInv

LEMMA OneInsertsKept ==
  ASSUME NEW kind \in Kind, TypedBy(kind), NEW t \in Thread, Step(t), OneInserts,
         "rows" \notin races'
  PROVE  OneInserts'
<1>1. \A u \in Thread : u # t => thread'[u] = thread[u]
  BY OthersStay
<1>2. CASE Request(t)
  <2>1. PICK new \in ThreadT :
          /\ thread'[t] = new /\ thread[t].op = "none"
          /\ \A u \in Others(t) : Race(new, thread[u]) \subseteq races'
    BY <1>2, RequestIs
  <2>2. ASSUME NEW u \in Thread, u # t, new.op = "insert", thread[u].op = "insert",
               thread[u].labelId = new.labelId
        PROVE  FALSE
    <3>1. "rows" \in Race(new, thread[u])
      BY <2>2 DEF Race
    <3>2. u \in Others(t)
      BY <2>2 DEF Others
    <3> QED BY <2>1, <3>1, <3>2
  <2> QED BY <1>1, <2>1, <2>2 DEF OneInserts
<1>3. CASE ~ Request(t)
  <2>1. \/ thread'[t] = Idle
        \/ /\ thread'[t].op = thread[t].op
           /\ thread'[t].labelId = thread[t].labelId
    BY <1>3, StepFields
  <2>2. Idle.op = "none"
    BY DEF Idle
  <2> QED BY <1>1, <2>1, <2>2 DEF OneInserts
<1> QED BY <1>2, <1>3

\* Which vector has an item that is not counted yet.
Uncounted(me) == me.op = "table" /\ me.pc = "size"

LEMMA AheadSame ==
  ASSUME thread \in [Thread -> ThreadT], NEW t \in Thread, NEW new,
         thread' = [thread EXCEPT ![t] = new],
         NEW k, Uncounted(thread[t]) => thread[t].place.index # k,
         Uncounted(new) => new.place.index # k
  PROVE  Ahead(k)' = Ahead(k)
<1>1. \A u \in Thread : thread'[u] = IF u = t THEN new ELSE thread[u]
  OBVIOUS
<1>2. (\E u \in Thread : thread'[u].op = "table" /\ thread'[u].pc = "size"
                         /\ thread'[u].place.index = k)
      <=> (\E u \in Thread : thread[u].op = "table" /\ thread[u].pc = "size"
                             /\ thread[u].place.index = k)
  BY <1>1 DEF Uncounted
<1> QED BY <1>2 DEF Ahead

\* A request for a table has its database to itself.
LEMMA AheadOnly ==
  ASSUME NEW kind \in Kind, TypedBy(kind), DbsInv, TablesInv, NEW t \in Thread,
         thread[t].op = "table", thread[t].pc \in Appending, NEW u \in Thread,
         Uncounted(thread[u]), thread[u].place.index = thread[t].place.index
  PROVE  u = t
<1>1. TableAt(thread[t]) /\ TableAt(thread[u])
  BY DEF TablesInv, Knows, Uncounted
<1>2. thread[u].pc \in Appending
  BY DEF Uncounted, Searching, Appending, Filling
<1>3. thread[t].dbId = thread[u].dbId
  BY <1>1, <1>2 DEF TableAt
<1> QED BY <1>3 DEF Uncounted, TablesInv, Apart

LEMMA BareSame ==
  ASSUME NEW b, NEW n, Bare(b, n), buffer'[b] = buffer[b]
  PROVE  Bare(b, n)'
  BY DEF Bare

LEMMA BareQuiet ==
  ASSUME NEW kind \in Kind, TypedBy(kind), DbsInv, TablesInv, BareLists,
         NEW t \in Thread, NEW new, thread' = [thread EXCEPT ![t] = new],
         UNCHANGED <<g_srDbCtrlManager, dbCtrlList>>,
         \A b \in Of(kind, "dbs") : buffer'[b] = buffer[b],
         \A b \in Of(kind, "tables") : \A n \in Int : Bare(b, n) => Bare(b, n)',
         ~ Special(thread[t]), ~ Special(new),
         thread[t].pc # "initVector", new.pc # "initVector",
         ~ Uncounted(thread[t]), ~ Uncounted(new)
  PROVE  BareLists'
<1>1. thread \in [Thread -> ThreadT]
  BY DEF TypedBy, ThreadsTyped
<1>2. (Vectors' <=> Vectors) /\ D' = D
  BY <1>1 DEF Vectors, D
<1>3. Standing' = Standing
  BY <1>1, StandingSame
<1>4. ASSUME Vectors, NEW me \in Standing, NEW k \in 1 .. D.size
      PROVE  Bare(Lists(me)[k].data, Lists(me)[k].size + Ahead(k))'
  <2>1. PICK b \in Of(kind, "dbs") : b = Array(me)
    BY <1>4, DbsAs DEF TablesInv
  <2>2. Array(me)' = b
    BY <1>2, <2>1 DEF Array
  <2>3. me.op = "table" => Array(me) = D.data
    BY DEF Array
  <2>4. ListOf(me, k)' = ListOf(me, k)
    BY <1>2, <2>1, <2>2, <2>3 DEF ListOf
  <2>5. PICK v \in [data : Of(kind, "tables"), size : Int, capacity : Nat] :
          v = ListOf(me, k) /\ v = Lists(me)[k]
    BY <1>4, ListsTyped DEF TablesInv
  <2>6. Lists(me)'[k] = v
    BY <1>2, <2>4, <2>5 DEF Lists
  <2>7. Ahead(k)' = Ahead(k) /\ Ahead(k) \in Int
    <3>1. Ahead(k)' = Ahead(k)
      BY <1>1, AheadSame
    <3> QED BY <3>1 DEF Ahead
  <2>8. PICK n \in Int : n = v.size + Ahead(k)
    BY <2>5, <2>7
  <2>9. Bare(v.data, n)
    BY <1>4, <2>5, <2>8 DEF BareLists, BareIn
  <2>10. Bare(v.data, n)'
    BY <2>5, <2>9
  <2> QED BY <2>6, <2>7, <2>8, <2>10
<1>5. ASSUME Vectors, NEW me \in Standing PROVE BareIn(Lists(me))'
  <2>1. PICK list : list = Lists(me)'
    OBVIOUS
  <2>2. \A k \in 1 .. D'.size : Bare(list[k].data, list[k].size + Ahead(k))'
    BY <1>2, <1>4, <1>5, <2>1
  <2>3. BareIn(list)'
    BY <2>2 DEF BareIn
  <2> QED BY <2>1, <2>3
<1> QED BY <1>2, <1>3, <1>5 DEF BareLists

\* The vectors after a step of a request that makes or drops what tables lie in.
LEMMA BareStep ==
  ASSUME NEW kind \in Kind, TypedBy(kind), DbsInv, TablesInv,
         NEW t \in Thread, thread[t].op \in {"create", "drop", "table"},
         NEW new, thread' = [thread EXCEPT ![t] = new],
         NEW me, me = (IF Special(new) THEN new ELSE Idle),
         Vectors' => \A k \in 1 .. D'.size : \A v : v = ListOf(me, k)' =>
           Bare(v.data, v.size + Ahead(k))'
  PROVE  BareLists'
<1>1. thread \in [Thread -> ThreadT]
  BY DEF TypedBy, ThreadsTyped
<1>2. \A u \in Thread : u # t => ~ Special(thread[u])
  BY NobodyElse
<1>3. Standing' = {me}
  BY <1>1, <1>2, StandingAfter
<1>4. ASSUME Vectors' PROVE BareIn(Lists(me))'
  <2>1. PICK list : list = Lists(me)'
    OBVIOUS
  <2>2. ASSUME NEW k \in 1 .. D'.size
        PROVE  Bare(list[k].data, list[k].size + Ahead(k))'
    <3>1. PICK v : v = ListOf(me, k)'
      OBVIOUS
    <3>2. list[k] = v
      BY <2>1, <3>1 DEF Lists
    <3>3. Bare(v.data, v.size + Ahead(k))'
      BY <1>4, <3>1
    <3> QED BY <3>2, <3>3
  <2>3. BareIn(list)'
    BY <2>2 DEF BareIn
  <2> QED BY <2>1, <2>3
<1> QED BY <1>3, <1>4 DEF BareLists

\* The vectors before it.
LEMMA BareNow ==
  ASSUME NEW kind \in Kind, TypedBy(kind), DbsInv, TablesInv, RowsInv, Vectors,
         NEW t \in Thread, thread[t].op \in {"create", "drop", "table"},
         NEW me, me = (IF Special(thread[t]) THEN thread[t] ELSE Idle),
         NEW k \in 1 .. D.size
  PROVE  /\ ListOf(me, k) \in [data : Of(kind, "tables"), size : Int, capacity : Nat]
         /\ Bare(ListOf(me, k).data, ListOf(me, k).size + Ahead(k))
         /\ Ahead(k) \in {0, 1} /\ D.size \in Nat
<1>1. me \in Standing
  BY NobodyElse
<1>2. /\ Lists(me)[k] = ListOf(me, k)
      /\ ListOf(me, k) \in [data : Of(kind, "tables"), size : Int, capacity : Nat]
      /\ D.size \in Nat
  BY <1>1, ListsTyped DEF TablesInv
<1>3. Bare(Lists(me)[k].data, Lists(me)[k].size + Ahead(k))
  BY <1>1 DEF RowsInv, BareLists, BareIn
<1>4. Ahead(k) \in {0, 1}
  BY DEF Ahead
<1> QED BY <1>2, <1>3, <1>4

LEMMA RowsInit == Init => RowsInv
<1> SUFFICES ASSUME Init PROVE RowsInv
  OBVIOUS
<1>1. \A b \in Buffer : ~ IsArray(b)
  BY DEF Init, IsArray
<1>2. \A b \in Buffer : \A i \in Nat : ~ IsTable(b, i)
  BY <1>1 DEF IsTable, IsItem
<1>3. Counted
  BY <1>2 DEF Counted
<1>4. Unborn /\ BornApart /\ OneInserts
  BY DEF Init, Idle, Unborn, BornApart, OneInserts, Pending
<1>5. BareLists
  BY DEF Init, BareLists, Vectors
<1>6. \A t \in Thread : Born(thread[t]) /\ Inserting(thread[t]) /\ NewBare(thread[t])
  BY DEF Init, Idle, Born, Pending, Inserting, NewBare
<1> QED BY <1>3, <1>4, <1>5, <1>6 DEF RowsInv

-----------------------------------------------------------------------------
(* The steps that leave the vectors as they are.                           *)

LEMMA RowsLocal ==
  ASSUME NEW kind \in Kind, TypedBy(kind), RestTyped', DbsInv, TablesInv, RowsInv, OneInserts',
         NEW t \in Thread, NEW new, thread' = [thread EXCEPT ![t] = new],
         UNCHANGED <<g_srDbCtrlManager, dbCtrlList, buffer>>,
         acked'.rows = acked.rows, g_dbGenNum <= g_dbGenNum',
         ~ Special(thread[t]), ~ Special(new),
         thread[t].pc # "initVector", new.pc # "initVector",
         ~ Uncounted(thread[t]), ~ Uncounted(new),
         Born(new)', Inserting(new)', NewBare(new)',
         Pending(new) => \A u \in Thread : u # t /\ Pending(thread[u]) =>
                           thread[u].item.id # new.item.id
  PROVE  RowsInv'
<1>1. \A b \in Of(kind, "tables") : \A n \in Int : Bare(b, n) => Bare(b, n)'
  BY DEF Bare
<1>2. BareLists'
  BY <1>1, BareQuiet DEF RowsInv
<1>3. ASSUME NEW b \in Buffer \ Of(kind, "tables"), NEW i \in Nat PROVE ~ IsTable(b, i)'
  <2>1. ~ IsTable(b, i)
    BY <1>3, TableIs
  <2> QED BY <2>1 DEF IsTable, IsItem, IsArray
<1> QED BY <1>2, <1>3, RowsStep

\* Where a request has neither an item nor a table in its hands.
Plain(me) == me.pc \in {"idle", "manager", "publish", "open", "load"} \cup Searching

LEMMA PlainIs ==
  ASSUME NEW me, Plain(me)
  PROVE  /\ ~ Special(me) /\ ~ Uncounted(me) /\ ~ Pending(me) /\ me.pc # "initVector"
         /\ Born(me) /\ Inserting(me) /\ NewBare(me)
         /\ Born(me)' /\ Inserting(me)' /\ NewBare(me)'
  BY DEF Plain, Special, Uncounted, Pending, Born, Inserting, NewBare, Filling, Searching

LEMMA RowsPlain ==
  ASSUME NEW kind \in Kind, TypedBy(kind), RestTyped', DbsInv, TablesInv, RowsInv, OneInserts',
         NEW t \in Thread, NEW new, thread' = [thread EXCEPT ![t] = new],
         UNCHANGED <<g_srDbCtrlManager, dbCtrlList, g_dbGenNum, buffer>>,
         acked'.rows = acked.rows, Plain(thread[t]), Plain(new)
  PROVE  RowsInv'
<1>1. g_dbGenNum <= g_dbGenNum'
  BY SimpleRelThreadsAssumption DEF TypedBy, RestTyped
<1> QED BY <1>1, PlainIs, RowsLocal

LEMMA SearchesKeepRows ==
  ASSUME NEW kind \in Kind, TypedBy(kind), RestTyped', DbsInv, TablesInv, RowsInv, OneInserts',
         NEW t \in Thread,
         \/ Request(t) \/ GetDbCtrlManager(t) \/ OpenDb(t)
         \/ ReadSize(t) \/ ReadData(t) \/ SearchGoesOn(t)
         \/ SearchEnds(t) \/ NameIsFree(t) \/ SearchAgain(t)
  PROVE  RowsInv'
<1>1. PICK me \in ThreadT : me = thread[t] /\ thread \in [Thread -> ThreadT]
  BY DEF TypedBy, ThreadsTyped
<1>2. /\ UNCHANGED <<g_srDbCtrlManager, dbCtrlList, g_dbGenNum, buffer>>
      /\ acked' = acked /\ Plain(me)
  <2>1. CASE Request(t)
    BY <1>1, <2>1, RequestIs DEF Plain
  <2>2. CASE ~ Request(t)
    <3>1. CASE GetDbCtrlManager(t) \/ OpenDb(t) \/ ReadSize(t) \/ ReadData(t) \/ NameIsFree(t)
      BY <1>1, <3>1 DEF GetDbCtrlManager, OpenDb, ReadSize, ReadData, NameIsFree, NoMore, shared,
         At, Plain, Searching
    <3>2. CASE SearchGoesOn(t) \/ SearchEnds(t) \/ SearchAgain(t)
      BY <1>1, <3>2 DEF SearchGoesOn, SearchEnds, SearchAgain, ToRemove, Hit, ItemFound, NoMore,
         shared, At, Plain, Searching
    <3> QED BY <2>2, <3>1, <3>2
  <2> QED BY <2>1, <2>2
<1>3. PICK new : thread' = [thread EXCEPT ![t] = new] /\ Plain(new)
  <2>1. CASE Request(t)
    <3>1. PICK x \in ThreadT : /\ thread' = [thread EXCEPT ![t] = x]
                               /\ x.pc \in {"manager", "open"}
      BY <2>1, RequestIs
    <3> QED BY <3>1 DEF Plain
  <2>2. CASE GetDbCtrlManager(t)
    <3>1. PICK a : a = [me EXCEPT !.pc = "search", !.place = TheManager, !.i = 1]
      OBVIOUS
    <3>2. PICK b : b = [me EXCEPT !.pc = "publish"]
      OBVIOUS
    <3>3. a.pc = "search" /\ b.pc = "publish"
      BY <3>1, <3>2 DEF ThreadT
    <3>4. thread' = [thread EXCEPT ![t] = a] \/ thread' = [thread EXCEPT ![t] = b]
      BY <1>1, <2>2, <3>1, <3>2 DEF GetDbCtrlManager, Searches, Goes
    <3> QED BY <3>3, <3>4 DEF Plain, Searching
  <2>3. CASE OpenDb(t)
    <3>1. PICK a : a = [me EXCEPT !.pc = "search", !.place = TheManager, !.i = 1]
      OBVIOUS
    <3>2. a.pc = "search"
      BY <3>1 DEF ThreadT
    <3>3. thread' = [thread EXCEPT ![t] = a] \/ thread' = [thread EXCEPT ![t] = me]
      BY <1>1, <2>3, <3>1 DEF OpenDb, Searches
    <3> QED BY <1>2, <3>2, <3>3 DEF Plain, Searching
  <2>4. CASE SearchGoesOn(t)
    <3>1. PICK a : a = [me EXCEPT !.pc = "search", !.i = @ + 1, !.found = NULL]
      OBVIOUS
    <3>2. a.pc = "search" /\ thread' = [thread EXCEPT ![t] = a]
      BY <1>1, <2>4, <3>1 DEF SearchGoesOn, ThreadT
    <3> QED BY <3>2 DEF Plain, Searching
  <2>5. CASE SearchEnds(t)
    BY <2>5, IdleKnows DEF SearchEnds, Answers, Plain
  <2>6. CASE NameIsFree(t)
    <3>1. PICK a : a = [me EXCEPT !.pc = "load"]
      OBVIOUS
    <3>2. a.pc = "load" /\ thread' = [thread EXCEPT ![t] = a]
      BY <1>1, <2>6, <3>1 DEF NameIsFree, Goes, ThreadT
    <3> QED BY <3>2 DEF Plain
  <2>7. CASE SearchAgain(t)
    <3>1. PICK place : place = IF me.op = "drop" THEN TheManager ELSE me.found
      OBVIOUS
    <3>2. PICK a : a = [me EXCEPT !.pc = "search", !.pass = @ + 1, !.place = place, !.i = 1,
                                  !.found = NULL]
      OBVIOUS
    <3>3. a.pc = "search" /\ thread' = [thread EXCEPT ![t] = a]
      BY <1>1, <2>7, <3>1, <3>2 DEF SearchAgain, ThreadT
    <3> QED BY <3>3 DEF Plain, Searching
  <2>8. CASE ReadSize(t)
    <3>1. PICK a : a = [me EXCEPT !.pc = "data"]
      OBVIOUS
    <3>2. a.pc = "data" /\ thread' = [thread EXCEPT ![t] = a]
      BY <1>1, <2>8, <3>1 DEF ReadSize, Goes, ThreadT
    <3> QED BY <3>2 DEF Plain, Searching
  <2>9. CASE ReadData(t)
    <3>1. PICK found : found = [data |-> VectorAt(me.place).data, index |-> me.i]
      OBVIOUS
    <3>2. PICK a : a = [me EXCEPT !.pc = "item", !.found = found]
      OBVIOUS
    <3>3. a.pc = "item" /\ thread' = [thread EXCEPT ![t] = a]
      BY <1>1, <2>9, <3>1, <3>2 DEF ReadData, ThreadT
    <3> QED BY <3>3 DEF Plain, Searching
  <2> QED BY <2>1, <2>2, <2>3, <2>4, <2>5, <2>6, <2>7, <2>8, <2>9
<1> QED BY <1>1, <1>2, <1>3, RowsPlain

LEMMA RowIsForKeepsRows ==
  ASSUME NEW kind \in Kind, TypedBy(kind), RestTyped', DbsInv, TablesInv, RowsInv, OneInserts',
         NEW t \in Thread, RowIsFor(t)
  PROVE  RowsInv'
<1>1. PICK me \in ThreadT : me = thread[t]
  BY DEF TypedBy, ThreadsTyped
<1>2. me.pc = "item" /\ Hit(t) /\ me.op = "insert" /\ me.pass = 2
  BY <1>1 DEF RowIsFor, Hit, ItemFound, At
<1>3. PICK place : place = me.found
  OBVIOUS
<1>4. PICK new : new = [me EXCEPT !.pc = "row", !.place = place, !.found = NULL]
  OBVIOUS
<1>5. /\ thread' = [thread EXCEPT ![t] = new]
      /\ UNCHANGED <<g_srDbCtrlManager, dbCtrlList, g_dbGenNum, buffer, acked>>
  BY <1>1, <1>3, <1>4 DEF RowIsFor, shared
<1>6. new.op = "insert" /\ new.pc = "row" /\ new.place = place /\ new.labelId = me.labelId
  BY <1>2, <1>4 DEF ThreadT
<1>7. buffer[place.data][place.index].id = me.labelId
  BY <1>1, <1>2, <1>3 DEF Hit, Matches
<1>8. Inserting(new)'
  BY <1>5, <1>6, <1>7 DEF Inserting
<1>9. Born(new)' /\ NewBare(new)' /\ ~ Pending(new) /\ ~ Special(new) /\ ~ Uncounted(new)
  BY <1>6 DEF Born, NewBare, Pending, Special, Uncounted
<1>10. g_dbGenNum <= g_dbGenNum' /\ acked'.rows = acked.rows
  BY <1>5, SimpleRelThreadsAssumption DEF TypedBy, RestTyped
<1>11. ~ Special(thread[t]) /\ ~ Uncounted(thread[t]) /\ thread[t].pc # "initVector"
  BY <1>1, <1>2 DEF Special, Uncounted
<1> QED BY <1>5, <1>6, <1>8, <1>9, <1>10, <1>11, RowsLocal

LEMMA ReadRowCntKeepsRows ==
  ASSUME NEW kind \in Kind, TypedBy(kind), RestTyped', DbsInv, TablesInv, RowsInv, OneInserts',
         NEW t \in Thread, ReadRowCnt(t)
  PROVE  RowsInv'
<1>1. PICK me \in ThreadT : me = thread[t] /\ Placed(me, kind) /\ Inserting(me)
  BY DEF TypedBy, ThreadsTyped, RowsInv
<1>2. me.pc = "row" /\ me.op = "insert"
  BY <1>1 DEF ReadRowCnt, At, Placed
<1>3. PICK num : num = buffer[me.place.data][me.place.index].rowCnt
  OBVIOUS
<1>4. PICK new : new = [me EXCEPT !.pc = "count", !.num = num]
  OBVIOUS
<1>5. /\ thread' = [thread EXCEPT ![t] = new]
      /\ UNCHANGED <<g_srDbCtrlManager, dbCtrlList, g_dbGenNum, buffer, acked>>
  BY <1>1, <1>3, <1>4 DEF ReadRowCnt, shared
<1>6. /\ new.op = "insert" /\ new.pc = "count" /\ new.place = me.place
      /\ new.labelId = me.labelId /\ new.num = num
  BY <1>2, <1>4 DEF ThreadT
<1>7. Inserting(new)'
  BY <1>1, <1>2, <1>3, <1>5, <1>6 DEF Inserting
<1>8. Born(new)' /\ NewBare(new)' /\ ~ Pending(new) /\ ~ Special(new) /\ ~ Uncounted(new)
  BY <1>6 DEF Born, NewBare, Pending, Special, Uncounted
<1>9. g_dbGenNum <= g_dbGenNum' /\ acked'.rows = acked.rows
  BY <1>5, SimpleRelThreadsAssumption DEF TypedBy, RestTyped
<1>10. ~ Special(thread[t]) /\ ~ Uncounted(thread[t]) /\ thread[t].pc # "initVector"
  BY <1>1, <1>2 DEF Special, Uncounted
<1> QED BY <1>5, <1>6, <1>7, <1>8, <1>9, <1>10, RowsLocal

\* The id that an item gets is its own: none has a larger one yet.
LEMMA StoreGenNumKeepsRows ==
  ASSUME NEW kind \in Kind, TypedBy(kind), RestTyped', DbsInv, TablesInv, RowsInv, OneInserts',
         NEW t \in Thread, StoreGenNum(t)
  PROVE  RowsInv'
<1>1. PICK me \in ThreadT : /\ me = thread[t] /\ Placed(me, kind)
                            /\ Born(me) /\ NewBare(me)
  BY DEF TypedBy, ThreadsTyped, RowsInv
<1>2. me.pc = "store" /\ me.op \in {"create", "table"}
  BY <1>1 DEF StoreGenNum, At, Placed, Appending
<1>3. PICK place : place = IF me.op = "create" THEN TheManager ELSE me.place
  OBVIOUS
<1>4. PICK new : new = [me EXCEPT !.pc = "check", !.place = place]
  OBVIOUS
<1>5. /\ thread' = [thread EXCEPT ![t] = new]
      /\ UNCHANGED <<g_srDbCtrlManager, dbCtrlList, buffer, acked>>
      /\ g_dbGenNum' = me.num + 1
  BY <1>1, <1>3, <1>4 DEF StoreGenNum
<1>6. new.op = me.op /\ new.pc = "check" /\ new.item = me.item
  BY <1>2, <1>3, <1>4 DEF ThreadT
<1>7. /\ me.num = g_dbGenNum /\ me.item.id = g_dbGenNum /\ g_dbGenNum \in Nat
      /\ g_dbGenNum' = g_dbGenNum + 1 /\ g_dbGenNum \in Id
  <2>1. me.num = g_dbGenNum /\ me.item.id = g_dbGenNum
    BY <1>1, <1>2 DEF DbsInv, Numbered
  <2>2. g_dbGenNum \in Nat
    BY SimpleRelThreadsAssumption DEF TypedBy, RestTyped
  <2>3. me.num < MaxGenNum
    BY <1>1, <1>2 DEF Placed
  <2> QED BY <1>5, <2>1, <2>2, <2>3, SimpleRelThreadsAssumption DEF Id
<1>8. \A b \in Buffer : \A i \in Nat : IsTable(b, i) => buffer[b][i].id # me.item.id
  BY <1>7 DEF RowsInv, Counted
<1>9. acked.rows[me.item.id] = 0
  BY <1>7 DEF RowsInv, Unborn
<1>10. Born(new)'
  <2>1. \A b \in Buffer : \A i \in Nat : IsTable(b, i)' => buffer'[b][i].id # new.item.id
    BY <1>5, <1>6, <1>8 DEF IsTable, IsItem, IsArray
  <2>2. new.item.id < g_dbGenNum' /\ acked'.rows[new.item.id] = 0
    BY <1>5, <1>6, <1>7, <1>9
  <2>3. me.op = "table" => new.item.rowCnt = 0
    BY <1>1, <1>2, <1>6 DEF Born
  <2> QED BY <1>6, <2>1, <2>2, <2>3 DEF Born
<1>11. NewBare(new)'
  <2>1. me.op = "create" => Bare(me.item.list.data, 0)
    BY <1>1, <1>2 DEF NewBare
  <2> QED BY <1>5, <1>6, <2>1 DEF NewBare, Bare
<1>12. Inserting(new)' /\ ~ Special(new) /\ ~ Uncounted(new)
  BY <1>2, <1>6 DEF Inserting, Special, Uncounted
<1>13. g_dbGenNum <= g_dbGenNum' /\ acked'.rows = acked.rows
  BY <1>5, <1>7
<1>14. ~ Special(thread[t]) /\ ~ Uncounted(thread[t]) /\ thread[t].pc # "initVector"
  BY <1>1, <1>2 DEF Special, Uncounted
<1>15. \A u \in Thread : Pending(thread[u]) => thread[u].item.id # new.item.id
  BY <1>6, <1>7 DEF RowsInv, Born
<1> QED BY <1>5, <1>6, <1>10, <1>11, <1>12, <1>13, <1>14, <1>15, RowsLocal

LEMMA CheckCapacityKeepsRows ==
  ASSUME NEW kind \in Kind, TypedBy(kind), RestTyped', DbsInv, TablesInv, RowsInv, OneInserts',
         NEW t \in Thread, CheckCapacity(t)
  PROVE  RowsInv'
<1>1. PICK me \in ThreadT : /\ me = thread[t] /\ Placed(me, kind)
                            /\ Born(me) /\ NewBare(me)
  BY DEF TypedBy, ThreadsTyped, RowsInv
<1>2. me.pc = "check" /\ me.op \in {"create", "table"}
  BY <1>1 DEF CheckCapacity, At, Placed, Searching, Appending, Filling
<1>3. PICK pc : pc = IF Vector(t).size >= Vector(t).capacity THEN "realloc" ELSE "copy"
  OBVIOUS
<1>4. PICK new : new = [me EXCEPT !.pc = pc]
  OBVIOUS
<1>5. /\ thread' = [thread EXCEPT ![t] = new]
      /\ UNCHANGED <<g_srDbCtrlManager, dbCtrlList, g_dbGenNum, buffer, acked>>
  BY <1>1, <1>3, <1>4 DEF CheckCapacity, Goes, shared
<1>6. new.op = me.op /\ new.pc \in {"realloc", "copy"} /\ new.item = me.item
  BY <1>3, <1>4 DEF ThreadT
<1>7. Born(new)'
  <2>1. \A b : \A i : IsTable(b, i)' <=> IsTable(b, i)
    BY <1>5 DEF IsTable, IsItem, IsArray
  <2> QED BY <1>1, <1>2, <1>5, <1>6, <2>1 DEF Born, Pending
<1>8. NewBare(new)'
  <2>1. me.op = "create" => Bare(me.item.list.data, 0)
    BY <1>1, <1>2 DEF NewBare, Filling
  <2> QED BY <1>5, <1>6, <2>1 DEF NewBare, Bare
<1>9. Inserting(new)' /\ ~ Special(new) /\ ~ Uncounted(new)
  BY <1>2, <1>6 DEF Inserting, Special, Uncounted
<1>10. g_dbGenNum <= g_dbGenNum' /\ acked'.rows = acked.rows
  BY <1>5, SimpleRelThreadsAssumption DEF TypedBy, RestTyped
<1>11. ~ Special(thread[t]) /\ ~ Uncounted(thread[t]) /\ thread[t].pc # "initVector"
  BY <1>1, <1>2 DEF Special, Uncounted
<1>12. Pending(new) => Pending(me)
  BY <1>2, <1>6 DEF Pending
<1>13. Pending(new) => \A u \in Thread : u # t /\ Pending(thread[u]) =>
                         thread[u].item.id # new.item.id
  BY <1>1, <1>6, <1>12 DEF RowsInv, BornApart
<1> QED BY <1>5, <1>6, <1>7, <1>8, <1>9, <1>10, <1>11, <1>13, RowsLocal

-----------------------------------------------------------------------------
(* The vectors, where there are or come to be other ones.                  *)

\* A buffer stays without tables where it stays as it is.
LEMMA NoTableStays ==
  ASSUME NEW kind \in Kind, TypedBy(kind), NEW b \in Buffer, b \notin Of(kind, "tables"),
         buffer'[b] = buffer[b], NEW i
  PROVE  ~ IsTable(b, i)'
<1>1. ~ IsTable(b, i)
  BY TableIs
<1> QED BY <1>1 DEF IsTable, IsItem, IsArray

LEMMA NoTableInNew ==
  ASSUME NEW b, buffer'[b] = NewItems, NEW i
  PROVE  ~ IsTable(b, i)'
<1>1. \A j \in DOMAIN NewItems : NewItems[j] = Garbage
  BY DEF NewItems
<1> QED BY <1>1 DEF IsTable, IsItem

LEMMA DropIsSureKeepsRows ==
  ASSUME NEW kind \in Kind, TypedBy(kind), RestTyped', DbsInv, TablesInv, RowsInv, OneInserts',
         NEW t \in Thread, DropIsSure(t)
  PROVE  RowsInv'
<1>1. PICK me \in ThreadT : me = thread[t] /\ thread \in [Thread -> ThreadT]
  BY DEF TypedBy, ThreadsTyped
<1>2. me.pc = "item" /\ me.op = "drop"
  BY <1>1 DEF DropIsSure, ToRemove, Hit, ItemFound, At
<1>3. PICK new : new = [me EXCEPT !.pc = "move", !.found = NULL,
                                  !.num = VectorAt(me.place).size]
  OBVIOUS
<1>4. /\ thread' = [thread EXCEPT ![t] = new]
      /\ UNCHANGED <<g_srDbCtrlManager, dbCtrlList, g_dbGenNum, buffer>>
  BY <1>1, <1>3 DEF DropIsSure, shared
<1>5. new.op = "drop" /\ new.pc = "move"
  BY <1>2, <1>3 DEF ThreadT
<1>6. acked'.rows = acked.rows
  BY DEF DropIsSure, TypedBy, RestTyped
<1>7. Vectors
  BY <1>1, <1>2, VectorsThere
<1>8. D' = D
  BY <1>4 DEF D
<1>9. Special(new) /\ ~ Uncounted(new)
  BY <1>5 DEF Special, Uncounted
<1>10. ~ Special(me) /\ ~ Uncounted(me)
  BY <1>2 DEF Special, Uncounted
<1>11. ASSUME NEW k \in 1 .. D.size, NEW v, v = ListOf(new, k)'
       PROVE  Bare(v.data, v.size + Ahead(k))'
  <2>1. v = ListOf(Idle, k)
    BY <1>4, <1>5, <1>8, <1>11 DEF ListOf, Array, Idle
  <2>2. Ahead(k)' = Ahead(k)
    BY <1>1, <1>4, <1>9, <1>10, AheadSame
  <2>3. PICK b : b = v.data
    OBVIOUS
  <2>4. PICK n : n = v.size + Ahead(k)
    OBVIOUS
  <2>5. PICK idle : idle = Idle
    OBVIOUS
  <2>6. idle = (IF Special(thread[t]) THEN thread[t] ELSE Idle)
    BY <1>1, <1>10, <2>5
  <2>7. Bare(b, n)
    BY <1>1, <1>2, <1>7, <2>1, <2>3, <2>4, <2>5, <2>6, BareNow
  <2>8. Bare(b, n)'
    BY <1>4, <2>7, BareSame
  <2> QED BY <2>2, <2>3, <2>4, <2>8
<1>12. BareLists'
  <2>1. PICK you : you = (IF Special(new) THEN new ELSE Idle)
    OBVIOUS
  <2>2. you = new
    BY <1>9, <2>1
  <2>3. \A k \in 1 .. D'.size : \A v : v = ListOf(you, k)' => Bare(v.data, v.size + Ahead(k))'
    BY <1>8, <1>11, <2>2
  <2>4. thread[t].op \in {"create", "drop", "table"}
    BY <1>1, <1>2
  <2> QED BY <1>4, <2>1, <2>3, <2>4, BareStep
<1>13. Born(new)' /\ Inserting(new)' /\ NewBare(new)' /\ ~ Pending(new)
  BY <1>5 DEF Born, Inserting, NewBare, Pending
<1>14. g_dbGenNum <= g_dbGenNum'
  BY <1>4, SimpleRelThreadsAssumption DEF TypedBy, RestTyped
<1>15. \A b \in Of(kind, "tables") : buffer'[b] = buffer[b]
  BY <1>4
<1>16. \A b \in Buffer \ Of(kind, "tables") : \A i \in Nat : ~ IsTable(b, i)'
  BY <1>4, NoTableStays
<1> QED BY <1>4, <1>6, <1>12, <1>13, <1>14, <1>15, <1>16, RowsStep

LEMMA PublishKeepsRows ==
  ASSUME NEW kind \in Kind, TypedBy(kind), RestTyped', DbsInv, TablesInv, RowsInv, OneInserts',
         NEW t \in Thread, Publish(t)
  PROVE  RowsInv'
<1>1. PICK me \in ThreadT : /\ me = thread[t] /\ Placed(me, kind)
                            /\ thread \in [Thread -> ThreadT]
  BY DEF TypedBy, ThreadsTyped
<1>2. me.pc = "publish" /\ me.op \in {"create", "drop"}
  BY <1>1 DEF Publish, At, Placed
<1>3. PICK new : new = [me EXCEPT !.pc = "initVector"]
  OBVIOUS
<1>4. thread' = [thread EXCEPT ![t] = new] /\ UNCHANGED <<g_dbGenNum, buffer, acked>>
  BY <1>1, <1>3 DEF Publish, Goes
<1>5. new.op = me.op /\ new.pc = "initVector"
  BY <1>3 DEF ThreadT
<1>6. ~ Vectors'
  BY <1>1, <1>4, <1>5 DEF Vectors
<1>7. BareLists'
  BY <1>6 DEF BareLists
<1>8. Born(new)' /\ Inserting(new)' /\ NewBare(new)' /\ ~ Pending(new)
  BY <1>2, <1>5 DEF Born, Inserting, NewBare, Pending, Filling
<1>9. g_dbGenNum <= g_dbGenNum' /\ acked'.rows = acked.rows
  BY <1>4, SimpleRelThreadsAssumption DEF TypedBy, RestTyped
<1>10. \A b \in Of(kind, "tables") : buffer'[b] = buffer[b]
  BY <1>4
<1>11. \A b \in Buffer \ Of(kind, "tables") : \A i \in Nat : ~ IsTable(b, i)'
  BY <1>4, NoTableStays
<1> QED BY <1>4, <1>7, <1>8, <1>9, <1>10, <1>11, RowsStep

LEMMA InitVectorKeepsRows ==
  ASSUME NEW kind \in Kind, TypedBy(kind), RestTyped', DbsInv, TablesInv, RowsInv, OneInserts',
         NEW t \in Thread, InitVector(t)
  PROVE  RowsInv'
<1>1. PICK me \in ThreadT : /\ me = thread[t] /\ Placed(me, kind)
                            /\ thread \in [Thread -> ThreadT]
  BY DEF TypedBy, ThreadsTyped
<1>2. me.pc = "initVector" /\ me.op \in {"create", "drop"} /\ g_srDbCtrlManager # NULL
  BY <1>1 DEF InitVector, At, Placed
<1>3. PICK new : new = [me EXCEPT !.pc = "search", !.place = TheManager, !.i = 1]
  OBVIOUS
<1>4. /\ thread' = [thread EXCEPT ![t] = new]
      /\ UNCHANGED <<g_srDbCtrlManager, g_dbGenNum, acked>>
      /\ dbCtrlList' = [dbCtrlList EXCEPT ![g_srDbCtrlManager] = NewVector(UnusedBuffer)]
      /\ buffer' = [buffer EXCEPT ![UnusedBuffer] = NewItems]
  BY <1>1, <1>3 DEF InitVector, Searches
<1>5. new.pc = "search"
  BY <1>3 DEF ThreadT
<1>6. PICK c \in Buffer : c = UnusedBuffer /\ kind[c] = "none"
  BY UnusedIsNone DEF InitVector
<1>7. buffer'[c] = NewItems /\ \A b \in Buffer : b # c => buffer'[b] = buffer[b]
  BY <1>4, <1>6 DEF TypedBy
<1>8. D'.size = 0
  <2>1. D' = NewVector(c)
    BY <1>2, <1>4, <1>6 DEF D, TypedBy, ManagersTyped
  <2> QED BY <2>1 DEF NewVector
<1>9. BareLists'
  <2>1. PICK you : you = (IF Special(new) THEN new ELSE Idle)
    OBVIOUS
  <2>2. \A k \in 1 .. D'.size : \A v : v = ListOf(you, k)' => Bare(v.data, v.size + Ahead(k))'
    BY <1>8
  <2>3. thread[t].op \in {"create", "drop", "table"}
    BY <1>1, <1>2
  <2> QED BY <1>4, <2>1, <2>2, <2>3, BareStep
<1>10. Born(new)' /\ Inserting(new)' /\ NewBare(new)' /\ ~ Pending(new)
  <2>1. Plain(new)
    BY <1>5 DEF Plain, Searching
  <2> QED BY <2>1, PlainIs
<1>11. g_dbGenNum <= g_dbGenNum' /\ acked'.rows = acked.rows
  BY <1>4, SimpleRelThreadsAssumption DEF TypedBy, RestTyped
<1>12. \A b \in Of(kind, "tables") : buffer'[b] = buffer[b]
  BY <1>6, <1>7 DEF Of
<1>13. \A b \in Buffer \ Of(kind, "tables") : \A i \in Nat : ~ IsTable(b, i)'
  BY <1>7, NoTableStays, NoTableInNew
<1> QED BY <1>4, <1>9, <1>10, <1>11, <1>12, <1>13, RowsStep

\* The vector of a new database is empty, a new table has no rows.
LEMMA LoadGenNumKeepsRows ==
  ASSUME NEW kind \in Kind, TypedBy(kind), RestTyped', DbsInv, TablesInv, RowsInv, OneInserts',
         NEW t \in Thread, LoadGenNum(t)
  PROVE  RowsInv'
<1>1. PICK me \in ThreadT : /\ me = thread[t] /\ Placed(me, kind)
                            /\ thread \in [Thread -> ThreadT]
  BY DEF TypedBy, ThreadsTyped
<1>2. me.pc = "load" /\ me.op \in {"create", "table"}
  BY <1>1 DEF LoadGenNum, At, Placed, Appending
<1>3. PICK c \in Buffer : c = UnusedBuffer /\ kind[c] = "none"
  BY UnusedIsNone DEF LoadGenNum
<1>4. PICK item : item =
        IF me.op = "create"
          THEN [name |-> me.name, id |-> g_dbGenNum, list |-> NewVector(c)]
          ELSE [name |-> me.name, id |-> g_dbGenNum, dbId |-> me.dbId, rowCnt |-> 0]
  OBVIOUS
<1>5. PICK new : new = [me EXCEPT !.pc = "store", !.num = g_dbGenNum, !.item = item]
  OBVIOUS
<1>6. /\ thread' = [thread EXCEPT ![t] = new]
      /\ UNCHANGED <<g_srDbCtrlManager, dbCtrlList, g_dbGenNum, acked>>
  BY <1>1, <1>3, <1>4, <1>5 DEF LoadGenNum
<1>7. new.op = me.op /\ new.pc = "store" /\ new.item = item
  BY <1>2, <1>5 DEF ThreadT
<1>8. /\ me.op = "create" => buffer'[c] = NewItems
      /\ me.op # "create" => buffer'[c] = buffer[c]
      /\ \A b \in Buffer : b # c => buffer'[b] = buffer[b]
  <2>1. CASE me.op = "create"
    <3>1. buffer' = [buffer EXCEPT ![c] = NewItems]
      BY <1>1, <1>3, <2>1 DEF LoadGenNum
    <3> QED BY <2>1, <3>1 DEF TypedBy
  <2>2. CASE me.op # "create"
    BY <1>1, <2>2 DEF LoadGenNum
  <2> QED BY <2>1, <2>2
<1>9. \A b \in Of(kind, "dbs") \cup Of(kind, "tables") : buffer'[b] = buffer[b]
  BY <1>3, <1>8 DEF Of
<1>10. BareLists'
  <2>1. \A b \in Of(kind, "tables") : \A n \in Int : Bare(b, n) => Bare(b, n)'
    BY <1>9 DEF Bare
  <2>2. /\ ~ Special(thread[t]) /\ ~ Special(new)
        /\ thread[t].pc # "initVector" /\ new.pc # "initVector"
        /\ ~ Uncounted(thread[t]) /\ ~ Uncounted(new)
    BY <1>1, <1>2, <1>7 DEF Special, Uncounted
  <2>3. BareLists
    BY DEF RowsInv
  <2> QED BY <1>6, <1>9, <2>1, <2>2, <2>3, BareQuiet
<1>11. Born(new)' /\ Inserting(new)' /\ ~ Pending(new)
  BY <1>2, <1>4, <1>7 DEF Born, Inserting, Pending
<1>12. NewBare(new)'
  <2>1. CASE me.op = "create"
    <3>1. new.item.list.data = c
      BY <1>4, <1>7, <2>1 DEF NewVector
    <3>2. Bare(c, 0)'
      BY <1>8, <2>1 DEF Bare, NewItems
    <3> QED BY <3>1, <3>2 DEF NewBare
  <2>2. CASE me.op # "create"
    BY <1>7, <2>2 DEF NewBare
  <2> QED BY <2>1, <2>2
<1>13. g_dbGenNum <= g_dbGenNum' /\ acked'.rows = acked.rows
  BY <1>6, SimpleRelThreadsAssumption DEF TypedBy, RestTyped
<1>14. \A b \in Of(kind, "tables") : buffer'[b] = buffer[b]
  BY <1>9
<1>15. \A b \in Buffer \ Of(kind, "tables") : \A i \in Nat : ~ IsTable(b, i)'
  BY <1>8, NoTableStays, NoTableInNew
<1> QED BY <1>6, <1>10, <1>11, <1>12, <1>13, <1>14, <1>15, RowsStep

-----------------------------------------------------------------------------
(* realloc.                                                                *)

LEMMA BareStays ==
  ASSUME NEW kind \in Kind, TypedBy(kind), DbsInv, TablesInv, RowsInv, Vectors,
         NEW t \in Thread, thread[t].op \in {"create", "drop", "table"},
         NEW new, thread' = [thread EXCEPT ![t] = new],
         NEW me, me = (IF Special(thread[t]) THEN thread[t] ELSE Idle),
         NEW k \in 1 .. D.size, NEW v, v = ListOf(me, k), buffer'[v.data] = buffer[v.data],
         Uncounted(thread[t]) => thread[t].place.index # k,
         Uncounted(new) => new.place.index # k
  PROVE  Bare(v.data, v.size + Ahead(k))'
<1>1. Ahead(k)' = Ahead(k)
  BY AheadSame DEF TypedBy, ThreadsTyped
<1>2. PICK n : n = v.size + Ahead(k)
  OBVIOUS
<1>3. Bare(v.data, n)
  BY <1>2, BareNow
<1>4. Bare(v.data, n)'
  BY <1>3, BareSame
<1> QED BY <1>1, <1>2, <1>4

\* The items of the new array are those of the old one, which is gone.
Grown(num, old) ==
  /\ num # old => buffer'[old] = Freed /\ buffer[num] = Unused
  /\ \A b \in Buffer : b # num /\ b # old => buffer'[b] = buffer[b]
  /\ \A j \in DOMAIN buffer'[num] : buffer'[num][j] # Garbage =>
       j \in DOMAIN buffer[old] /\ buffer'[num][j] = buffer[old][j]

LEMMA GrownIs ==
  ASSUME NEW kind \in Kind, TypedBy(kind), NEW t \in Thread, Realloc(t),
         NEW old \in Buffer, kind[old] # "none", old = Vector(t).data,
         NEW capacity, NEW num \in Buffer, ReallocTo(num, t, kind, old, capacity)
  PROVE  Grown(num, old)
<1>1. PICK n : n = 2 * Vector(t).capacity
  OBVIOUS
<1>2. PICK more : more = [i \in 1 .. n |->
                            IF i \in DOMAIN buffer[old] THEN buffer[old][i] ELSE Garbage]
  OBVIOUS
<1>3. \A j \in DOMAIN more : more[j] # Garbage =>
        j \in DOMAIN buffer[old] /\ more[j] = buffer[old][j]
  BY <1>2
<1>4. /\ buffer \in [Buffer -> {buffer[b] : b \in Buffer}]
      /\ thread \in [Thread -> ThreadT] /\ thread[t] \in ThreadT
  BY DEF TypedBy, ThreadsTyped
<1>5. thread'[t].num = num
  BY <1>4 DEF ReallocTo, ThreadT
<1>6. \/ /\ buffer' = [buffer EXCEPT ![old] = more]
         /\ thread' = [thread EXCEPT ![t].pc = "setData", ![t].num = old]
      \/ /\ UnusedBuffers # {}
         /\ buffer' = [buffer EXCEPT ![UnusedBuffer] = more, ![old] = Freed]
         /\ thread' = [thread EXCEPT ![t].pc = "setData", ![t].num = UnusedBuffer]
  BY <1>1, <1>2 DEF Realloc
<1>7. CASE /\ buffer' = [buffer EXCEPT ![old] = more]
           /\ thread' = [thread EXCEPT ![t].pc = "setData", ![t].num = old]
  <2>1. num = old
    BY <1>4, <1>5, <1>7 DEF ThreadT
  <2>2. buffer'[num] = more /\ \A b \in Buffer : b # num => buffer'[b] = buffer[b]
    BY <1>4, <1>7, <2>1
  <2> QED BY <1>3, <2>1, <2>2 DEF Grown
<1>8. CASE /\ UnusedBuffers # {}
           /\ buffer' = [buffer EXCEPT ![UnusedBuffer] = more, ![old] = Freed]
           /\ thread' = [thread EXCEPT ![t].pc = "setData", ![t].num = UnusedBuffer]
  <2>1. PICK c \in Buffer : c = UnusedBuffer /\ kind[c] = "none" /\ buffer[c] = Unused
    BY <1>8, UnusedIsNone
  <2>2. num = c
    BY <1>4, <1>5, <1>8, <2>1 DEF ThreadT
  <2>3. /\ buffer'[num] = more /\ buffer'[old] = Freed
        /\ \A b \in Buffer : b # num /\ b # old => buffer'[b] = buffer[b]
    BY <1>4, <1>8, <2>1, <2>2
  <2> QED BY <1>3, <2>1, <2>2, <2>3 DEF Grown
<1> QED BY <1>6, <1>7, <1>8

LEMMA CreateReallocKeepsRows ==
  ASSUME NEW kind \in Kind, TypedBy(kind), RestTyped', DbsInv, TablesInv, RowsInv, OneInserts',
         NEW t \in Thread, Realloc(t), thread[t].op = "create"
  PROVE  RowsInv'
<1>1. PICK me \in ThreadT : me = thread[t] /\ Placed(me, kind) /\ NewBare(me)
  BY DEF TypedBy, ThreadsTyped, RowsInv
<1>2. me.pc = "realloc" /\ me.op = "create"
  BY <1>1 DEF Realloc, At
<1>3. PICK k \in {"dbs", "tables"} : k = "dbs"
  OBVIOUS
<1>4. /\ Vector(t) = D /\ D.size \in Nat /\ D.capacity \in Nat
      /\ D.data \in Of(kind, "dbs") /\ DbsIn(D.data, D.capacity, 0) /\ Creating(me)
  BY <1>1, <1>2, MakerHas DEF Maker
<1>5. PICK old \in Of(kind, k) : old = D.data
  BY <1>3, <1>4
<1>6. PICK capacity \in Nat : capacity = D.capacity
  BY <1>4
<1>7. D.size = capacity /\ 1 <= capacity /\ capacity <= Len(buffer[old]) /\ IsArray(old)
  BY <1>2, <1>4, <1>5, <1>6 DEF Creating, DbsIn
<1>8. PICK num \in Buffer : ReallocTo(num, t, kind, old, capacity)
  <2>1. old = Vector(t).data /\ capacity = Vector(t).capacity
    BY <1>4, <1>5, <1>6
  <2> QED BY <1>7, <2>1, ReallocIs
<1>9. Grown(num, old)
  <2>1. old \in Buffer /\ kind[old] # "none" /\ old = Vector(t).data
    BY <1>3, <1>4, <1>5 DEF Of
  <2> QED BY <1>8, <2>1, GrownIs
<1>10. PICK new : new = [me EXCEPT !.pc = "setData", !.num = num]
  OBVIOUS
<1>11. thread' = [thread EXCEPT ![t] = new]
  BY <1>1, <1>8, <1>10 DEF ReallocTo
<1>12. new.op = "create" /\ new.pc = "setData" /\ new.num = num /\ new.item = me.item
  BY <1>2, <1>10 DEF ThreadT
<1>13. UNCHANGED <<g_srDbCtrlManager, dbCtrlList, g_dbGenNum, acked>> /\ D' = D
  BY DEF Realloc, D
<1>14. \A b \in Of(kind, "tables") : buffer'[b] = buffer[b]
  BY <1>3, <1>8 DEF ReallocTo, Of
<1>15. ASSUME NEW b \in Buffer \ Of(kind, "tables"), NEW i \in Nat PROVE ~ IsTable(b, i)'
  <2>1. CASE b = num
    <3>1. ASSUME i \in DOMAIN buffer'[num], buffer'[num][i] # Garbage
          PROVE  buffer'[num][i] \notin LabelItem
      <4>1. i \in DOMAIN buffer[old] /\ buffer'[num][i] = buffer[old][i]
        BY <1>9, <3>1 DEF Grown
      <4>2. IsItem(old, i)
        BY <1>7, <3>1, <4>1 DEF IsItem
      <4>3. buffer[old][i] \in DbT(kind)
        BY <1>3, <4>2, ItemAt
      <4> QED BY <4>1, <4>3, DbNoTable
    <3> QED BY <2>1, <3>1 DEF IsTable, IsItem
  <2>2. CASE b # num /\ b = old
    BY <1>9, <2>2 DEF Grown, IsTable, IsItem, IsArray
  <2>3. CASE b # num /\ b # old
    BY <1>9, <1>15, <2>3, NoTableStays DEF Grown
  <2> QED BY <2>1, <2>2, <2>3
<1>16. Vectors
  BY <1>1, <1>2, VectorsThere
<1>17. ASSUME NEW j \in 1 .. D.size, NEW v, v = ListOf(new, j)'
       PROVE  Bare(v.data, v.size + Ahead(j))'
  <2>1. v = buffer'[num][j].list
    BY <1>12, <1>17 DEF ListOf, Array
  <2>2. buffer'[num][j] = buffer[D.data][j]
    BY <1>5, <1>7, <1>8, <1>17 DEF ReallocTo
  <2>3. v = ListOf(Idle, j)
    BY <2>1, <2>2 DEF ListOf, Array, Idle
  <2>4. PICK idle : idle = Idle
    OBVIOUS
  <2>5. /\ idle = (IF Special(thread[t]) THEN thread[t] ELSE Idle)
        /\ ~ Uncounted(thread[t]) /\ ~ Uncounted(new)
    BY <1>1, <1>2, <1>12, <2>4 DEF Special, Uncounted
  <2>6. v = ListOf(idle, j)
    BY <2>3, <2>4
  <2>7. thread[t].op \in {"create", "drop", "table"}
    BY <1>1, <1>2
  <2>8. v.data \in Of(kind, "tables")
    BY <1>16, <1>17, <2>5, <2>6, <2>7, BareNow
  <2>9. buffer'[v.data] = buffer[v.data]
    BY <1>14, <2>8
  <2> QED BY <1>11, <1>16, <1>17, <2>5, <2>6, <2>7, <2>9, BareStays
<1>18. BareLists'
  <2>1. PICK you : you = (IF Special(new) THEN new ELSE Idle)
    OBVIOUS
  <2>2. you = new
    BY <1>12, <2>1 DEF Special
  <2>3. \A j \in 1 .. D'.size : \A v : v = ListOf(you, j)' => Bare(v.data, v.size + Ahead(j))'
    BY <1>13, <1>17, <2>2
  <2>4. thread[t].op \in {"create", "drop", "table"}
    BY <1>1, <1>2
  <2> QED BY <1>11, <2>1, <2>3, <2>4, BareStep
<1>19. NewBare(new)'
  <2>1. Bare(me.item.list.data, 0)
    BY <1>1, <1>2 DEF NewBare, Filling
  <2>2. me.item.list.data \in Of(kind, "tables")
    BY <1>1, <1>2 DEF Placed, Filling, ItemT, DbT
  <2> QED BY <1>12, <1>14, <2>1, <2>2 DEF NewBare, Bare
<1>20. Born(new)' /\ Inserting(new)' /\ ~ Pending(new)
  BY <1>12 DEF Born, Inserting, Pending
<1>21. g_dbGenNum <= g_dbGenNum' /\ acked'.rows = acked.rows
  BY <1>13, SimpleRelThreadsAssumption DEF TypedBy, RestTyped
<1> QED BY <1>11, <1>14, <1>15, <1>18, <1>19, <1>20, <1>21, RowsStep

\* Tables that only move with their array are still counted, each in its place.
LEMMA CountedMoves ==
  ASSUME NEW kind \in Kind, TypedBy(kind), RestTyped', RowsInv,
         NEW num \in Buffer, NEW old \in Buffer, IsArray(old), Grown(num, old),
         UNCHANGED <<g_dbGenNum, acked>>
  PROVE  /\ Counted' /\ Unborn'
         /\ \A b \in Buffer : \A i \in Nat : IsTable(b, i)' =>
              \E c \in Buffer : IsTable(c, i) /\ buffer'[b][i] = buffer[c][i]
<1>1. PICK From : From = [b \in Buffer |-> IF b = num THEN old ELSE b]
  OBVIOUS
<1>2. ASSUME NEW b \in Buffer, NEW i \in Nat, IsTable(b, i)'
      PROVE  /\ From[b] \in Buffer /\ IsTable(From[b], i)
             /\ buffer'[b][i] = buffer[From[b]][i]
             /\ b # num => b # old
  <2>1. CASE b = num
    <3>1. /\ i \in DOMAIN buffer'[num] /\ buffer'[num][i] # Garbage
          /\ buffer'[num][i] \in LabelItem
      BY <1>2, <2>1 DEF IsTable, IsItem
    <3>2. i \in DOMAIN buffer[old] /\ buffer'[num][i] = buffer[old][i]
      BY <3>1 DEF Grown
    <3>3. IsTable(old, i)
      BY <3>1, <3>2 DEF IsTable, IsItem
    <3> QED BY <1>1, <2>1, <3>2, <3>3
  <2>2. CASE b # num
    <3>1. b # old
      BY <1>2, <2>2 DEF Grown, IsTable, IsItem, IsArray
    <3>2. buffer'[b] = buffer[b]
      BY <2>2, <3>1 DEF Grown
    <3>3. IsTable(b, i)
      BY <1>2, <3>2 DEF IsTable, IsItem, IsArray
    <3> QED BY <1>1, <2>2, <3>1, <3>2, <3>3
  <2> QED BY <2>1, <2>2
<1>3. ASSUME NEW b \in Buffer, NEW i \in Nat, IsTable(b, i)'
      PROVE  /\ buffer'[b][i].id < g_dbGenNum'
             /\ buffer'[b][i].rowCnt = acked'.rows[buffer'[b][i].id]
             /\ \A c \in Buffer : \A j \in Nat :
                  IsTable(c, j)' /\ buffer'[c][j].id = buffer'[b][i].id => b = c /\ i = j
  <2>1. /\ From[b] \in Buffer /\ IsTable(From[b], i) /\ buffer'[b][i] = buffer[From[b]][i]
        /\ b # num => b # old
    BY <1>2, <1>3
  <2>2. /\ buffer[From[b]][i].id < g_dbGenNum
        /\ buffer[From[b]][i].rowCnt = acked.rows[buffer[From[b]][i].id]
        /\ \A c \in Buffer : \A j \in Nat :
             IsTable(c, j) /\ buffer[c][j].id = buffer[From[b]][i].id => From[b] = c /\ i = j
    BY <2>1 DEF RowsInv, Counted
  <2>3. ASSUME NEW c \in Buffer, NEW j \in Nat, IsTable(c, j)',
               buffer'[c][j].id = buffer'[b][i].id
        PROVE  b = c /\ i = j
    <3>1. /\ From[c] \in Buffer /\ IsTable(From[c], j) /\ buffer'[c][j] = buffer[From[c]][j]
          /\ c # num => c # old
      BY <1>2, <2>3
    <3>2. From[b] = From[c] /\ i = j
      BY <2>1, <2>2, <2>3, <3>1
    <3> QED BY <1>1, <2>1, <3>1, <3>2
  <2> QED BY <2>1, <2>2, <2>3
<1>4. Counted'
  BY <1>3 DEF Counted
<1>5. Unborn'
  BY DEF RowsInv, Unborn
<1> QED BY <1>2, <1>4, <1>5

LEMMA TableReallocKeepsRows ==
  ASSUME NEW kind \in Kind, TypedBy(kind), RestTyped', DbsInv, TablesInv, RowsInv, OneInserts',
         "growth" \notin races', NEW t \in Thread, Realloc(t), thread[t].op = "table"
  PROVE  RowsInv'
<1>1. PICK me \in ThreadT : /\ me = thread[t] /\ Placed(me, kind) /\ Knows(me)
                            /\ Born(me) /\ thread \in [Thread -> ThreadT]
  BY DEF TypedBy, ThreadsTyped, TablesInv, RowsInv
<1>2. me.pc = "realloc" /\ me.op = "table" /\ ~ Special(me)
  BY <1>1 DEF Realloc, At, Special
<1>3. PICK k : k = me.place.index
  OBVIOUS
<1>4. PICK v \in [data : Of(kind, "tables"), size : Int, capacity : Nat] :
        v = ListOf(me, k) /\ v = buffer[D.data][k].list /\ Whole(v)
        /\ me.place.data = D.data /\ D.data \in Of(kind, "dbs")
  BY <1>1, <1>2, <1>3, TableList DEF Searching, Appending, Filling
<1>5. Vector(t) = v
  <2>1. InItem(me.place, kind, "dbs")
    BY <1>1, <1>2 DEF Placed, Searching, Appending, Filling
  <2> QED BY <1>1, <1>3, <1>4, <2>1, VectorTyped DEF Vector
<1>6. Vectors /\ k \in 1 .. D.size
  BY <1>1, <1>2, <1>3 DEF Knows, TableAt, Searching, Appending, Filling
<1>7. PICK kk \in {"dbs", "tables"} : kk = "tables"
  OBVIOUS
<1>8. PICK old \in Of(kind, kk) : old = v.data
  BY <1>7
<1>9. PICK capacity \in Nat : capacity = v.capacity
  OBVIOUS
<1>10. 1 <= capacity /\ capacity <= Len(buffer[old]) /\ IsArray(old)
  BY <1>4, <1>8, <1>9 DEF Whole
<1>11. PICK num \in Buffer : ReallocTo(num, t, kind, old, capacity)
  <2>1. old = Vector(t).data /\ capacity = Vector(t).capacity
    BY <1>5, <1>8, <1>9
  <2> QED BY <1>10, <2>1, ReallocIs
<1>12. old \in Buffer /\ kind[old] = "tables" /\ D.data \in Buffer /\ kind[D.data] = "dbs"
  BY <1>4, <1>7 DEF Of
<1>13. Grown(num, old)
  <2>1. kind[old] # "none" /\ old = Vector(t).data
    BY <1>5, <1>8, <1>12
  <2> QED BY <1>11, <1>12, <2>1, GrownIs
<1>14. PICK new : new = [me EXCEPT !.pc = "setData", !.num = num]
  OBVIOUS
<1>15. thread' = [thread EXCEPT ![t] = new]
  BY <1>1, <1>11, <1>14 DEF ReallocTo
<1>16. /\ new.op = "table" /\ new.pc = "setData" /\ new.num = num /\ new.item = me.item
       /\ new.place = me.place
  BY <1>2, <1>14 DEF ThreadT
<1>17. UNCHANGED <<g_srDbCtrlManager, dbCtrlList, g_dbGenNum, acked>> /\ D' = D
  BY DEF Realloc, D
<1>18. /\ Counted' /\ Unborn'
       /\ \A b \in Buffer : \A i \in Nat : IsTable(b, i)' =>
            \E c \in Buffer : IsTable(c, i) /\ buffer'[b][i] = buffer[c][i]
  BY <1>10, <1>12, <1>13, <1>17, CountedMoves
<1>19. num = old \/ kind[num] = "none"
  BY <1>11 DEF ReallocTo
<1>20. buffer'[D.data] = buffer[D.data]
  BY <1>12, <1>13, <1>19 DEF Grown
<1>21. PICK list : list = Lists(Idle)
  OBVIOUS
<1>22. TablesIn(D.data, 0, list) /\ (1 .. D.size) \ {0} = 1 .. D.size
       /\ \A j \in 1 .. D.size : list[j] = buffer[D.data][j].list
  BY <1>1, <1>2, <1>6, <1>21, TablesNow
<1>23. /\ ~ Uncounted(thread[t]) /\ ~ Uncounted(new)
       /\ thread[t].op \in {"create", "drop", "table"}
  BY <1>1, <1>2, <1>16 DEF Uncounted
<1>24. PICK idle : idle = Idle /\ idle = (IF Special(thread[t]) THEN thread[t] ELSE Idle)
  BY <1>1, <1>2
<1>25. \A j : ListOf(idle, j) = buffer[D.data][j].list
  BY <1>24 DEF ListOf, Array, Idle
<1>26. ASSUME NEW j \in 1 .. D.size, j # k, NEW w, w = ListOf(new, j)'
       PROVE  Bare(w.data, w.size + Ahead(j))'
  <2>1. w = buffer[D.data][j].list
    BY <1>3, <1>16, <1>17, <1>20, <1>26 DEF ListOf, Array
  <2>2. w = ListOf(idle, j)
    BY <1>25, <2>1
  <2>3. w.data \in Of(kind, "tables")
    BY <1>6, <1>23, <1>24, <1>26, <2>2, BareNow
  <2>4. w.data # old
    <3>1. list[j].data = list[k].data => j = k
      BY <1>6, <1>22, <1>26 DEF TablesIn
    <3> QED BY <1>4, <1>6, <1>8, <1>22, <1>26, <2>1, <3>1
  <2>5. buffer'[w.data] = buffer[w.data]
    BY <1>13, <1>19, <2>3, <2>4 DEF Grown, Of
  <2> QED BY <1>6, <1>15, <1>23, <1>24, <1>26, <2>2, <2>5, BareStays
<1>27. ASSUME NEW w, w = ListOf(new, k)'
       PROVE  Bare(w.data, w.size + Ahead(k))'
  <2>1. w = [v EXCEPT !.data = num, !.capacity = 2 * v.capacity]
    BY <1>3, <1>4, <1>16, <1>17, <1>20, <1>27 DEF ListOf
  <2>2. w.data = num /\ w.size = v.size
    BY <2>1
  <2>3. Ahead(k)' = Ahead(k)
    BY <1>1, <1>15, <1>23, AheadSame
  <2>4. PICK n : n = v.size + Ahead(k)
    OBVIOUS
  <2>5. Bare(old, n)
    <3>1. v = ListOf(idle, k)
      BY <1>4, <1>25
    <3> QED BY <1>6, <1>8, <1>23, <1>24, <2>4, <3>1, BareNow
  <2>6. Bare(num, n)'
    BY <1>13, <2>5 DEF Bare, Grown
  <2> QED BY <2>2, <2>3, <2>4, <2>6
<1>28. BareLists'
  <2>1. PICK you : you = (IF Special(new) THEN new ELSE Idle)
    OBVIOUS
  <2>2. you = new
    BY <1>16, <2>1 DEF Special
  <2>3. \A j \in 1 .. D'.size : \A w : w = ListOf(you, j)' => Bare(w.data, w.size + Ahead(j))'
    BY <1>17, <1>26, <1>27, <2>2
  <2> QED BY <1>15, <1>23, <2>1, <2>3, BareStep
<1>29. \A u \in Thread : u # t => thread'[u] = thread[u] /\ thread[u].op = "none"
  BY <1>1, <1>15 DEF Realloc, Others
<1>30. Born(new)'
  <2>1. Pending(me)
    BY <1>2 DEF Pending
  <2>2. /\ me.item.rowCnt = 0 /\ me.item.id < g_dbGenNum /\ acked.rows[me.item.id] = 0
        /\ \A b \in Buffer : \A i \in Nat : IsTable(b, i) => buffer[b][i].id # me.item.id
    BY <1>1, <1>2, <2>1 DEF Born
  <2>3. \A b \in Buffer : \A i \in Nat : IsTable(b, i)' => buffer'[b][i].id # new.item.id
    BY <1>16, <1>18, <2>2
  <2> QED BY <1>16, <1>17, <2>2, <2>3 DEF Born
<1>31. ASSUME NEW u \in Thread
       PROVE  Born(thread[u])' /\ Inserting(thread[u])' /\ NewBare(thread[u])'
  <2>1. PICK you : you = thread'[u]
    OBVIOUS
  <2>2. Born(you)' /\ Inserting(you)' /\ NewBare(you)'
    <3>1. CASE u = t
      <4>1. you = new
        BY <1>1, <1>15, <2>1, <3>1
      <4> QED BY <1>16, <1>30, <4>1 DEF Inserting, NewBare
    <3>2. CASE u # t
      <4>1. you.op = "none"
        BY <1>29, <2>1, <3>2
      <4> QED BY <4>1 DEF Born, Inserting, NewBare, Pending
    <3> QED BY <3>1, <3>2
  <2> QED BY <2>1, <2>2
<1>32. BornApart'
  BY <1>29 DEF BornApart, Pending
<1> QED BY <1>18, <1>28, <1>31, <1>32 DEF RowsInv

LEMMA ReallocKeepsRows ==
  ASSUME NEW kind \in Kind, TypedBy(kind), RestTyped', DbsInv, TablesInv, RowsInv, OneInserts',
         "growth" \notin races', NEW t \in Thread, Realloc(t)
  PROVE  RowsInv'
<1>1. thread[t].op \in {"create", "table"}
  BY DEF Realloc, At, TypedBy, ThreadsTyped, Placed, Searching, Appending, Filling
<1> QED BY <1>1, CreateReallocKeepsRows, TableReallocKeepsRows

-----------------------------------------------------------------------------
(* Writes to what the databases lie in.                                    *)

LEMMA RowsList ==
  ASSUME NEW kind \in Kind, TypedBy(kind), RestTyped', DbsInv, TablesInv, RowsInv, OneInserts',
         NEW t \in Thread, thread[t].op \in {"create", "drop", "table"},
         NEW new, thread' = [thread EXCEPT ![t] = new], new.op # "insert",
         UNCHANGED g_dbGenNum, acked'.rows = acked.rows,
         \A b \in Of(kind, "tables") : buffer'[b] = buffer[b],
         \A b \in Buffer : buffer'[b] = buffer[b] \/ BufferTyped(b, kind)',
         NEW me, me = (IF Special(new) THEN new ELSE Idle),
         Vectors' => \A k \in 1 .. D'.size : \A v : v = ListOf(me, k)' =>
           Bare(v.data, v.size + Ahead(k))',
         NewBare(new)',
         new.op = "table" =>
           thread[t].op = "table" /\ Pending(thread[t]) /\ new.item = thread[t].item
  PROVE  RowsInv'
<1>1. BareLists'
  BY BareStep
<1>2. g_dbGenNum <= g_dbGenNum'
  BY SimpleRelThreadsAssumption DEF TypedBy, RestTyped
<1>3. ASSUME NEW b \in Buffer \ Of(kind, "tables"), NEW i \in Nat PROVE ~ IsTable(b, i)'
  <2>1. CASE buffer'[b] = buffer[b]
    BY <1>3, <2>1, NoTableStays
  <2>2. CASE BufferTyped(b, kind)'
    BY <1>3, <2>2, NoTableAfter
  <2> QED BY <1>3, <2>1, <2>2
<1>4. Inserting(new)'
  BY DEF Inserting
<1>5. PICK old : old = thread[t]
  OBVIOUS
<1>6. Born(old)'
  <2>1. ASSUME NEW b \in Buffer, NEW i \in Nat, IsTable(b, i)'
        PROVE  IsTable(b, i) /\ buffer'[b][i] = buffer[b][i]
    <3>1. buffer'[b] = buffer[b]
      BY <1>3, <2>1
    <3> QED BY <2>1, <3>1 DEF IsTable, IsItem, IsArray
  <2>2. g_dbGenNum \in Nat /\ g_dbGenNum' \in Nat
    BY SimpleRelThreadsAssumption DEF TypedBy, RestTyped
  <2>3. Pending(old) => old.item.id \in Nat
    <3> SUFFICES ASSUME Pending(old) PROVE old.item.id \in Nat
      OBVIOUS
    <3>1. old.item \in LabelItem
      BY <1>5 DEF Pending, TypedBy, ThreadsTyped, Placed, Filling, ItemT
    <3> QED BY <3>1, SimpleRelThreadsAssumption DEF LabelItem, Id
  <2>4. Born(old)
    BY <1>5 DEF RowsInv
  <2> QED BY <1>2, <2>1, <2>2, <2>3, <2>4, BornStays
<1>7. Born(new)'
  <2>1. CASE new.op = "table"
    <3>1. /\ old.item.rowCnt = 0 /\ old.item.id < g_dbGenNum' /\ acked'.rows[old.item.id] = 0
          /\ \A b \in Buffer : \A i \in Nat : IsTable(b, i)' => buffer'[b][i].id # old.item.id
      BY <1>5, <1>6, <2>1 DEF Born, Pending
    <3> QED BY <1>5, <2>1, <3>1 DEF Born
  <2>2. CASE new.op # "table"
    BY <2>2 DEF Born, Pending
  <2> QED BY <2>1, <2>2
<1>8. Pending(new) => \A u \in Thread : u # t /\ Pending(thread[u]) =>
                        thread[u].item.id # new.item.id
  <2> SUFFICES ASSUME Pending(new), NEW u \in Thread, u # t, Pending(thread[u])
               PROVE  thread[u].item.id # new.item.id
    OBVIOUS
  <2>1. Pending(thread[t]) /\ new.item = thread[t].item
    BY DEF Pending
  <2> QED BY <2>1 DEF RowsInv, BornApart
<1> QED BY <1>1, <1>2, <1>3, <1>4, <1>7, <1>8, RowsStep

LEMMA BareMore ==
  ASSUME NEW kind \in Kind, TypedBy(kind), NEW b \in Of(kind, "tables"), IsArray(b),
         NEW m \in Int, NEW n \in Int, m <= n, Bare(b, m)
  PROVE  Bare(b, n)
<1>1. PICK k \in {"dbs", "tables"} : k = "tables"
  OBVIOUS
<1>2. b \in Of(kind, k)
  BY <1>1
<1>3. DOMAIN buffer[b] = 1 .. Len(buffer[b])
  BY <1>2, ArrayAt
<1>4. ASSUME NEW j \in DOMAIN buffer[b], j > n PROVE buffer[b][j] = Garbage
  <2>1. j \in Int
    BY <1>3
  <2>2. j > m
    BY <1>4, <2>1
  <2> QED BY <2>2 DEF Bare
<1> QED BY <1>4 DEF Bare

LEMMA IdleBare == NewBare(Idle)' /\ Idle.op = "none" /\ ~ Uncounted(Idle) /\ ~ Special(Idle)
  BY DEF NewBare, Idle, Uncounted, Special

\* The vector of a new database stays bare.
LEMMA NewBareGoesOn ==
  ASSUME NEW kind \in Kind, \A b \in Of(kind, "tables") : buffer'[b] = buffer[b],
         NEW me, Placed(me, kind), NewBare(me),
         me.op = "create", me.pc \in {"store"} \cup Filling, NEW new, new.item = me.item
  PROVE  NewBare(new)'
<1>1. Bare(me.item.list.data, 0) /\ me.item.list.data \in Of(kind, "tables")
  BY DEF NewBare, Placed, ItemT, DbT
<1> QED BY <1>1 DEF NewBare, Bare

LEMMA CreateSetDataKeepsRows ==
  ASSUME NEW kind \in Kind, TypedBy(kind), RestTyped', DbsInv, TablesInv, RowsInv, OneInserts',
         NEW t \in Thread, SetData(t), thread[t].op = "create"
  PROVE  RowsInv'
<1>1. PICK me \in ThreadT : me = thread[t] /\ Placed(me, kind) /\ NewBare(me)
  BY DEF TypedBy, ThreadsTyped, RowsInv
<1>2. me.pc = "setData" /\ me.op = "create" /\ Special(me)
  BY <1>1 DEF SetData, At, Special
<1>3. /\ g_srDbCtrlManager # NULL /\ g_srDbCtrlManager \in Manager
      /\ me.place = TheManager /\ Vector(t) = D /\ D \in ManagerT(kind)
  BY <1>1, <1>2, MakerHas DEF Maker
<1>4. PICK new : new = [me EXCEPT !.pc = "copy"]
  OBVIOUS
<1>5. thread' = [thread EXCEPT ![t] = new]
  BY <1>1, <1>4 DEF SetData, Goes
<1>6. new.op = "create" /\ new.pc = "copy" /\ new.item = me.item
  BY <1>2, <1>4 DEF ThreadT
<1>7. PICK vector : vector = [D EXCEPT !.data = me.num, !.capacity = 2 * D.capacity]
  OBVIOUS
<1>8. /\ dbCtrlList' = [dbCtrlList EXCEPT ![g_srDbCtrlManager] = vector]
      /\ UNCHANGED <<g_srDbCtrlManager, g_dbGenNum, acked, buffer>>
  BY <1>1, <1>3, <1>7, AtTheManager DEF SetData, SetVector
<1>9. D'.data = me.num /\ D'.size = D.size
  <2>1. D' = vector
    BY <1>3, <1>8 DEF D, TypedBy, ManagersTyped
  <2>2. vector.data = me.num /\ vector.size = D.size
    BY <1>3, <1>7 DEF ManagerT
  <2> QED BY <2>1, <2>2
<1>10. Vectors
  BY <1>1, <1>2, VectorsThere
<1>11. ASSUME NEW k \in 1 .. D.size, NEW v, v = ListOf(Idle, k)'
       PROVE  Bare(v.data, v.size + Ahead(k))'
  <2>1. v = ListOf(me, k)
    BY <1>2, <1>8, <1>9, <1>11 DEF ListOf, Array, Idle
  <2>2. /\ me = (IF Special(thread[t]) THEN thread[t] ELSE Idle)
        /\ ~ Uncounted(thread[t]) /\ ~ Uncounted(new)
        /\ thread[t].op \in {"create", "drop", "table"}
    BY <1>1, <1>2, <1>6 DEF Uncounted
  <2>3. buffer'[v.data] = buffer[v.data]
    BY <1>8
  <2> QED BY <1>5, <1>10, <1>11, <2>1, <2>2, <2>3, BareStays
<1>12. PICK you : you = (IF Special(new) THEN new ELSE Idle)
  OBVIOUS
<1>13. \A k \in 1 .. D'.size : \A v : v = ListOf(you, k)' => Bare(v.data, v.size + Ahead(k))'
  <2>1. you = Idle
    BY <1>6, <1>12 DEF Special
  <2> QED BY <1>9, <1>11, <2>1
<1>14. /\ \A b \in Of(kind, "tables") : buffer'[b] = buffer[b]
       /\ \A b \in Buffer : buffer'[b] = buffer[b]
  BY <1>8
<1>15. NewBare(new)'
  BY <1>1, <1>2, <1>6, <1>14, NewBareGoesOn DEF Filling
<1>16. thread[t].op \in {"create", "drop", "table"} /\ new.op # "insert" /\ new.op # "table"
       /\ acked'.rows = acked.rows
  BY <1>1, <1>2, <1>6, <1>8
<1> QED BY <1>5, <1>8, <1>12, <1>13, <1>14, <1>15, <1>16, RowsList

LEMMA CreateCopyItemKeepsRows ==
  ASSUME NEW kind \in Kind, TypedBy(kind), RestTyped', DbsInv, TablesInv, RowsInv, OneInserts',
         NEW t \in Thread, CopyItem(t), thread[t].op = "create"
  PROVE  RowsInv'
<1>1. PICK me \in ThreadT : me = thread[t] /\ Placed(me, kind) /\ NewBare(me)
  BY DEF TypedBy, ThreadsTyped, RowsInv
<1>2. me.pc = "copy" /\ me.op = "create" /\ ~ Special(me)
  BY <1>1 DEF CopyItem, At, Special
<1>3. /\ Vector(t) = D /\ D.size \in Nat /\ g_srDbCtrlManager # NULL
  BY <1>1, <1>2, MakerHas DEF Maker
<1>4. Vectors
  BY <1>1, <1>2, VectorsThere
<1>5. PICK b \in Of(kind, "dbs") : b = D.data
  BY <1>1, <1>2, <1>4, TablesNow
<1>6. PICK slot : slot = D.size + 1
  OBVIOUS
<1>7. PICK new : new = [me EXCEPT !.pc = "size"]
  OBVIOUS
<1>8. /\ thread' = [thread EXCEPT ![t] = new]
      /\ UNCHANGED <<g_srDbCtrlManager, dbCtrlList, g_dbGenNum, acked>>
      /\ IsArray(b) /\ slot \in DOMAIN buffer[b]
      /\ buffer' = [buffer EXCEPT ![b] = [buffer[b] EXCEPT ![slot] = me.item]]
  BY <1>1, <1>3, <1>5, <1>6, <1>7 DEF CopyItem, Goes, IsSlot
<1>9. new.op = "create" /\ new.pc = "size" /\ new.item = me.item
  BY <1>2, <1>7 DEF ThreadT
<1>10. D' = D
  BY <1>8 DEF D
<1>11. /\ \A c \in Buffer : BufferTyped(c, kind)'
       /\ \A j \in DOMAIN buffer[b] : j # slot => buffer'[b][j] = buffer[b][j]
       /\ \A c \in Of(kind, "tables") : buffer'[c] = buffer[c]
  <2>1. PICK kk \in {"dbs", "tables"} : kk = "dbs"
    OBVIOUS
  <2>2. PICK x \in ItemT(kind, kk) \cup {Garbage} : x = me.item
    BY <1>1, <1>2, <2>1 DEF Placed, Filling
  <2>3. /\ b \in Of(kind, kk) /\ IsArray(b) /\ slot \in DOMAIN buffer[b]
        /\ buffer' = [buffer EXCEPT ![b] = [buffer[b] EXCEPT ![slot] = x]]
    BY <1>8, <2>1, <2>2
  <2>4. /\ kind \in Kind /\ TypedBy(kind) /\ kk \in {"dbs", "tables"}
        /\ x \in ItemT(kind, kk) \cup {Garbage}
    OBVIOUS
  <2>5. \A c \in Buffer : BufferTyped(c, kind)'
    BY ONLY <2>3, <2>4, WrittenTyped
  <2>6. /\ \A c \in Buffer : c # b => buffer'[c] = buffer[c]
        /\ \A j \in DOMAIN buffer[b] : j # slot => buffer'[b][j] = buffer[b][j]
    BY <1>8 DEF TypedBy, Of
  <2> QED BY <2>5, <2>6 DEF Of
<1>12. ASSUME NEW k \in 1 .. D.size, NEW v, v = ListOf(Idle, k)'
       PROVE  Bare(v.data, v.size + Ahead(k))'
  <2>1. buffer'[b][k] = buffer[b][k]
    <3>1. k \in DOMAIN buffer[b] /\ k # slot
      BY <1>1, <1>2, <1>3, <1>4, <1>5, <1>6, <1>12, TablesNow DEF IsItem
    <3> QED BY <1>11, <3>1
  <2>2. PICK idle : idle = Idle
    OBVIOUS
  <2>3. v = ListOf(idle, k)
    BY <1>5, <1>10, <1>12, <2>1, <2>2 DEF ListOf, Array, Idle
  <2>4. /\ idle = (IF Special(thread[t]) THEN thread[t] ELSE Idle)
        /\ ~ Uncounted(thread[t]) /\ ~ Uncounted(new)
        /\ thread[t].op \in {"create", "drop", "table"}
    BY <1>1, <1>2, <1>9, <2>2 DEF Uncounted
  <2>5. v.data \in Of(kind, "tables")
    BY <1>4, <1>12, <2>3, <2>4, BareNow
  <2>6. buffer'[v.data] = buffer[v.data]
    BY <1>11, <2>5
  <2> QED BY <1>4, <1>8, <1>12, <2>3, <2>4, <2>6, BareStays
<1>13. PICK you : you = (IF Special(new) THEN new ELSE Idle)
  OBVIOUS
<1>14. \A k \in 1 .. D'.size : \A v : v = ListOf(you, k)' => Bare(v.data, v.size + Ahead(k))'
  <2>1. you = Idle
    BY <1>9, <1>13 DEF Special
  <2> QED BY <1>10, <1>12, <2>1
<1>15. NewBare(new)'
  BY <1>1, <1>2, <1>9, <1>11, NewBareGoesOn DEF Filling
<1>16. thread[t].op \in {"create", "drop", "table"} /\ new.op # "insert" /\ new.op # "table"
       /\ acked'.rows = acked.rows
  BY <1>1, <1>2, <1>8, <1>9
<1> QED BY <1>8, <1>11, <1>13, <1>14, <1>15, <1>16, RowsList

LEMMA CreateAddSizeKeepsRows ==
  ASSUME NEW kind \in Kind, TypedBy(kind), RestTyped', DbsInv, TablesInv, RowsInv, OneInserts',
         NEW t \in Thread, AddSize(t), thread[t].op = "create"
  PROVE  RowsInv'
<1>1. PICK me \in ThreadT : me = thread[t] /\ Placed(me, kind) /\ Knows(me) /\ NewBare(me)
  BY DEF TypedBy, ThreadsTyped, TablesInv, RowsInv
<1>2. me.pc = "size" /\ me.op = "create" /\ ~ Special(me)
  BY <1>1 DEF AddSize, At, Special
<1>3. /\ g_srDbCtrlManager # NULL /\ g_srDbCtrlManager \in Manager
      /\ me.place = TheManager /\ Vector(t) = D /\ D \in ManagerT(kind) /\ D.size \in Nat
  BY <1>1, <1>2, MakerHas DEF Maker
<1>4. Vectors
  BY <1>1, <1>2, VectorsThere
<1>5. PICK n \in Nat : n = D.size
  BY <1>3
<1>6. PICK vector : vector = [D EXCEPT !.size = n + 1]
  OBVIOUS
<1>7. /\ dbCtrlList' = [dbCtrlList EXCEPT ![g_srDbCtrlManager] = vector]
      /\ UNCHANGED <<g_srDbCtrlManager, g_dbGenNum, buffer>>
      /\ thread' = [thread EXCEPT ![t] = Idle]
  BY <1>1, <1>3, <1>5, <1>6, AtTheManager DEF AddSize, SetVector, Answers
<1>8. D'.size = n + 1 /\ D'.data = D.data
  <2>1. D' = vector
    BY <1>3, <1>7 DEF D, TypedBy, ManagersTyped
  <2> QED BY <1>3, <1>6, <2>1 DEF ManagerT
<1>9. acked'.rows = acked.rows
  BY DEF AddSize, TypedBy, RestTyped
<1>10. PICK v \in [data : Of(kind, "tables"), size : Int, capacity : Nat] :
         v.size = 0 /\ buffer[D.data][n + 1].list = v /\ Bare(v.data, 0)
  <2>1. me.item \in DbT(kind)
    BY <1>1, <1>2 DEF Placed, Filling, ItemT
  <2>2. /\ me.item.list.size = 0 /\ buffer[D.data][n + 1] = me.item
        /\ Bare(me.item.list.data, 0)
    BY <1>1, <1>2, <1>5 DEF Knows, NewDb, Filling, NewBare
  <2> QED BY <2>1, <2>2 DEF DbT
<1>11. ASSUME NEW k \in 1 .. n, NEW w, w = ListOf(Idle, k)'
       PROVE  Bare(w.data, w.size + Ahead(k))'
  <2>1. PICK idle : idle = Idle
    OBVIOUS
  <2>2. w = ListOf(idle, k)
    BY <1>7, <1>8, <1>11, <2>1 DEF ListOf, Array, Idle
  <2>3. /\ idle = (IF Special(thread[t]) THEN thread[t] ELSE Idle)
        /\ ~ Uncounted(thread[t]) /\ ~ Uncounted(Idle)
        /\ thread[t].op \in {"create", "drop", "table"}
    BY <1>1, <1>2, <2>1, IdleBare DEF Uncounted
  <2>4. buffer'[w.data] = buffer[w.data] /\ k \in 1 .. D.size
    BY <1>5, <1>7, <1>11
  <2> QED BY <1>4, <1>7, <2>2, <2>3, <2>4, BareStays
<1>12. ASSUME NEW w, w = ListOf(Idle, n + 1)'
       PROVE  Bare(w.data, w.size + Ahead(n + 1))'
  <2>1. w = v
    BY <1>7, <1>8, <1>10, <1>12 DEF ListOf, Array, Idle
  <2>2. PICK a \in {0, 1} : a = Ahead(n + 1)'
    BY DEF Ahead
  <2>3. Bare(v.data, a)'
    <3>1. IsArray(v.data)
      BY <1>1, <1>2, <1>5, <1>10 DEF Knows, NewDb, Filling, Whole
    <3>2. PICK b \in Of(kind, "tables") : b = v.data
      OBVIOUS
    <3>3. Bare(b, a)
      BY <1>10, <3>1, <3>2, BareMore
    <3> QED BY <1>7, <3>2, <3>3, BareSame
  <2> QED BY <1>10, <2>1, <2>2, <2>3
<1>13. PICK you : you = (IF Special(Idle) THEN Idle ELSE Idle)
  OBVIOUS
<1>14. \A k \in 1 .. D'.size : \A w : w = ListOf(you, k)' => Bare(w.data, w.size + Ahead(k))'
  <2>1. \A k \in 1 .. D'.size : k \in 1 .. n \/ k = n + 1
    BY <1>8
  <2>2. you = Idle
    BY <1>13
  <2> QED BY <1>11, <1>12, <2>1, <2>2
<1>15. /\ \A b \in Of(kind, "tables") : buffer'[b] = buffer[b]
       /\ \A b \in Buffer : buffer'[b] = buffer[b]
  BY <1>7
<1>16. NewBare(Idle)' /\ Idle.op # "insert" /\ Idle.op # "table"
  BY IdleBare
<1>17. thread[t].op \in {"create", "drop", "table"}
  BY <1>1, <1>2
<1> QED BY <1>7, <1>9, <1>13, <1>14, <1>15, <1>16, <1>17, RowsList

LEMMA MoveItemKeepsRows ==
  ASSUME NEW kind \in Kind, TypedBy(kind), RestTyped', DbsInv, TablesInv, RowsInv, OneInserts',
         NEW t \in Thread, MoveItem(t)
  PROVE  RowsInv'
<1>1. PICK me \in ThreadT : me = thread[t] /\ Placed(me, kind)
  BY DEF TypedBy, ThreadsTyped
<1>2. me.pc = "move" /\ me.op = "drop" /\ Maker(me) /\ Special(me)
  BY <1>1 DEF MoveItem, At, Placed, Maker, Special
<1>3. /\ g_srDbCtrlManager # NULL /\ Vector(t) = D /\ D.size \in Nat
      /\ me.num = D.size /\ D.data \in Of(kind, "dbs")
  BY <1>1, <1>2, MakerHas, MakerIs DEF Making
<1>4. PICK n \in Nat : n = D.size
  BY <1>3
<1>5. PICK b \in Of(kind, "dbs") : b = D.data
  BY <1>3
<1>6. PICK i \in Nat \ {0} : i = me.i
  BY DEF ThreadT
<1>7. PICK new : new = [me EXCEPT !.i = i + 1]
  OBVIOUS
<1>8. /\ UNCHANGED <<g_srDbCtrlManager, dbCtrlList, g_dbGenNum, acked>>
      /\ buffer' = [buffer EXCEPT ![b] = [buffer[b] EXCEPT ![i] = buffer[b][i + 1]]]
      /\ i < n /\ thread' = [thread EXCEPT ![t] = new]
  BY <1>1, <1>3, <1>4, <1>5, <1>6, <1>7 DEF MoveItem
<1>9. new.op = "drop" /\ new.pc = "move" /\ new.i = i + 1
  BY <1>2, <1>7 DEF ThreadT
<1>10. Vectors
  BY <1>1, <1>2, VectorsThere
<1>11. D' = D
  BY <1>8 DEF D
<1>12. me \in Standing /\ Array(me) = b
  BY <1>1, <1>2, <1>5, NobodyElse DEF Array
<1>13. \A k \in 1 .. n : IsItem(b, k) /\ buffer[b][k] \in DbT(kind)
                         /\ ListOf(me, k) = buffer[b][k].list
  <2> TAKE k \in 1 .. n
  <2>1. IsItem(b, k) /\ buffer[b][k] \in DbT(kind)
    BY <1>4, <1>10, <1>12, ListsTyped DEF TablesInv
  <2>2. ListOf(me, k) = buffer[b][k].list
    BY <1>2, <1>12 DEF ListOf
  <2> QED BY <2>1, <2>2
<1>14. i \in 1 .. n /\ i + 1 \in 1 .. n
  BY <1>8
<1>15. PICK x \in DbT(kind) : x = buffer[b][i + 1]
  BY <1>13, <1>14
<1>16. i \in DOMAIN buffer[b] /\ IsArray(b)
  BY <1>13, <1>14 DEF IsItem
<1>17. /\ \A c \in Buffer : BufferTyped(c, kind)'
       /\ \A j \in DOMAIN buffer[b] : buffer'[b][j] = IF j = i THEN x ELSE buffer[b][j]
       /\ \A c \in Of(kind, "tables") : buffer'[c] = buffer[c]
  <2>1. PICK kk \in {"dbs", "tables"} : kk = "dbs"
    OBVIOUS
  <2>2. PICK y \in ItemT(kind, kk) \cup {Garbage} : y = x
    BY <1>15, <2>1 DEF ItemT
  <2>3. /\ b \in Of(kind, kk) /\ IsArray(b) /\ i \in DOMAIN buffer[b]
        /\ buffer' = [buffer EXCEPT ![b] = [buffer[b] EXCEPT ![i] = y]]
    BY <1>8, <1>15, <1>16, <2>1, <2>2
  <2>4. /\ kind \in Kind /\ TypedBy(kind) /\ kk \in {"dbs", "tables"}
        /\ y \in ItemT(kind, kk) \cup {Garbage}
    OBVIOUS
  <2>5. \A c \in Buffer : BufferTyped(c, kind)'
    BY ONLY <2>3, <2>4, WrittenTyped
  <2>6. /\ \A c \in Buffer : c # b => buffer'[c] = buffer[c]
        /\ \A j \in DOMAIN buffer[b] : buffer'[b][j] = IF j = i THEN x ELSE buffer[b][j]
    BY <2>2, <2>3 DEF TypedBy, Of
  <2> QED BY <2>5, <2>6 DEF Of
<1>18. \A u \in Thread : ~ Uncounted(thread[u]) /\ ~ Uncounted(thread'[u])
  <2>1. \A u \in Thread : thread[u].op # "table"
    BY <1>1, <1>2 DEF TablesInv, Apart
  <2>2. \A u \in Thread : thread'[u] = IF u = t THEN new ELSE thread[u]
    BY <1>8 DEF TypedBy, ThreadsTyped
  <2> QED BY <1>9, <2>1, <2>2 DEF Uncounted
<1>19. \A k : Ahead(k) = 0 /\ Ahead(k)' = 0
  BY <1>18 DEF Ahead, Uncounted
<1>20. ASSUME NEW k \in 1 .. n, NEW v, v = ListOf(new, k)'
       PROVE  Bare(v.data, v.size + Ahead(k))'
  <2>1. PICK from \in 1 .. n : from = IF k = i THEN i + 1 ELSE k
    BY <1>14
  <2>2. v = buffer'[b][k].list
    BY <1>5, <1>9, <1>11, <1>20 DEF ListOf, Array
  <2>3. buffer'[b][k] = buffer[b][from]
    BY <1>13, <1>15, <1>17, <1>20, <2>1 DEF IsItem
  <2>4. v = ListOf(me, from)
    BY <1>13, <2>2, <2>3
  <2>5. /\ me = (IF Special(thread[t]) THEN thread[t] ELSE Idle)
        /\ thread[t].op \in {"create", "drop", "table"}
    BY <1>1, <1>2
  <2>6. /\ ListOf(me, from) \in [data : Of(kind, "tables"), size : Int, capacity : Nat]
        /\ Bare(ListOf(me, from).data, ListOf(me, from).size + Ahead(from))
    BY <1>4, <1>10, <2>5, BareNow
  <2>7. PICK m : m = v.size + Ahead(from)
    OBVIOUS
  <2>8. Bare(v.data, m)'
    BY <1>17, <2>4, <2>6, <2>7, BareSame
  <2> QED BY <1>19, <2>7, <2>8
<1>21. PICK you : you = (IF Special(new) THEN new ELSE Idle)
  OBVIOUS
<1>22. \A k \in 1 .. D'.size : \A v : v = ListOf(you, k)' => Bare(v.data, v.size + Ahead(k))'
  <2>1. you = new
    BY <1>9, <1>21 DEF Special
  <2> QED BY <1>4, <1>11, <1>20, <2>1
<1>23. NewBare(new)' /\ new.op # "insert" /\ new.op # "table" /\ acked'.rows = acked.rows
  BY <1>8, <1>9 DEF NewBare
<1>24. thread[t].op \in {"create", "drop", "table"}
  BY <1>1, <1>2
<1> QED BY <1>8, <1>17, <1>21, <1>22, <1>23, <1>24, RowsList

LEMMA SubtractSizeKeepsRows ==
  ASSUME NEW kind \in Kind, TypedBy(kind), RestTyped', DbsInv, TablesInv, RowsInv, OneInserts',
         NEW t \in Thread, SubtractSize(t)
  PROVE  RowsInv'
<1>1. PICK me \in ThreadT : me = thread[t] /\ Placed(me, kind)
  BY DEF TypedBy, ThreadsTyped
<1>2. me.pc = "move" /\ me.op = "drop" /\ Maker(me) /\ Special(me)
  BY <1>1 DEF SubtractSize, At, Placed, Maker, Special
<1>3. /\ g_srDbCtrlManager # NULL /\ g_srDbCtrlManager \in Manager /\ D \in ManagerT(kind)
      /\ Vector(t) = D /\ D.size \in Nat /\ me.place = TheManager
  BY <1>1, <1>2, MakerHas, MakerIs DEF Making
<1>4. PICK n \in Nat : n = D.size
  BY <1>3
<1>5. PICK vector : vector = [D EXCEPT !.size = n - 1]
  OBVIOUS
<1>6. /\ dbCtrlList' = [dbCtrlList EXCEPT ![g_srDbCtrlManager] = vector]
      /\ UNCHANGED <<g_srDbCtrlManager, g_dbGenNum, buffer, acked>>
      /\ thread' = [thread EXCEPT ![t] = Idle]
  BY <1>1, <1>3, <1>4, <1>5, AtTheManager DEF SubtractSize, SetVector, Answers
<1>7. D'.size = n - 1 /\ D'.data = D.data
  <2>1. D' = vector
    BY <1>3, <1>6 DEF D, TypedBy, ManagersTyped
  <2> QED BY <1>3, <1>5, <2>1 DEF ManagerT
<1>8. Vectors
  BY <1>1, <1>2, VectorsThere
<1>9. ASSUME NEW k \in 1 .. D'.size, NEW v, v = ListOf(Idle, k)'
      PROVE  Bare(v.data, v.size + Ahead(k))'
  <2>1. k \in 1 .. D.size
    BY <1>4, <1>7, <1>9
  <2>2. v = ListOf(me, k)
    BY <1>2, <1>6, <1>7, <1>9 DEF ListOf, Array, Idle
  <2>3. /\ me = (IF Special(thread[t]) THEN thread[t] ELSE Idle)
        /\ ~ Uncounted(thread[t]) /\ ~ Uncounted(Idle)
        /\ thread[t].op \in {"create", "drop", "table"}
    BY <1>1, <1>2, IdleBare DEF Uncounted
  <2>4. buffer'[v.data] = buffer[v.data]
    BY <1>6
  <2> QED BY <1>6, <1>8, <2>1, <2>2, <2>3, <2>4, BareStays
<1>10. PICK you : you = (IF Special(Idle) THEN Idle ELSE Idle)
  OBVIOUS
<1>11. \A k \in 1 .. D'.size : \A v : v = ListOf(you, k)' => Bare(v.data, v.size + Ahead(k))'
  <2>1. you = Idle
    BY <1>10
  <2> QED BY <1>9, <2>1
<1>12. /\ \A b \in Of(kind, "tables") : buffer'[b] = buffer[b]
       /\ \A b \in Buffer : buffer'[b] = buffer[b]
  BY <1>6
<1>13. NewBare(Idle)' /\ Idle.op # "insert" /\ Idle.op # "table" /\ acked'.rows = acked.rows
  BY <1>6, IdleBare
<1>14. thread[t].op \in {"create", "drop", "table"}
  BY <1>1, <1>2
<1> QED BY <1>6, <1>10, <1>11, <1>12, <1>13, <1>14, RowsList

\* What the assignment to a database's vector leaves.
LEMMA ListWritten ==
  ASSUME NEW kind \in Kind, TypedBy(kind), NEW place, InItem(place, kind, "dbs"),
         NEW b \in Of(kind, "dbs"), b = place.data, NEW k, k = place.index, IsItem(b, k),
         NEW vector \in [data : Of(kind, "tables"), size : Int, capacity : Nat],
         SetVector(place, vector)
  PROVE  /\ UNCHANGED dbCtrlList
         /\ \A c \in Of(kind, "tables") : buffer'[c] = buffer[c]
         /\ \A c \in Buffer : BufferTyped(c, kind)'
         /\ \A j \in DOMAIN buffer[b] :
              buffer'[b][j].list = IF j = k THEN vector ELSE buffer[b][j].list
<1>1. /\ UNCHANGED dbCtrlList
      /\ \A c \in Buffer : c # b => buffer'[c] = buffer[c]
      /\ \A j \in DOMAIN buffer[b] : j # k => buffer'[b][j] = buffer[b][j]
      /\ buffer'[b][k].list = vector
  <2>1. /\ InItem(place, kind, "dbs") /\ b = place.data /\ k = place.index
        /\ IsItem(b, k) /\ SetVector(place, vector)
    OBVIOUS
  <2>2. /\ kind \in Kind /\ TypedBy(kind) /\ b \in Of(kind, "dbs")
        /\ vector \in [data : Of(kind, "tables"), size : Int, capacity : Nat]
    OBVIOUS
  <2> QED BY ONLY <2>1, <2>2, ListSetIs
<1>2. \A c \in Buffer : BufferTyped(c, kind)'
  <2>1. IsVector(place)
    BY DEF IsVector, InItem, IsManager
  <2>2. InItem(place, kind, "dbs") /\ SetVector(place, vector)
    OBVIOUS
  <2>3. /\ kind \in Kind /\ TypedBy(kind)
        /\ vector \in [data : Of(kind, "tables"), size : Int, capacity : Nat]
    OBVIOUS
  <2> QED BY ONLY <2>1, <2>2, <2>3, SetVectorTyped
<1> QED BY <1>1, <1>2 DEF Of

LEMMA TableSetDataKeepsRows ==
  ASSUME NEW kind \in Kind, TypedBy(kind), RestTyped', DbsInv, TablesInv, RowsInv, OneInserts',
         NEW t \in Thread, SetData(t), thread[t].op = "table"
  PROVE  RowsInv'
<1>1. PICK me \in ThreadT : me = thread[t] /\ Placed(me, kind) /\ Knows(me)
  BY DEF TypedBy, ThreadsTyped, TablesInv
<1>2. me.pc = "setData" /\ me.op = "table" /\ Special(me)
  BY <1>1 DEF SetData, At, Special
<1>3. PICK k : k = me.place.index
  OBVIOUS
<1>4. TableAt(me) /\ InItem(me.place, kind, "dbs")
  BY <1>1, <1>2 DEF Knows, Placed, Searching, Appending, Filling
<1>5. PICK vector \in [data : Of(kind, "tables"), size : Int, capacity : Nat] :
        vector = ListOf(me, k)
  BY <1>1, <1>2, <1>3, TableList DEF Searching, Appending, Filling
<1>6. PICK b \in Of(kind, "dbs") : b = D.data /\ b = me.place.data
  BY <1>1, <1>2, TableList DEF Searching, Appending, Filling
<1>7. Vectors /\ k \in 1 .. D.size
  BY <1>2, <1>3, <1>4 DEF TableAt, Searching, Appending, Filling
<1>8. PICK new : new = [me EXCEPT !.pc = "copy"]
  OBVIOUS
<1>9. /\ thread' = [thread EXCEPT ![t] = new]
      /\ UNCHANGED <<g_srDbCtrlManager, g_dbGenNum, acked>>
  BY <1>1, <1>8 DEF SetData, Goes
<1>10. new.op = "table" /\ new.pc = "copy" /\ new.item = me.item
  BY <1>2, <1>8 DEF ThreadT
<1>11. me \in Standing /\ Array(me) = b
  BY <1>1, <1>2, <1>6, NobodyElse DEF Array
<1>12. \A j \in 1 .. D.size : IsItem(b, j)
  BY <1>7, <1>11, ListsTyped DEF TablesInv
<1>13. \A j \in 1 .. D.size : ListOf(me, j) = IF j = k THEN vector ELSE buffer[b][j].list
  <2> TAKE j \in 1 .. D.size
  <2>1. j # k => ListOf(me, j) = buffer[b][j].list
    BY <1>3, <1>11 DEF ListOf
  <2> QED BY <1>5, <2>1
<1>14. SetVector(me.place, vector)
  <2>1. PICK v : v = buffer[b][k].list
    OBVIOUS
  <2>2. vector = [v EXCEPT !.data = me.num, !.capacity = 2 * v.capacity]
    BY <1>2, <1>3, <1>5, <1>6, <2>1 DEF ListOf
  <2>3. Vector(t) = v
    BY <1>1, <1>3, <1>4, <1>6, <2>1, VectorTyped DEF Vector
  <2> QED BY <1>1, <2>2, <2>3 DEF SetData
<1>15. /\ UNCHANGED dbCtrlList
       /\ \A c \in Of(kind, "tables") : buffer'[c] = buffer[c]
       /\ \A c \in Buffer : BufferTyped(c, kind)'
       /\ \A j \in DOMAIN buffer[b] :
            buffer'[b][j].list = IF j = k THEN vector ELSE buffer[b][j].list
  <2>1. PICK place : place = me.place
    OBVIOUS
  <2>2. /\ InItem(place, kind, "dbs") /\ b = place.data /\ k = place.index
        /\ IsItem(b, k) /\ SetVector(place, vector)
    BY <1>3, <1>4, <1>6, <1>7, <1>12, <1>14, <2>1
  <2>3. /\ kind \in Kind /\ TypedBy(kind) /\ b \in Of(kind, "dbs")
        /\ vector \in [data : Of(kind, "tables"), size : Int, capacity : Nat]
    OBVIOUS
  <2> QED BY ONLY <2>2, <2>3, ListWritten
<1>16. D' = D
  BY <1>9, <1>15 DEF D
<1>17. ASSUME NEW j \in 1 .. D.size, NEW v, v = ListOf(Idle, j)'
       PROVE  Bare(v.data, v.size + Ahead(j))'
  <2>1. v = ListOf(me, j)
    <3>1. v = buffer'[b][j].list
      BY <1>6, <1>16, <1>17 DEF ListOf, Array, Idle
    <3> QED BY <1>12, <1>13, <1>15, <1>17, <3>1 DEF IsItem
  <2>2. /\ me = (IF Special(thread[t]) THEN thread[t] ELSE Idle)
        /\ ~ Uncounted(thread[t]) /\ ~ Uncounted(new)
        /\ thread[t].op \in {"create", "drop", "table"}
    BY <1>1, <1>2, <1>10 DEF Uncounted
  <2>3. v.data \in Of(kind, "tables")
    BY <1>7, <1>17, <2>1, <2>2, BareNow
  <2>4. buffer'[v.data] = buffer[v.data]
    BY <1>15, <2>3
  <2> QED BY <1>7, <1>9, <1>17, <2>1, <2>2, <2>4, BareStays
<1>18. PICK you : you = (IF Special(new) THEN new ELSE Idle)
  OBVIOUS
<1>19. \A j \in 1 .. D'.size : \A v : v = ListOf(you, j)' => Bare(v.data, v.size + Ahead(j))'
  <2>1. you = Idle
    BY <1>10, <1>18 DEF Special
  <2> QED BY <1>16, <1>17, <2>1
<1>20. /\ NewBare(new)' /\ new.op # "insert" /\ acked'.rows = acked.rows
       /\ thread[t].op = "table" /\ Pending(thread[t]) /\ new.item = thread[t].item
  BY <1>1, <1>2, <1>9, <1>10 DEF NewBare, Pending
<1>21. thread[t].op \in {"create", "drop", "table"}
  BY <1>1, <1>2
<1> QED BY <1>9, <1>15, <1>18, <1>19, <1>20, <1>21, RowsList

\* The table that was ahead is counted.
LEMMA TableAddSizeKeepsRows ==
  ASSUME NEW kind \in Kind, TypedBy(kind), RestTyped', DbsInv, TablesInv, RowsInv, OneInserts',
         NEW t \in Thread, AddSize(t), thread[t].op = "table"
  PROVE  RowsInv'
<1>1. PICK me \in ThreadT : me = thread[t] /\ Placed(me, kind) /\ Knows(me)
  BY DEF TypedBy, ThreadsTyped, TablesInv
<1>2. me.pc = "size" /\ me.op = "table" /\ ~ Special(me)
  BY <1>1 DEF AddSize, At, Special
<1>3. PICK k : k = me.place.index
  OBVIOUS
<1>4. TableAt(me) /\ InItem(me.place, kind, "dbs")
  BY <1>1, <1>2 DEF Knows, Placed, Searching, Appending, Filling
<1>5. PICK v \in [data : Of(kind, "tables"), size : Int, capacity : Nat] :
        v = ListOf(me, k) /\ Whole(v) /\ v = buffer[D.data][k].list
  BY <1>1, <1>2, <1>3, TableList DEF Searching, Appending, Filling
<1>6. PICK b \in Of(kind, "dbs") : b = D.data /\ b = me.place.data
  BY <1>1, <1>2, TableList DEF Searching, Appending, Filling
<1>7. Vectors /\ k \in 1 .. D.size
  BY <1>2, <1>3, <1>4 DEF TableAt, Searching, Appending, Filling
<1>8. PICK m \in Nat : m = v.size
  BY <1>5 DEF Whole
<1>9. PICK vector : vector = [v EXCEPT !.size = m + 1]
  OBVIOUS
<1>10. /\ vector \in [data : Of(kind, "tables"), size : Int, capacity : Nat]
       /\ vector.data = v.data /\ vector.size = m + 1
  BY <1>9
<1>11. \A j \in 1 .. D.size : IsItem(b, j)
  BY <1>1, <1>2, <1>6, <1>7, TablesNow
<1>12. /\ thread' = [thread EXCEPT ![t] = Idle]
       /\ UNCHANGED <<g_srDbCtrlManager, g_dbGenNum>>
       /\ SetVector(me.place, vector)
  <2>1. Vector(t) = v
    BY <1>1, <1>3, <1>4, <1>5, <1>6, VectorTyped DEF Vector
  <2> QED BY <1>1, <1>8, <1>9, <2>1 DEF AddSize, Answers
<1>13. acked'.rows = acked.rows
  BY DEF AddSize, TypedBy, RestTyped
<1>14. /\ UNCHANGED dbCtrlList
       /\ \A c \in Of(kind, "tables") : buffer'[c] = buffer[c]
       /\ \A c \in Buffer : BufferTyped(c, kind)'
       /\ \A j \in DOMAIN buffer[b] :
            buffer'[b][j].list = IF j = k THEN vector ELSE buffer[b][j].list
  <2>1. PICK place : place = me.place
    OBVIOUS
  <2>2. /\ InItem(place, kind, "dbs") /\ b = place.data /\ k = place.index
        /\ IsItem(b, k) /\ SetVector(place, vector)
    BY <1>3, <1>4, <1>6, <1>7, <1>11, <1>12, <2>1
  <2>3. /\ kind \in Kind /\ TypedBy(kind) /\ b \in Of(kind, "dbs")
        /\ vector \in [data : Of(kind, "tables"), size : Int, capacity : Nat]
    BY <1>10
  <2> QED BY ONLY <2>2, <2>3, ListWritten
<1>15. D' = D
  BY <1>12, <1>14 DEF D
<1>16. PICK idle : /\ idle = Idle
                   /\ idle = (IF Special(thread[t]) THEN thread[t] ELSE Idle)
  BY <1>1, <1>2
<1>17. \A j : ListOf(idle, j) = buffer[b][j].list
  BY <1>6, <1>16 DEF ListOf, Array, Idle
<1>18. thread[t].op \in {"create", "drop", "table"} /\ ~ Uncounted(Idle)
  BY <1>1, <1>2, IdleBare
<1>19. ASSUME NEW j \in 1 .. D.size, j # k, NEW w, w = ListOf(Idle, j)'
       PROVE  Bare(w.data, w.size + Ahead(j))'
  <2>1. w = ListOf(idle, j)
    <3>1. w = buffer'[b][j].list
      BY <1>6, <1>15, <1>19 DEF ListOf, Array, Idle
    <3> QED BY <1>11, <1>14, <1>17, <1>19, <3>1 DEF IsItem
  <2>2. w.data \in Of(kind, "tables")
    BY <1>7, <1>16, <1>18, <1>19, <2>1, BareNow
  <2>3. buffer'[w.data] = buffer[w.data]
    BY <1>14, <2>2
  <2>4. Uncounted(thread[t]) => thread[t].place.index # j
    BY <1>1, <1>3, <1>19
  <2> QED BY <1>7, <1>12, <1>16, <1>18, <1>19, <2>1, <2>3, <2>4, BareStays
<1>20. ASSUME NEW w, w = ListOf(Idle, k)'
       PROVE  Bare(w.data, w.size + Ahead(k))'
  <2>1. w = vector
    <3>1. w = buffer'[b][k].list
      BY <1>6, <1>15, <1>20 DEF ListOf, Array, Idle
    <3> QED BY <1>7, <1>11, <1>14, <3>1 DEF IsItem
  <2>2. Ahead(k) = 1
    BY <1>1, <1>2, <1>3 DEF Ahead
  <2>3. PICK n \in Nat : n = m + 1
    OBVIOUS
  <2>4. Bare(v.data, n)
    <3>1. v = ListOf(idle, k)
      BY <1>5, <1>6, <1>17
    <3> QED BY <1>7, <1>8, <1>16, <1>18, <2>2, <2>3, <3>1, BareNow
  <2>5. PICK a \in {0, 1} : a = Ahead(k)'
    BY DEF Ahead
  <2>6. PICK c \in Of(kind, "tables") : c = v.data
    OBVIOUS
  <2>7. PICK h \in Nat : h = n + a
    BY <2>5
  <2>8. Bare(c, h)
    <3>1. n <= h
      BY <2>5, <2>7
    <3>2. IsArray(c) /\ Bare(c, n)
      BY <1>5, <2>4, <2>6 DEF Whole
    <3> QED BY <3>1, <3>2, BareMore
  <2>9. Bare(c, h)'
    BY <1>14, <2>8, BareSame
  <2> QED BY <1>10, <2>1, <2>3, <2>5, <2>6, <2>7, <2>9
<1>21. PICK you : you = (IF Special(Idle) THEN Idle ELSE Idle)
  OBVIOUS
<1>22. \A j \in 1 .. D'.size : \A w : w = ListOf(you, j)' => Bare(w.data, w.size + Ahead(j))'
  <2>1. you = Idle
    BY <1>21
  <2> QED BY <1>15, <1>19, <1>20, <2>1
<1>23. NewBare(Idle)' /\ Idle.op # "insert" /\ Idle.op # "table"
  BY IdleBare
<1> QED BY <1>12, <1>13, <1>14, <1>18, <1>21, <1>22, <1>23, RowsList

-----------------------------------------------------------------------------
(* Writes to what the tables lie in.                                       *)

LEMMA SlotWritten ==
  ASSUME NEW kind \in Kind, TypedBy(kind), NEW c \in Of(kind, "tables"), IsArray(c),
         NEW slot \in DOMAIN buffer[c], NEW x \in LabelItem,
         buffer' = [buffer EXCEPT ![c] = [buffer[c] EXCEPT ![slot] = x]]
  PROVE  /\ buffer'[c][slot] = x
         /\ \A b \in Buffer : \A i \in Nat :
              IsItem(b, i) /\ ~ (b = c /\ i = slot) => buffer'[b][i] = buffer[b][i]
         /\ \A b \in Buffer : \A i \in Nat : IsTable(b, i)' =>
              \/ b = c /\ i = slot
              \/ IsTable(b, i) /\ buffer'[b][i] = buffer[b][i]
         /\ \A b \in Of(kind, "tables") : \A n \in Int :
              Bare(b, n) /\ (b = c => slot <= n) => Bare(b, n)'
<1>1. /\ buffer'[c][slot] = x /\ DOMAIN buffer'[c] = DOMAIN buffer[c]
      /\ \A j \in DOMAIN buffer[c] : j # slot => buffer'[c][j] = buffer[c][j]
      /\ \A b \in Buffer : b # c => buffer'[b] = buffer[b]
  BY DEF TypedBy, Of
<1>2. ASSUME NEW b \in Buffer, NEW i \in Nat, IsTable(b, i)', ~ (b = c /\ i = slot)
      PROVE  IsTable(b, i) /\ buffer'[b][i] = buffer[b][i]
  <2>1. CASE b = c
    <3>1. i \in DOMAIN buffer[c] /\ i # slot /\ buffer'[c][i] = buffer[c][i]
      BY <1>1, <1>2, <2>1 DEF IsTable, IsItem
    <3> QED BY <1>2, <2>1, <3>1 DEF IsTable, IsItem
  <2>2. CASE b # c
    BY <1>1, <1>2, <2>2 DEF IsTable, IsItem, IsArray
  <2> QED BY <2>1, <2>2
<1>3. ASSUME NEW b \in Buffer, NEW i \in Nat, IsItem(b, i), ~ (b = c /\ i = slot)
      PROVE  buffer'[b][i] = buffer[b][i]
  BY <1>1, <1>3 DEF IsItem
<1>4. ASSUME NEW b \in Of(kind, "tables"), NEW n \in Int, Bare(b, n), b = c => slot <= n
      PROVE  Bare(b, n)'
  <2>1. CASE b = c
    <3>1. ASSUME NEW j \in DOMAIN buffer'[c], j > n PROVE buffer'[c][j] = Garbage
      <4>1. j \in DOMAIN buffer[c] /\ buffer[c][j] = Garbage
        BY <1>1, <1>4, <2>1, <3>1 DEF Bare
      <4>2. j # slot
        <5>1. PICK k \in {"dbs", "tables"} : k = "tables"
          OBVIOUS
        <5>2. c \in Of(kind, k)
          BY <5>1
        <5>3. DOMAIN buffer[c] = 1 .. Len(buffer[c])
          BY <5>2, ArrayAt
        <5>4. slot \in Int
          BY <5>3
        <5> QED BY <1>4, <2>1, <3>1, <5>4
      <4> QED BY <1>1, <4>1, <4>2
    <3> QED BY <2>1, <3>1 DEF Bare
  <2>2. CASE b # c
    BY <1>1, <1>4, <2>2 DEF Bare, Of
  <2> QED BY <2>1, <2>2
<1> QED BY <1>1, <1>2, <1>3, <1>4

\* A table with a new id, and no rows yet.
LEMMA CountedOneMore ==
  ASSUME Counted, NEW c, NEW slot, NEW x, x.id < g_dbGenNum, x.rowCnt = 0,
         acked.rows[x.id] = 0,
         \A b \in Buffer : \A i \in Nat : IsTable(b, i) => buffer[b][i].id # x.id,
         UNCHANGED g_dbGenNum, acked'.rows = acked.rows, buffer'[c][slot] = x,
         \A b \in Buffer : \A i \in Nat : IsTable(b, i)' =>
           \/ b = c /\ i = slot
           \/ IsTable(b, i) /\ buffer'[b][i] = buffer[b][i]
  PROVE  Counted'
<1> SUFFICES ASSUME NEW b \in Buffer, NEW i \in Nat, IsTable(b, i)'
             PROVE  /\ buffer'[b][i].id < g_dbGenNum'
                    /\ buffer'[b][i].rowCnt = acked'.rows[buffer'[b][i].id]
                    /\ \A d \in Buffer : \A j \in Nat :
                         IsTable(d, j)' /\ buffer'[d][j].id = buffer'[b][i].id
                           => b = d /\ i = j
  BY DEF Counted
<1>1. CASE b = c /\ i = slot
  <2>1. ASSUME NEW d \in Buffer, NEW j \in Nat, IsTable(d, j)', buffer'[d][j].id = x.id
        PROVE  b = d /\ i = j
    BY <1>1, <2>1
  <2> QED BY <1>1, <2>1
<1>2. CASE ~ (b = c /\ i = slot)
  <2>1. IsTable(b, i) /\ buffer'[b][i] = buffer[b][i]
    BY <1>2
  <2>2. /\ buffer[b][i].id < g_dbGenNum /\ buffer[b][i].id # x.id
        /\ buffer[b][i].rowCnt = acked.rows[buffer[b][i].id]
        /\ \A d \in Buffer : \A j \in Nat :
             IsTable(d, j) /\ buffer[d][j].id = buffer[b][i].id => b = d /\ i = j
    BY <2>1 DEF Counted
  <2>3. ASSUME NEW d \in Buffer, NEW j \in Nat, IsTable(d, j)',
               buffer'[d][j].id = buffer'[b][i].id
        PROVE  b = d /\ i = j
    BY <2>1, <2>2, <2>3
  <2> QED BY <2>1, <2>2, <2>3
<1> QED BY <1>1, <1>2

\* What the others know stays when a table is written where there was none.
LEMMA OneMoreForOthers ==
  ASSUME NEW kind \in Kind, TypedBy(kind), NEW c \in Of(kind, "tables"), NEW slot, NEW x,
         buffer[c][slot] = Garbage, UNCHANGED g_dbGenNum, acked'.rows = acked.rows,
         buffer'[c][slot] = x,
         \A b \in Buffer : \A i \in Nat :
           IsItem(b, i) /\ ~ (b = c /\ i = slot) => buffer'[b][i] = buffer[b][i],
         \A b \in Buffer : \A i \in Nat : IsTable(b, i)' =>
           \/ b = c /\ i = slot
           \/ IsTable(b, i) /\ buffer'[b][i] = buffer[b][i],
         \A b \in Buffer : b # c => buffer'[b] = buffer[b],
         NEW you, Placed(you, kind), Knows(you), Born(you), Inserting(you), NewBare(you),
         Pending(you) => you.item.id # x.id,
         you.op = "create" /\ you.pc \in {"store"} \cup Filling => you.item.list.data # c
  PROVE  Born(you)' /\ Inserting(you)' /\ NewBare(you)'
<1>1. Born(you)'
  <2>1. ASSUME Pending(you), NEW b \in Buffer, NEW i \in Nat, IsTable(b, i)'
        PROVE  buffer'[b][i].id # you.item.id
    BY <2>1 DEF Born
  <2> QED BY <2>1 DEF Born, Pending
<1>2. Inserting(you)'
  <2> SUFFICES ASSUME you.op = "insert", you.pc \in {"row", "count"} PROVE Inserting(you)'
    BY DEF Inserting
  <2>1. PICK d \in Buffer : d = you.place.data
    BY DEF Placed, InItem, Of
  <2>2. PICK i \in Nat : i = you.place.index
    BY DEF Placed, InItem
  <2>3. IsItem(d, i)
    BY <2>1, <2>2 DEF Knows, RowAt
  <2>4. buffer'[d][i] = buffer[d][i]
    <3>1. ~ (d = c /\ i = slot)
      BY <2>3 DEF IsItem
    <3> QED BY <2>3, <3>1
  <2> QED BY <2>1, <2>2, <2>4 DEF Inserting
<1>3. NewBare(you)'
  <2> SUFFICES ASSUME you.op = "create", you.pc \in {"store"} \cup Filling
               PROVE  Bare(you.item.list.data, 0)'
    BY DEF NewBare
  <2>1. you.item.list.data \in Buffer /\ you.item.list.data # c
    BY DEF Placed, ItemT, DbT, Of
  <2>2. buffer'[you.item.list.data] = buffer[you.item.list.data]
    BY <2>1
  <2> QED BY <2>2 DEF NewBare, Bare
<1> QED BY <1>1, <1>2, <1>3

LEMMA TableCopyItemKeepsRows ==
  ASSUME NEW kind \in Kind, TypedBy(kind), RestTyped', DbsInv, TablesInv, RowsInv, OneInserts',
         NEW t \in Thread, CopyItem(t), thread[t].op = "table"
  PROVE  RowsInv'
<1>1. PICK me \in ThreadT : me = thread[t] /\ Placed(me, kind) /\ Knows(me) /\ Born(me)
  BY DEF TypedBy, ThreadsTyped, TablesInv, RowsInv
<1>2. me.pc = "copy" /\ me.op = "table" /\ ~ Special(me) /\ Pending(me)
  BY <1>1 DEF CopyItem, At, Special, Pending
<1>3. PICK k : k = me.place.index
  OBVIOUS
<1>4. TableAt(me) /\ InItem(me.place, kind, "dbs") /\ me.item \in LabelItem
  BY <1>1, <1>2 DEF Knows, Placed, Searching, Appending, Filling, ItemT
<1>5. PICK v \in [data : Of(kind, "tables"), size : Int, capacity : Nat] :
        v = ListOf(me, k) /\ Whole(v) /\ v = buffer[D.data][k].list
  BY <1>1, <1>2, <1>3, TableList DEF Searching, Appending, Filling
<1>6. PICK b \in Of(kind, "dbs") : b = D.data /\ b = me.place.data
  BY <1>1, <1>2, TableList DEF Searching, Appending, Filling
<1>7. Vectors /\ k \in 1 .. D.size
  BY <1>2, <1>3, <1>4 DEF TableAt, Searching, Appending, Filling
<1>8. PICK new : new = [me EXCEPT !.pc = "size"]
  OBVIOUS
<1>9. PICK slot : slot = v.size + 1
  OBVIOUS
<1>10. PICK c \in Of(kind, "tables") : c = v.data /\ c \in Buffer
  BY DEF Of
<1>11. PICK x \in LabelItem : x = me.item
  BY <1>4
<1>12. /\ thread' = [thread EXCEPT ![t] = new]
       /\ UNCHANGED <<g_srDbCtrlManager, dbCtrlList, acked, g_dbGenNum>>
       /\ IsArray(c) /\ slot \in DOMAIN buffer[c]
       /\ buffer' = [buffer EXCEPT ![c] = [buffer[c] EXCEPT ![slot] = x]]
  <2>1. Vector(t) = v
    BY <1>1, <1>3, <1>4, <1>5, <1>6, VectorTyped DEF Vector
  <2> QED BY <1>1, <1>8, <1>9, <1>10, <1>11, <2>1 DEF CopyItem, Goes, IsSlot
<1>13. new.op = "table" /\ new.pc = "size" /\ new.item = me.item /\ new.place = me.place
  BY <1>2, <1>8 DEF ThreadT
<1>14. /\ buffer'[c][slot] = x
       /\ \A d \in Buffer : \A i \in Nat :
            IsItem(d, i) /\ ~ (d = c /\ i = slot) => buffer'[d][i] = buffer[d][i]
       /\ \A d \in Buffer : \A i \in Nat : IsTable(d, i)' =>
            \/ d = c /\ i = slot
            \/ IsTable(d, i) /\ buffer'[d][i] = buffer[d][i]
       /\ \A d \in Of(kind, "tables") : \A n \in Int :
            Bare(d, n) /\ (d = c => slot <= n) => Bare(d, n)'
  BY <1>12, SlotWritten
<1>15. \A d \in Buffer : d # c => buffer'[d] = buffer[d]
  BY <1>12 DEF TypedBy
<1>16. PICK idle : idle = Idle /\ idle = (IF Special(thread[t]) THEN thread[t] ELSE Idle)
  BY <1>1, <1>2
<1>17. \A j : ListOf(idle, j) = buffer[b][j].list
  BY <1>6, <1>16 DEF ListOf, Array, Idle
<1>18. thread[t].op \in {"create", "drop", "table"} /\ ~ Uncounted(thread[t]) /\ Uncounted(new)
  BY <1>1, <1>2, <1>13 DEF Uncounted
<1>19. v.size \in Nat /\ slot \in Nat
  <2>1. v.size \in Nat
    BY <1>5 DEF Whole
  <2> QED BY <1>9, <2>1
<1>20. Ahead(k) = 0
  <2>1. ASSUME NEW u \in Thread, Uncounted(thread[u]), thread[u].place.index = k
        PROVE  FALSE
    <3>1. thread[t].pc \in Appending
      BY <1>1, <1>2 DEF Searching, Appending, Filling
    <3>2. u = t
      BY <1>1, <1>2, <1>3, <2>1, <3>1, AheadOnly
    <3> QED BY <1>18, <2>1, <3>2
  <2> QED BY <2>1 DEF Ahead, Uncounted
<1>21. Bare(c, v.size)
  <2>1. ListOf(idle, k) = v
    BY <1>5, <1>6, <1>17
  <2>2. Bare(ListOf(idle, k).data, ListOf(idle, k).size + Ahead(k))
    BY <1>7, <1>16, <1>18, BareNow
  <2> QED BY <1>10, <1>19, <1>20, <2>1, <2>2
<1>22. buffer[c][slot] = Garbage
  BY <1>9, <1>12, <1>19, <1>21 DEF Bare
<1>23. /\ x.id < g_dbGenNum /\ x.rowCnt = 0 /\ acked.rows[x.id] = 0
       /\ \A d \in Buffer : \A i \in Nat : IsTable(d, i) => buffer[d][i].id # x.id
  BY <1>1, <1>2, <1>11 DEF Born, Pending
<1>24. acked'.rows = acked.rows /\ g_dbGenNum' = g_dbGenNum
  BY <1>12
<1>25. Counted'
  <2>1. Counted
    BY DEF RowsInv
  <2> QED BY <1>14, <1>23, <1>24, <2>1, CountedOneMore
<1>26. Unborn'
  BY <1>24 DEF RowsInv, Unborn
<1>27. thread \in [Thread -> ThreadT]
  BY DEF TypedBy, ThreadsTyped
<1>28. BornApart'
  <2>1. ~ Pending(new)
    BY <1>13 DEF Pending
  <2> QED BY <1>12, <1>27, <2>1 DEF RowsInv, BornApart
<1>29. ASSUME NEW u \in Thread
       PROVE  Born(thread[u])' /\ Inserting(thread[u])' /\ NewBare(thread[u])'
  <2>1. CASE u = t
    <3>1. new = thread'[u]
      BY <1>12, <1>27, <2>1
    <3>2. Born(new)' /\ Inserting(new)' /\ NewBare(new)'
      BY <1>13 DEF Born, Pending, Inserting, NewBare
    <3> QED BY <3>1, <3>2
  <2>2. CASE u # t
    <3>1. PICK you \in ThreadT : you = thread[u]
      BY <1>27
    <3>2. /\ you = thread'[u] /\ Placed(you, kind) /\ Knows(you)
          /\ Born(you) /\ Inserting(you) /\ NewBare(you)
      BY <1>12, <1>27, <2>2, <3>1 DEF TypedBy, ThreadsTyped, TablesInv, RowsInv
    <3>3. Pending(you) => you.item.id # x.id
      BY <1>1, <1>2, <1>11, <2>2, <3>1 DEF RowsInv, BornApart
    <3>4. ASSUME you.op = "create", you.pc \in {"store"} \cup Filling
          PROVE  you.item.list.data # c
      <4>1. you.pc # "setData"
        BY <1>1, <1>2, <2>2, <3>1, NobodyElse DEF Special
      <4>2. ListOf(you, k) = v
        BY <1>5, <3>4, <4>1 DEF ListOf, Array
      <4>3. ListOf(you, k).data # you.item.list.data
        BY <1>7, <3>2, <3>4 DEF Knows, NewDb
      <4> QED BY <1>10, <4>2, <4>3
    <3>5. Born(you)' /\ Inserting(you)' /\ NewBare(you)'
      BY <1>14, <1>15, <1>22, <1>24, <3>2, <3>3, <3>4, OneMoreForOthers
    <3> QED BY <3>2, <3>5
  <2> QED BY <2>1, <2>2
<1>30. D' = D
  BY <1>12 DEF D
<1>31. \A j \in 1 .. D.size : ListOf(idle, j)' = buffer[b][j].list
  <2> TAKE j \in 1 .. D.size
  <2>1. buffer'[b] = buffer[b]
    BY <1>15 DEF Of
  <2>2. idle.op = "none"
    BY <1>16, IdleBare
  <2>3. Array(idle)' = b
    BY <1>6, <1>30, <2>2 DEF Array
  <2> QED BY <2>1, <2>2, <2>3 DEF ListOf
<1>32. ASSUME NEW j \in 1 .. D.size, j # k, NEW w, w = ListOf(idle, j)'
       PROVE  Bare(w.data, w.size + Ahead(j))'
  <2>1. w = ListOf(idle, j)
    BY <1>17, <1>31, <1>32
  <2>2. w.data \in Of(kind, "tables")
    BY <1>7, <1>16, <1>18, <1>32, <2>1, BareNow
  <2>3. w.data # c
    <3>1. PICK list : list = Lists(Idle)
      OBVIOUS
    <3>2. /\ TablesIn(b, 0, list) /\ (1 .. D.size) \ {0} = 1 .. D.size
          /\ \A i \in 1 .. D.size : list[i] = buffer[b][i].list
      BY <1>1, <1>2, <1>6, <1>7, <3>1, TablesNow
    <3>3. list[j] = w /\ list[k] = v
      BY <1>5, <1>6, <1>7, <1>17, <1>32, <2>1, <3>2
    <3> QED BY <1>7, <1>10, <1>32, <3>2, <3>3 DEF TablesIn
  <2>4. buffer'[w.data] = buffer[w.data]
    BY <1>15, <2>2, <2>3 DEF Of
  <2>5. Uncounted(new) => new.place.index # j
    BY <1>3, <1>13, <1>32
  <2> QED BY <1>7, <1>12, <1>16, <1>18, <1>32, <2>1, <2>4, <2>5, BareStays
<1>33. ASSUME NEW w, w = ListOf(idle, k)'
       PROVE  Bare(w.data, w.size + Ahead(k))'
  <2>1. w = v
    BY <1>5, <1>6, <1>7, <1>31, <1>33
  <2>2. Ahead(k)' = 1
    <3>1. thread'[t] = new
      BY <1>12, <1>27
    <3> QED BY <1>3, <1>13, <3>1 DEF Ahead
  <2>3. Bare(c, slot)
    <3>1. v.size <= slot /\ v.size \in Int /\ slot \in Int
      BY <1>9, <1>19
    <3> QED BY <1>12, <1>21, <3>1, BareMore
  <2>4. Bare(c, slot)'
    BY <1>14, <1>19, <2>3
  <2> QED BY <1>9, <1>10, <2>1, <2>2, <2>4
<1>34. BareLists'
  <2>1. PICK you : you = (IF Special(new) THEN new ELSE Idle) /\ you = idle
    BY <1>13, <1>16 DEF Special
  <2>2. \A j \in 1 .. D'.size : \A w : w = ListOf(you, j)' => Bare(w.data, w.size + Ahead(j))'
    BY <1>30, <1>32, <1>33, <2>1
  <2> QED BY <1>12, <1>18, <2>1, <2>2, BareStep
<1> QED BY <1>25, <1>26, <1>28, <1>29, <1>34 DEF RowsInv

\* One table counts a row more, and so do the insertions that were answered.
LEMMA CountedAgain ==
  ASSUME Counted, NEW c \in Buffer, NEW slot \in Nat, IsTable(c, slot), NEW x,
         x.id = buffer[c][slot].id, x.rowCnt = buffer[c][slot].rowCnt + 1,
         UNCHANGED g_dbGenNum, buffer'[c][slot] = x,
         acked'.rows[x.id] = acked.rows[x.id] + 1,
         \A b \in Buffer : \A i \in Nat : IsTable(b, i) /\ buffer[b][i].id # x.id =>
           acked'.rows[buffer[b][i].id] = acked.rows[buffer[b][i].id],
         \A b \in Buffer : \A i \in Nat : IsTable(b, i)' =>
           \/ b = c /\ i = slot
           \/ IsTable(b, i) /\ buffer'[b][i] = buffer[b][i]
  PROVE  Counted'
<1>1. /\ x.id < g_dbGenNum /\ buffer[c][slot].rowCnt = acked.rows[x.id]
      /\ \A b \in Buffer : \A i \in Nat :
           IsTable(b, i) /\ buffer[b][i].id = x.id => b = c /\ i = slot
  BY DEF Counted
<1>2. x.rowCnt = acked'.rows[x.id]
  BY <1>1
<1> SUFFICES ASSUME NEW b \in Buffer, NEW i \in Nat, IsTable(b, i)'
             PROVE  /\ buffer'[b][i].id < g_dbGenNum'
                    /\ buffer'[b][i].rowCnt = acked'.rows[buffer'[b][i].id]
                    /\ \A d \in Buffer : \A j \in Nat :
                         IsTable(d, j)' /\ buffer'[d][j].id = buffer'[b][i].id
                           => b = d /\ i = j
  BY DEF Counted
<1>3. CASE b = c /\ i = slot
  <2>1. ASSUME NEW d \in Buffer, NEW j \in Nat, IsTable(d, j)', buffer'[d][j].id = x.id
        PROVE  b = d /\ i = j
    BY <1>1, <1>3, <2>1
  <2> QED BY <1>1, <1>2, <1>3, <2>1
<1>4. CASE ~ (b = c /\ i = slot)
  <2>1. IsTable(b, i) /\ buffer'[b][i] = buffer[b][i] /\ buffer[b][i].id # x.id
    BY <1>1, <1>4
  <2>2. /\ buffer[b][i].id < g_dbGenNum
        /\ buffer[b][i].rowCnt = acked.rows[buffer[b][i].id]
        /\ \A d \in Buffer : \A j \in Nat :
             IsTable(d, j) /\ buffer[d][j].id = buffer[b][i].id => b = d /\ i = j
    BY <2>1 DEF Counted
  <2>3. ASSUME NEW d \in Buffer, NEW j \in Nat, IsTable(d, j)',
               buffer'[d][j].id = buffer'[b][i].id
        PROVE  b = d /\ i = j
    BY <2>1, <2>2, <2>3
  <2>4. acked'.rows[buffer[b][i].id] = acked.rows[buffer[b][i].id]
    BY <2>1
  <2> QED BY <2>1, <2>2, <2>3, <2>4
<1> QED BY <1>3, <1>4

LEMMA WriteRowCntKeepsRows ==
  ASSUME NEW kind \in Kind, TypedBy(kind), RestTyped', DbsInv, TablesInv, RowsInv, OneInserts',
         NEW t \in Thread, WriteRowCnt(t)
  PROVE  RowsInv'
<1>1. PICK me \in ThreadT : me = thread[t] /\ Placed(me, kind) /\ Inserting(me)
  BY DEF TypedBy, ThreadsTyped, RowsInv
<1>2. /\ me.pc = "count" /\ me.op = "insert" /\ IsItem(me.place.data, me.place.index)
      /\ InItem(me.place, kind, "tables")
  BY <1>1 DEF WriteRowCnt, At, Placed
<1>3. PICK d \in Of(kind, "tables") : d = me.place.data /\ d \in Buffer
  BY <1>2 DEF InItem, Of
<1>4. PICK i \in Nat : i = me.place.index
  BY <1>2 DEF InItem
<1>5. IsItem(d, i) /\ i \in DOMAIN buffer[d] /\ IsArray(d) /\ IsTable(d, i)
  <2>1. IsItem(d, i)
    BY <1>2, <1>3, <1>4
  <2>2. IsTable(d, i)
    BY <1>3, <2>1, TableIs
  <2> QED BY <2>1, <2>2 DEF IsItem
<1>6. PICK old \in LabelItem : old = buffer[d][i]
  BY <1>5 DEF IsTable
<1>7. old.id = me.labelId /\ me.num = old.rowCnt /\ old.rowCnt \in Nat /\ old.id \in Id
  BY <1>1, <1>2, <1>3, <1>4, <1>6 DEF Inserting, LabelItem
<1>8. PICK x : x = [old EXCEPT !.rowCnt = old.rowCnt + 1]
  OBVIOUS
<1>9. x \in LabelItem /\ x.id = old.id /\ x.rowCnt = old.rowCnt + 1
  BY <1>7, <1>8 DEF LabelItem
<1>10. PICK rows : rows = [acked.rows EXCEPT ![old.id] = @ + 1]
  OBVIOUS
<1>11. /\ buffer' = [buffer EXCEPT ![d] = [buffer[d] EXCEPT ![i] = x]]
       /\ thread' = [thread EXCEPT ![t] = Idle]
       /\ UNCHANGED <<g_srDbCtrlManager, dbCtrlList, g_dbGenNum>>
       /\ acked' = [acked EXCEPT !.rows = rows]
  BY <1>1, <1>3, <1>4, <1>6, <1>7, <1>8, <1>10 DEF WriteRowCnt, Answers
<1>12. /\ acked'.rows[old.id] = acked.rows[old.id] + 1
       /\ \A id \in Id : id # old.id => acked'.rows[id] = acked.rows[id]
  <2>1. acked'.rows = rows /\ acked.rows \in [Id -> Nat]
    BY <1>11 DEF TypedBy, RestTyped
  <2> QED BY <1>7, <1>10, <2>1
<1>13. /\ buffer'[d][i] = x
       /\ \A b \in Buffer : \A j \in Nat :
            IsItem(b, j) /\ ~ (b = d /\ j = i) => buffer'[b][j] = buffer[b][j]
       /\ \A b \in Buffer : \A j \in Nat : IsTable(b, j)' =>
            \/ b = d /\ j = i
            \/ IsTable(b, j) /\ buffer'[b][j] = buffer[b][j]
       /\ \A b \in Of(kind, "tables") : \A n \in Int :
            Bare(b, n) /\ (b = d => i <= n) => Bare(b, n)'
  BY <1>5, <1>9, <1>11, SlotWritten
<1>14. \A b \in Buffer : b # d => buffer'[b] = buffer[b]
  BY <1>11 DEF TypedBy
<1>15. ASSUME NEW b \in Of(kind, "tables"), NEW n \in Int, Bare(b, n) PROVE Bare(b, n)'
  <2>1. b = d => i <= n
    BY <1>5, <1>15 DEF Bare, IsItem
  <2> QED BY <1>13, <1>15, <2>1
<1>16. thread \in [Thread -> ThreadT] /\ g_dbGenNum \in Nat
  BY SimpleRelThreadsAssumption DEF TypedBy, ThreadsTyped, RestTyped
<1>17. ASSUME NEW b \in Buffer, NEW j \in Nat, IsTable(b, j) PROVE buffer[b][j].id \in Id
  BY <1>17 DEF IsTable, LabelItem
<1>18. Counted
  BY DEF RowsInv
<1>19. Counted'
  <2>1. d \in Buffer /\ i \in Nat
    BY <1>3
  <2>2. Counted /\ IsTable(d, i)
    BY <1>5, <1>18
  <2>3. x.id = buffer[d][i].id /\ x.rowCnt = buffer[d][i].rowCnt + 1
    BY <1>6, <1>9
  <2>4. UNCHANGED g_dbGenNum /\ buffer'[d][i] = x
    BY <1>11, <1>13
  <2>5. acked'.rows[x.id] = acked.rows[x.id] + 1
    BY <1>9, <1>12
  <2>6. \A b \in Buffer : \A j \in Nat : IsTable(b, j) /\ buffer[b][j].id # x.id =>
          acked'.rows[buffer[b][j].id] = acked.rows[buffer[b][j].id]
    BY <1>9, <1>12, <1>17
  <2>7. \A b \in Buffer : \A j \in Nat : IsTable(b, j)' =>
          \/ b = d /\ j = i
          \/ IsTable(b, j) /\ buffer'[b][j] = buffer[b][j]
    BY <1>13
  <2> QED BY ONLY <2>1, <2>2, <2>3, <2>4, <2>5, <2>6, <2>7, CountedAgain
<1>20. old.id < g_dbGenNum
  BY <1>3, <1>5, <1>6, <1>18 DEF Counted
<1>21. Unborn'
  <2> SUFFICES ASSUME NEW id \in Id, id >= g_dbGenNum PROVE acked'.rows[id] = 0
    BY <1>11 DEF Unborn
  <2>1. id # old.id
    BY <1>16, <1>20 DEF Id
  <2> QED BY <1>12, <2>1 DEF RowsInv, Unborn
<1>22. BornApart'
  <2>1. ~ Pending(Idle)
    BY DEF Pending, Idle
  <2> QED BY <1>11, <1>16, <2>1 DEF RowsInv, BornApart
<1>23. ASSUME NEW u \in Thread
       PROVE  Born(thread[u])' /\ Inserting(thread[u])' /\ NewBare(thread[u])'
  <2>1. CASE u = t
    <3>1. Idle = thread'[u]
      BY <1>11, <1>16, <2>1
    <3>2. Born(Idle)' /\ Inserting(Idle)' /\ NewBare(Idle)'
      BY DEF Born, Pending, Inserting, NewBare, Idle
    <3> QED BY <3>1, <3>2
  <2>2. CASE u # t
    <3>1. PICK you \in ThreadT : you = thread[u]
      BY <1>16
    <3>2. /\ you = thread'[u] /\ Placed(you, kind) /\ Knows(you)
          /\ Born(you) /\ Inserting(you) /\ NewBare(you)
      BY <1>11, <1>16, <2>2, <3>1 DEF TypedBy, ThreadsTyped, TablesInv, RowsInv
    <3>3. Born(you)'
      <4>1. ASSUME Pending(you)
            PROVE  you.item.id \in Id /\ you.item.id # old.id
        <5>1. you.item \in LabelItem
          BY <3>2, <4>1 DEF Pending, Placed, Filling, ItemT
        <5>2. you.item.id # old.id
          BY <1>3, <1>5, <1>6, <3>2, <4>1 DEF Born
        <5> QED BY <5>1, <5>2 DEF LabelItem
      <4>2. ASSUME Pending(you), NEW b \in Buffer, NEW j \in Nat, IsTable(b, j)'
            PROVE  buffer'[b][j].id # you.item.id
        BY <1>9, <1>13, <3>2, <4>1, <4>2 DEF Born
      <4>3. Pending(you) => you.item.id < g_dbGenNum' /\ acked'.rows[you.item.id] = 0
        BY <1>11, <1>12, <3>2, <4>1 DEF Born
      <4> QED BY <3>2, <4>2, <4>3 DEF Born, Pending
    <3>4. Inserting(you)'
      <4> SUFFICES ASSUME you.op = "insert", you.pc \in {"row", "count"} PROVE Inserting(you)'
        BY DEF Inserting
      <4>1. PICK e \in Buffer : e = you.place.data
        BY <3>2 DEF Placed, InItem, Of
      <4>2. PICK j \in Nat : j = you.place.index
        BY <3>2 DEF Placed, InItem
      <4>3. IsItem(e, j) /\ buffer[e][j].id = you.labelId
        BY <3>2, <4>1, <4>2 DEF Knows, RowAt, Inserting
      <4>4. you.labelId # me.labelId
        BY <1>1, <1>2, <2>2, <3>1 DEF RowsInv, OneInserts
      <4>5. buffer'[e][j] = buffer[e][j]
        <5>1. ~ (e = d /\ j = i)
          BY <1>6, <1>7, <4>3, <4>4
        <5> QED BY <1>13, <4>3, <5>1
      <4> QED BY <3>2, <4>1, <4>2, <4>5 DEF Inserting
    <3>5. NewBare(you)'
      <4> SUFFICES ASSUME you.op = "create", you.pc \in {"store"} \cup Filling
                   PROVE  Bare(you.item.list.data, 0)'
        BY DEF NewBare
      <4>1. PICK b \in Of(kind, "tables") : b = you.item.list.data
        BY <3>2 DEF Placed, ItemT, DbT
      <4>2. Bare(b, 0)
        BY <3>2, <4>1 DEF NewBare
      <4>3. Bare(b, 0)'
        BY <1>15, <4>2
      <4> QED BY <4>1, <4>3
    <3> QED BY <3>2, <3>3, <3>4, <3>5
  <2> QED BY <2>1, <2>2
<1>24. BareLists'
  <2>1. \A b \in Of(kind, "dbs") : buffer'[b] = buffer[b]
    BY <1>14 DEF Of
  <2>2. /\ ~ Special(thread[t]) /\ ~ Uncounted(thread[t]) /\ thread[t].pc # "initVector"
        /\ ~ Special(Idle) /\ ~ Uncounted(Idle) /\ Idle.pc # "initVector"
    BY <1>1, <1>2 DEF Special, Uncounted, Idle
  <2>3. BareLists
    BY DEF RowsInv
  <2> QED BY <1>11, <1>15, <2>1, <2>2, <2>3, BareQuiet
<1> QED BY <1>19, <1>21, <1>22, <1>23, <1>24 DEF RowsInv

LEMMA StepKeepsRows ==
  ASSUME NEW kind \in Kind, TypedBy(kind), RestTyped', DbsInv, TablesInv, RowsInv,
         NEW t \in Thread, Step(t), "growth" \notin races', "lists" \notin races', "rows" \notin races'
  PROVE  RowsInv'
<1>1. OneInserts'
  BY OneInsertsKept DEF RowsInv
<1>2. CASE Request(t)
  BY <1>1, <1>2, SearchesKeepRows
<1>3. CASE Manage(t)
  BY <1>1, <1>3, SearchesKeepRows, PublishKeepsRows, InitVectorKeepsRows DEF Manage
<1>4. CASE Search(t)
  BY <1>1, <1>4, SearchesKeepRows, DropIsSureKeepsRows, RowIsForKeepsRows DEF Search
<1>5. CASE AppendItem(t)
  <2>1. thread[t].pc \in Appending => thread[t].op = "create" \/ thread[t].op = "table"
    BY DEF TypedBy, ThreadsTyped, Placed
  <2>2. CASE LoadGenNum(t) \/ StoreGenNum(t) \/ CheckCapacity(t) \/ Realloc(t)
    BY <1>1, <2>2, LoadGenNumKeepsRows, StoreGenNumKeepsRows, CheckCapacityKeepsRows,
       ReallocKeepsRows
  <2>3. CASE SetData(t)
    <3>1. thread[t].pc = "setData"
      BY <2>3 DEF SetData, At
    <3> QED BY <1>1, <2>1, <2>3, <3>1, CreateSetDataKeepsRows, TableSetDataKeepsRows
            DEF Searching, Appending, Filling
  <2>4. CASE CopyItem(t)
    <3>1. thread[t].pc = "copy"
      BY <2>4 DEF CopyItem, At
    <3> QED BY <1>1, <2>1, <2>4, <3>1, CreateCopyItemKeepsRows, TableCopyItemKeepsRows
            DEF Searching, Appending, Filling
  <2>5. CASE AddSize(t)
    <3>1. thread[t].pc = "size"
      BY <2>5 DEF AddSize, At
    <3> QED BY <1>1, <2>1, <2>5, <3>1, CreateAddSizeKeepsRows, TableAddSizeKeepsRows
            DEF Searching, Appending, Filling
  <2> QED BY <1>5, <2>2, <2>3, <2>4, <2>5 DEF AppendItem
<1>6. CASE Change(t)
  BY <1>1, <1>6, MoveItemKeepsRows, SubtractSizeKeepsRows, ReadRowCntKeepsRows,
     WriteRowCntKeepsRows DEF Change
<1>7. ~ Strays(t)
  BY NobodyGoesWild DEF Strays
<1> QED BY <1>2, <1>3, <1>4, <1>5, <1>6, <1>7 DEF Step

LEMMA RowsSame ==
  ASSUME RowsInv,
         UNCHANGED <<g_srDbCtrlManager, dbCtrlList, g_dbGenNum, buffer, thread, acked>>
  PROVE  RowsInv'
<1>1. Vectors' = Vectors /\ Standing' = Standing /\ D' = D
  BY DEF Vectors, Standing, D
<1>2. \A b, i : IsTable(b, i)' <=> IsTable(b, i)
  BY DEF IsTable, IsItem, IsArray
<1>3. Counted' /\ Unborn' /\ BornApart' /\ OneInserts'
  <2>1. Counted'
    <3>1. Counted
      BY DEF RowsInv
    <3> QED BY <1>2, <3>1 DEF Counted
  <2> QED BY <2>1 DEF RowsInv, Unborn, BornApart, OneInserts
<1>4. ASSUME NEW t \in Thread
      PROVE  Born(thread[t])' /\ Inserting(thread[t])' /\ NewBare(thread[t])'
  <2>1. PICK me : me = thread[t] /\ me = thread'[t]
    OBVIOUS
  <2>2. Born(me) /\ Inserting(me) /\ NewBare(me)
    BY <2>1 DEF RowsInv
  <2>3. Born(me)'
    BY <1>2, <2>2 DEF Born
  <2>4. Inserting(me)' /\ NewBare(me)'
    BY <2>2 DEF Inserting, NewBare, Bare
  <2> QED BY <2>1, <2>3, <2>4
<1>5. BareLists'
  <2> SUFFICES ASSUME Vectors, NEW me \in Standing PROVE BareIn(Lists(me))'
    BY <1>1 DEF BareLists
  <2>1. PICK list : list = Lists(me)
    OBVIOUS
  <2>2. BareIn(list)
    BY <2>1 DEF RowsInv, BareLists
  <2>3. \A k : ListOf(me, k)' = ListOf(me, k)
    BY <1>1 DEF ListOf, Array
  <2>4. Lists(me)' = list
    BY <1>1, <2>1, <2>3 DEF Lists
  <2>5. \A k : Ahead(k)' = Ahead(k)
    BY DEF Ahead
  <2>6. BareIn(list)'
    BY <1>1, <2>2, <2>5 DEF BareIn, Bare
  <2> QED BY <2>4, <2>6
<1> QED BY <1>3, <1>4, <1>5 DEF RowsInv

LEMMA RowsInvKept ==
  Typed /\ Typed' /\ DbsCalm /\ TablesCalm /\ RowsCalm /\ [Next]_vars => RowsCalm'
<1> SUFFICES ASSUME Typed, Typed', DbsCalm, TablesCalm, RowsCalm, [Next]_vars,
                    NoRace({"ids", "dbs", "tables", "growth", "lists", "rows"})'
             PROVE  RowsInv'
  BY DEF RowsCalm
<1>1. PICK kind \in Kind : TypedBy(kind)
  BY DEF Typed
<1>2. \A race \in {"ids", "dbs", "tables", "growth", "lists", "rows"} : race \notin races'
  BY DEF NoRace
<1>3. RestTyped'
  BY DEF Typed, TypedBy
<1>4. ASSUME NEW t \in Thread, Step(t) PROVE RowsInv'
  <2>1. races \subseteq races'
    BY <1>1, <1>4, OthersStay
  <2>2. DbsInv /\ TablesInv /\ RowsInv
    BY <1>2, <2>1 DEF DbsCalm, TablesCalm, RowsCalm, NoRace
  <2> QED BY <1>1, <1>2, <1>3, <1>4, <2>2, StepKeepsRows
<1>5. CASE UNCHANGED vars
  <2>1. UNCHANGED <<g_srDbCtrlManager, dbCtrlList, g_dbGenNum, buffer, thread, acked, races>>
    BY <1>5 DEF vars
  <2>2. RowsInv
    BY <1>2, <2>1 DEF RowsCalm, NoRace
  <2> QED BY <2>1, <2>2, RowsSame
<1> QED BY <1>4, <1>5 DEF Next, Step

LEMMA RowsKeptHere ==
  ASSUME NEW kind \in Kind, TypedBy(kind), DbsInv, TablesInv, RowsInv, ~ Changing
  PROVE  \A i \in DOMAIN Dbs : \A k \in DOMAIN Items(Dbs[i].list) :
           Items(Dbs[i].list)[k].rowCnt = acked.rows[Items(Dbs[i].list)[k].id]
<1>1. \A t \in Thread : ~ Special(thread[t])
  BY DEF Changing, Special
<1>2. PICK me \in Standing : me = Idle
  BY <1>1, StandingIs DEF TablesInv
<1>3. CASE ~ Vectors
  <2>1. g_srDbCtrlManager # NULL => D.size = 0
    <3> SUFFICES ASSUME g_srDbCtrlManager # NULL PROVE D.size = 0
      OBVIOUS
    <3>1. PICK t \in Thread : thread[t].pc = "initVector"
      BY <1>3 DEF Vectors
    <3>2. Maker(thread[t])
      BY <3>1 DEF TypedBy, ThreadsTyped, Placed, Maker
    <3> QED BY <3>1, <3>2 DEF DbsInv, Making
  <2>2. DOMAIN Dbs = {}
    BY <2>1 DEF Dbs, Items, D
  <2> QED BY <2>2
<1>4. CASE Vectors
  <2>1. PICK b \in Of(kind, "dbs") : b = D.data
    BY <1>2, <1>4, DbsAs DEF TablesInv, Array, Idle
  <2>2. Array(me) = b /\ Hole(me) = 0
    BY <1>2, <2>1 DEF Array, Hole, Idle
  <2>3. PICK list : list = Lists(me) /\ TablesIn(b, 0, list)
    BY <1>4, <2>2 DEF TablesInv, Tables, TablesAs
  <2>4. PICK n \in Nat : n = D.size /\ IsArray(b)
    <3>1. PICK room \in Int : DbsIn(b, room, 0)
      BY <1>4, <2>2, DbsAs DEF TablesInv
    <3> QED BY <3>1 DEF DbsIn
  <2>5. Dbs = [j \in 1 .. n |-> buffer[b][j]]
    BY <1>4, <2>1, <2>4 DEF Dbs, Items, D, Vectors
  <2> SUFFICES ASSUME NEW i \in DOMAIN Dbs, NEW k \in DOMAIN Items(Dbs[i].list)
               PROVE  Items(Dbs[i].list)[k].rowCnt = acked.rows[Items(Dbs[i].list)[k].id]
    OBVIOUS
  <2>6. i \in 1 .. n /\ Dbs[i] = buffer[b][i]
    BY <2>5
  <2>7. PICK v \in [data : Of(kind, "tables"), size : Int, capacity : Nat] :
          v = Lists(me)[i] /\ v = ListOf(me, i)
    BY <1>4, <2>4, <2>6, ListsTyped DEF TablesInv
  <2>8. Dbs[i].list = v
    BY <1>2, <2>2, <2>6, <2>7 DEF ListOf, Idle
  <2>9. Whole(v)
    <3>1. list[i] = v /\ i \in 1 .. D.size
      BY <2>3, <2>4, <2>6, <2>7
    <3> HIDE DEF D
    <3> QED BY <2>3, <3>1 DEF TablesIn
  <2>10. Items(v) = [j \in 1 .. v.size |-> buffer[v.data][j]]
    BY <2>9 DEF Items, Whole
  <2>11. k \in 1 .. v.size /\ Items(v)[k] = buffer[v.data][k]
    BY <2>8, <2>10
  <2>12. PICK c \in Of(kind, "tables") : c = v.data /\ c \in Buffer /\ k \in Nat
    BY <2>9, <2>11 DEF Of, Whole
  <2>13. IsItem(c, k)
    <3>1. PICK l \in {"dbs", "tables"} : l = "tables"
      OBVIOUS
    <3>2. c \in Of(kind, l)
      BY <3>1
    <3>3. DOMAIN buffer[c] = 1 .. Len(buffer[c]) /\ Len(buffer[c]) \in Nat
      BY <2>9, <2>12, <3>2, ArrayAt DEF Whole
    <3>4. k \in DOMAIN buffer[c]
      BY <2>9, <2>11, <2>12, <3>3 DEF Whole
    <3> QED BY <2>9, <2>11, <2>12, <3>4 DEF Whole, IsItem
  <2>14. IsTable(c, k)
    BY <2>12, <2>13, TableIs
  <2>15. buffer[c][k].rowCnt = acked.rows[buffer[c][k].id]
    BY <2>12, <2>14 DEF RowsInv, Counted
  <2> QED BY <2>8, <2>11, <2>12, <2>15
<1> QED BY <1>3, <1>4

\* While besides no two requests insert into one table at once, each table, in
\* whichever buffer it lies and whether or not its vector counts it yet, is the
\* only one with its id and counts the insertions that were answered; a table that
\* has its id but no place has no rows; an insertion that has found its table still
\* points at it and knows how many rows it has; and nothing lies behind the last
\* table of a vector, so that an append never overwrites a table an insertion points
\* at (DMSrCreateTable, DbVectorAppendItem, DMSrInsertData, SEFixedHeapInsertRow).
THEOREM SrRowsInvariant == Spec => []RowsCalm
<1>1. Init => RowsCalm
  BY RowsInit DEF RowsCalm
<1>2. Typed /\ Typed' /\ DbsCalm /\ TablesCalm /\ RowsCalm /\ [Next]_vars => RowsCalm'
  BY RowsInvKept
<1> QED BY <1>1, <1>2, SrThreadsTyped, SrDbsInvariant, SrTablesInvariant, PTL DEF Spec

\* Every insertion that was answered is counted in the table it was for, while
\* databases are dropped and items move under it, as long as there is none of these
\* overlaps (DMSrInsertData, SEFixedHeapInsertRow, DMSrDropDb).
THEOREM SrRowsKept == Spec => []RowsKept
<1>1. Typed /\ DbsCalm /\ TablesCalm /\ RowsCalm => RowsKept
  <2> SUFFICES ASSUME Typed, DbsCalm, TablesCalm, RowsCalm,
                      NoRace({"ids", "dbs", "tables", "growth", "lists", "rows"}), ~ Changing,
                      NEW i \in DOMAIN Dbs, NEW k \in DOMAIN Items(Dbs[i].list)
               PROVE  Items(Dbs[i].list)[k].rowCnt
                        = acked.rows[Items(Dbs[i].list)[k].id]
    BY DEF RowsKept
  <2>1. DbsInv /\ TablesInv /\ RowsInv
    BY DEF DbsCalm, TablesCalm, RowsCalm, NoRace
  <2> QED BY <2>1, RowsKeptHere DEF Typed
<1> QED BY <1>1, SrThreadsTyped, SrDbsInvariant, SrTablesInvariant, SrRowsInvariant, PTL

===============================================================================
