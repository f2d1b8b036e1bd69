--------------------------- MODULE SimpleRelThreads ---------------------------
(***************************************************************************)
(* The catalogue of spr_manager.c, spr_db.c and spr_label.c under requests *)
(* of several worker threads.  Nothing in it is locked ("TODO:lock",       *)
(* spr_common.h), so the requests interleave at their accesses to what is  *)
(* shared: the pointer to the manager, the id counter, and the DbVectorT   *)
(* records with their buffers (vector_util.c).                             *)
(*                                                                         *)
(* A vector lies somewhere: that of the databases in the manager, that of  *)
(* a database's tables in the database's own item, which moves when the    *)
(* vector around it grows or loses an earlier item.  A place is that       *)
(* where.  A thread that has found an item keeps its place and goes on to  *)
(* use it.  A search reads a vector's size, then its data, then an item,   *)
(* each in an action of its own, and the copy of one item is one action.   *)
(*                                                                         *)
(* The pool has KVMemoryThreads; names, schemas and rows have SimpleRel.   *)
(* A schema is its table's name here, a row is a count.                    *)
(***************************************************************************)
EXTENDS Integers, Sequences, FiniteSets

CONSTANTS
  Thread,
  DbName, LabelName,
  Manager,                  \* bound: managers ever allocated
  Buffer,                   \* bound: vector buffers ever allocated
  DB_VECTOR_INIT_CAPACITY,
  MaxGenNum,                \* bound: ids ever taken
  MaxRowCnt,                \* bound: rows of a table
  NULL, Unused, Freed, Garbage

VARIABLES
  server,             \* "running", or "aborted" by DB_POINT
  g_srDbCtrlManager,  \* the manager, NULL at first
  dbCtrlList,         \* [manager -> its DbVectorT, Unused]
  g_dbGenNum,
  buffer,             \* [buffer -> its items; Unused; Freed]
  thread,             \* [thread -> its request, and where it is in it]
  acked,              \* databases, tables and rows that clients were told of
  races               \* the kinds of overlap there have been

vars == <<server, g_srDbCtrlManager, dbCtrlList, g_dbGenNum, buffer, thread,
          acked, races>>

Id == 0 .. MaxGenNum - 1

\* An item of the databases' vector, with its own vector, and one of that.
DbItem ==
  [name : DbName, id : Id, list : [data : Buffer, size : Int, capacity : Nat]]

LabelItem == [name : LabelName, id : Id, dbId : Nat, rowCnt : Nat]

ASSUME SimpleRelThreadsAssumption ==
  /\ Manager \subseteq Nat \ {0} /\ Buffer \subseteq Nat \ {0}
  /\ DB_VECTOR_INIT_CAPACITY \in Nat \ {0}
  /\ MaxGenNum \in Nat /\ MaxRowCnt \in Nat
  /\ NULL \notin Nat /\ Unused # Freed /\ Garbage \notin DbItem \cup LabelItem
  /\ \A mark \in {Unused, Freed} : mark \notin Seq(DbItem \cup LabelItem \cup {Garbage})

Idle == [op |-> "none", pc |-> "idle", name |-> NULL, dbId |-> NULL,
         labelId |-> NULL, pass |-> 1, place |-> NULL, i |-> 1, found |-> NULL,
         num |-> 0, item |-> NULL]

Init ==
  /\ server = "running"
  /\ g_srDbCtrlManager = NULL
  /\ dbCtrlList = [m \in Manager |-> Unused]
  /\ g_dbGenNum = 0
  /\ buffer = [b \in Buffer |-> Unused]
  /\ thread = [t \in Thread |-> Idle]
  /\ acked = [dbs |-> {}, tables |-> {}, rows |-> [l \in Id |-> 0]]
  /\ races = {}

-----------------------------------------------------------------------------
(* Places, vectors, threads                                                *)

Least(S) == CHOOSE i \in S : \A j \in S : i <= j

UnusedBuffers == {b \in Buffer : buffer[b] = Unused}

UnusedBuffer == Least(UnusedBuffers)

IsArray(b) == b \in Buffer /\ buffer[b] \notin {Unused, Freed}

\* There is an item at index i of buffer b.
IsItem(b, i) == IsArray(b) /\ i \in DOMAIN buffer[b] /\ buffer[b][i] # Garbage

TheManager == [manager |-> g_srDbCtrlManager]

IsManager(place) == "manager" \in DOMAIN place

IsVector(place) == IF IsManager(place) THEN TRUE ELSE IsItem(place.data, place.index)

VectorAt(place) ==
  IF IsManager(place) THEN dbCtrlList[place.manager]
                      ELSE buffer[place.data][place.index].list

SetVector(place, vector) ==
  IF IsManager(place)
    THEN dbCtrlList' = [dbCtrlList EXCEPT ![place.manager] = vector] /\ UNCHANGED buffer
    ELSE /\ buffer' = [buffer EXCEPT ![place.data][place.index].list = vector]
         /\ UNCHANGED dbCtrlList

NewItems == [i \in 1 .. DB_VECTOR_INIT_CAPACITY |-> Garbage]

NewVector(b) == [data |-> b, size |-> 0, capacity |-> DB_VECTOR_INIT_CAPACITY]

shared == <<server, g_srDbCtrlManager, dbCtrlList, g_dbGenNum, buffer>>

At(t, pc) == server = "running" /\ thread[t].pc = pc

Goes(t, pc) == thread' = [thread EXCEPT ![t].pc = pc]

\* Once the request has been answered its locals are gone.
Answers(t) == thread' = [thread EXCEPT ![t] = Idle]

-----------------------------------------------------------------------------
(* Requests and their overlaps                                             *)

Others(t) == {u \in Thread \ {t} : thread[u].op # "none"}

\* What a request x may disturb when it meets a request y.
Race(x, y) ==
  LET ops == {x.op, y.op}
  IN  {kind \in {"dbs", "tables", "rows"} :
         \/ kind = "dbs" /\ ops \subseteq {"create", "drop"}
         \/ kind = "tables" /\ ops = {"table", "drop"}
         \/ kind = "tables" /\ ops = {"table"} /\ x.dbId = y.dbId
         \/ kind = "rows" /\ ops = {"insert"} /\ x.labelId = y.labelId}

Growing == \E u \in Thread : thread[u].pc \in {"realloc", "setData"}

Begin(t, op, pc, name, dbId, labelId) ==
  /\ At(t, "idle")
  /\ LET request == [Idle EXCEPT !.op = op, !.pc = pc, !.name = name,
                                 !.dbId = dbId, !.labelId = labelId]
     IN  /\ thread' = [thread EXCEPT ![t] = request]
         /\ races' = races \cup (UNION {Race(request, thread[u]) : u \in Others(t)})
                          \cup (IF Growing THEN {"growth"} ELSE {})
  /\ UNCHANGED <<shared, acked>>

\* Ids in requests: those that have been given out, or one that an earlier server
\* has given out.
Asked == {id \in Id : id < g_dbGenNum} \cup IF g_dbGenNum = 0 THEN {0} ELSE {}

Request(t) ==
  \/ \E name \in DbName : \/ Begin(t, "create", "manager", name, NULL, NULL)
                          \/ Begin(t, "drop", "manager", name, NULL, NULL)
  \/ \E dbId \in Asked :
       \/ \E name \in LabelName : Begin(t, "table", "open", name, dbId, NULL)
       \/ \E labelId \in Asked \ {dbId} : Begin(t, "insert", "open", NULL, dbId, labelId)

-----------------------------------------------------------------------------
(* The manager                                                             *)

\* Mutant: the search begins with the second item.
SearchesRest(t, place) ==
  thread' = [thread EXCEPT ![t].pc = "search", ![t].place = place, ![t].i = 2]

Searches(t, place) ==
  thread' = [thread EXCEPT ![t].pc = "search", ![t].place = place, ![t].i = 1]

\* GetDbCtrlManager: the manager there is, or a new one.
GetDbCtrlManager(t) ==
  /\ At(t, "manager")
  /\ IF g_srDbCtrlManager # NULL THEN Searches(t, TheManager) ELSE Goes(t, "publish")
  /\ UNCHANGED <<shared, acked, races>>

\* The pointer is set before the vector is: its memory is all zeros until then.
Publish(t) ==
  /\ At(t, "publish") /\ \E m \in Manager : dbCtrlList[m] = Unused
  /\ LET m == Least({n \in Manager : dbCtrlList[n] = Unused})
     IN  /\ g_srDbCtrlManager' = m
         /\ dbCtrlList' = [dbCtrlList EXCEPT ![m] =
                             [data |-> NULL, size |-> 0, capacity |-> 0]]
  /\ Goes(t, "initVector")
  /\ UNCHANGED <<server, g_dbGenNum, buffer, acked, races>>

InitVector(t) ==
  /\ At(t, "initVector") /\ UnusedBuffers # {}
  /\ dbCtrlList' = [dbCtrlList EXCEPT ![g_srDbCtrlManager] = NewVector(UnusedBuffer)]
  /\ buffer' = [buffer EXCEPT ![UnusedBuffer] = NewItems]
  /\ Searches(t, TheManager)
  /\ UNCHANGED <<server, g_srDbCtrlManager, g_dbGenNum, acked, races>>

\* Requests by id start with a DB_POINT on the manager.
OpenDb(t) ==
  /\ At(t, "open")
  /\ IF g_srDbCtrlManager # NULL
       THEN Searches(t, TheManager) /\ UNCHANGED server
       ELSE server' = "aborted" /\ UNCHANGED thread
  /\ UNCHANGED <<g_srDbCtrlManager, dbCtrlList, g_dbGenNum, buffer, acked, races>>

-----------------------------------------------------------------------------
(* Searches                                                                *)

\* DMSrDropDb searches three times: to refuse, for nothing, and to remove.
Matches(t, item) ==
  LET me == thread[t]
  IN  IF me.op \in {"create", "drop"} \/ (me.op = "table" /\ me.pass = 2)
        THEN item.name = me.name
        ELSE item.id = IF me.pass = 1 THEN me.dbId ELSE me.labelId

\* The loop's test, and that of DbVectorGetItem behind it: what either finds at
\* an end, the search takes for its end.
MoreItems(t) == thread[t].i <= VectorAt(thread[t].place).size

ReadSize(t) ==
  /\ At(t, "search") /\ IsVector(thread[t].place) /\ MoreItems(t)
  /\ Goes(t, "data")
  /\ UNCHANGED <<shared, acked, races>>

\* DbVectorGetItem returns a pointer, into the data there is by now.
ReadData(t) ==
  LET me == thread[t]
  IN  /\ At(t, "data") /\ IsVector(me.place)
      /\ thread' = [thread EXCEPT ![t].pc = "item",
                      ![t].found = [data |-> VectorAt(me.place).data, index |-> me.i]]
      /\ UNCHANGED <<shared, acked, races>>

\* The item behind the pointer, as it is when it is compared.
ItemFound(t) == At(t, "item") /\ IsItem(thread[t].found.data, thread[t].found.index)

Hit(t) ==
  LET found == thread[t].found
  IN  ItemFound(t) /\ Matches(t, buffer[found.data][found.index])

NoMore(t) == At(t, "search") /\ IsVector(thread[t].place) /\ ~ MoreItems(t)

SearchGoesOn(t) ==
  /\ ItemFound(t) /\ ~ Hit(t)
  /\ thread' = [thread EXCEPT ![t].pc = "search", ![t].i = @ + 1, ![t].found = NULL]
  /\ UNCHANGED <<shared, acked, races>>

\* The search is for a name that must not be there yet.
ForFreeName(me) == me.op = "create" \/ (me.op = "table" /\ me.pass = 2)

ToRemove(t) == Hit(t) /\ thread[t].op = "drop" /\ thread[t].pass = 3

\* Names that are taken, and what is not there, end the request.  A drop answers
\* GMERR_OK all the same when its last search finds nothing, or finds an item that
\* is behind the vector's end when DbVectorRemoveItem looks.
SearchEnds(t) ==
  /\ IF ForFreeName(thread[t]) THEN Hit(t)
     ELSE NoMore(t) \/ (ToRemove(t) /\ ~ MoreItems(t))
  /\ Answers(t)
  /\ UNCHANGED <<shared, acked, races>>

\* A name that is free: the request goes on to make the new item.
NameIsFree(t) ==
  /\ NoMore(t) /\ ForFreeName(thread[t])
  /\ Goes(t, "load")
  /\ UNCHANGED <<shared, acked, races>>

ForNextSearch(me) ==
  \/ me.op = "drop" /\ me.pass < 3
  \/ me.op \in {"table", "insert"} /\ me.pass = 1

\* Mutant: the search goes on in the first database, whichever was found.
SearchAgainInFirst(t) ==
  LET me == thread[t]
      place == IF me.op = "drop" THEN TheManager ELSE [me.found EXCEPT !.index = 1]
  IN  /\ Hit(t) /\ ForNextSearch(me)
      /\ thread' = [thread EXCEPT ![t].pc = "search", ![t].pass = @ + 1,
                      ![t].place = place, ![t].i = 1, ![t].found = NULL]
      /\ UNCHANGED <<shared, acked, races>>

SearchAgain(t) ==
  LET me == thread[t]
      place == IF me.op = "drop" THEN TheManager ELSE me.found
  IN  /\ Hit(t) /\ ForNextSearch(me)
      /\ thread' = [thread EXCEPT ![t].pc = "search", ![t].pass = @ + 1,
                      ![t].place = place, ![t].i = 1, ![t].found = NULL]
      /\ UNCHANGED <<shared, acked, races>>

\* From here on the client knows that the database may be gone.
DropIsSure(t) ==
  /\ ToRemove(t) /\ MoreItems(t)
  /\ thread' = [thread EXCEPT ![t].pc = "move", ![t].found = NULL,
                  ![t].num = VectorAt(thread[t].place).size]
  /\ LET gone == {d \in acked.dbs : d.name = thread[t].name}
     IN  acked' = [acked EXCEPT !.dbs = @ \ gone,
                                !.tables = {l \in @ : \A d \in gone : l.dbId # d.id}]
  /\ UNCHANGED <<shared, races>>

RowIsFor(t) ==
  /\ Hit(t) /\ thread[t].op = "insert" /\ thread[t].pass = 2
  /\ thread' = [thread EXCEPT ![t].pc = "row", ![t].place = thread[t].found,
                  ![t].found = NULL]
  /\ UNCHANGED <<shared, acked, races>>

-----------------------------------------------------------------------------
(* Ids                                                                     *)

\* The vector of a new database's tables is made before the id is taken.
LoadGenNum(t) ==
  /\ At(t, "load") /\ g_dbGenNum < MaxGenNum /\ UnusedBuffers # {}
  /\ LET me == thread[t]
         item == IF me.op = "create"
                   THEN [name |-> me.name, id |-> g_dbGenNum, list |-> NewVector(UnusedBuffer)]
                   ELSE [name |-> me.name, id |-> g_dbGenNum, dbId |-> me.dbId, rowCnt |-> 0]
     IN  thread' = [thread EXCEPT ![t].pc = "store", ![t].num = g_dbGenNum, ![t].item = item]
  /\ IF thread[t].op = "create" THEN buffer' = [buffer EXCEPT ![UnusedBuffer] = NewItems]
                                ELSE UNCHANGED buffer
  /\ races' = races \cup IF \E u \in Others(t) : thread[u].pc = "store"
                          THEN {"ids"} ELSE {}
  /\ UNCHANGED <<server, g_srDbCtrlManager, dbCtrlList, g_dbGenNum, acked>>

\* Mutant: tables are numbered two by two.
StoreGenNumTwice(t) ==
  /\ At(t, "store")
  /\ g_dbGenNum' = thread[t].num + IF thread[t].op = "table" THEN 2 ELSE 1
  /\ thread' = [thread EXCEPT ![t].pc = "check",
                  ![t].place = IF thread[t].op = "create" THEN TheManager ELSE @]
  /\ UNCHANGED <<server, g_srDbCtrlManager, dbCtrlList, buffer, acked, races>>

\* Mutant: the counter stays when a table takes its id.
StoreGenNumOfDb(t) ==
  /\ At(t, "store")
  /\ g_dbGenNum' = IF thread[t].op = "create" THEN thread[t].num + 1 ELSE g_dbGenNum
  /\ thread' = [thread EXCEPT ![t].pc = "check",
                  ![t].place = IF thread[t].op = "create" THEN TheManager ELSE @]
  /\ UNCHANGED <<server, g_srDbCtrlManager, dbCtrlList, buffer, acked, races>>

StoreGenNum(t) ==
  /\ At(t, "store")
  /\ g_dbGenNum' = thread[t].num + 1
  /\ thread' = [thread EXCEPT ![t].pc = "check",
                  ![t].place = IF thread[t].op = "create" THEN TheManager ELSE @]
  /\ UNCHANGED <<server, g_srDbCtrlManager, dbCtrlList, buffer, acked, races>>

-----------------------------------------------------------------------------
(* DbVectorAppendItem                                                      *)

Vector(t) == VectorAt(thread[t].place)

\* Mutant: the vector grows one item too late.
CheckCapacityLate(t) ==
  /\ At(t, "check") /\ IsVector(thread[t].place)
  /\ Goes(t, IF Vector(t).size > Vector(t).capacity THEN "realloc" ELSE "copy")
  /\ UNCHANGED <<shared, acked, races>>

CheckCapacity(t) ==
  /\ At(t, "check") /\ IsVector(thread[t].place)
  /\ Goes(t, IF Vector(t).size >= Vector(t).capacity THEN "realloc" ELSE "copy")
  /\ UNCHANGED <<shared, acked, races>>

\* realloc may leave the buffer where it is, or copy it and free the old one.
Realloc(t) ==
  /\ At(t, "realloc") /\ IsVector(thread[t].place) /\ IsArray(Vector(t).data)
  /\ LET old  == Vector(t).data
         more == [i \in 1 .. 2 * Vector(t).capacity |->
                    IF i \in DOMAIN buffer[old] THEN buffer[old][i] ELSE Garbage]
     IN  \/ /\ buffer' = [buffer EXCEPT ![old] = more]
            /\ thread' = [thread EXCEPT ![t].pc = "setData", ![t].num = old]
         \/ /\ UnusedBuffers # {}
            /\ buffer' = [buffer EXCEPT ![UnusedBuffer] = more, ![old] = Freed]
            /\ thread' = [thread EXCEPT ![t].pc = "setData", ![t].num = UnusedBuffer]
  /\ races' = races \cup IF Others(t) # {} THEN {"growth"} ELSE {}
  /\ UNCHANGED <<server, g_srDbCtrlManager, dbCtrlList, g_dbGenNum, acked>>

SetData(t) ==
  /\ At(t, "setData") /\ IsVector(thread[t].place)
  /\ SetVector(thread[t].place,
               [Vector(t) EXCEPT !.data = thread[t].num, !.capacity = 2 * @])
  /\ Goes(t, "copy")
  /\ UNCHANGED <<server, g_srDbCtrlManager, g_dbGenNum, acked, races>>

\* Writing item i of buffer b meets a thread that has read the size in it, and
\* goes on to read its data.
Meets(b, i) ==
  IF \E u \in Thread : /\ thread[u].pc = "data"
                       /\ thread[u].place = [data |-> b, index |-> i]
    THEN {"lists"} ELSE {}

\* The slot behind the last item.
IsSlot(vector) == IsArray(vector.data) /\ vector.size + 1 \in DOMAIN buffer[vector.data]

CopyItem(t) ==
  /\ At(t, "copy") /\ IsVector(thread[t].place) /\ IsSlot(Vector(t))
  /\ buffer' = [buffer EXCEPT ![Vector(t).data][Vector(t).size + 1] = thread[t].item]
  /\ Goes(t, "size")
  /\ races' = races \cup Meets(Vector(t).data, Vector(t).size + 1)
  /\ UNCHANGED <<server, g_srDbCtrlManager, dbCtrlList, g_dbGenNum, acked>>

\* The item is in, and the request is answered.
AddSize(t) ==
  LET item == thread[t].item
  IN  /\ At(t, "size") /\ IsVector(thread[t].place)
      /\ SetVector(thread[t].place, [Vector(t) EXCEPT !.size = @ + 1])
      /\ acked' = IF thread[t].op = "create"
                    THEN [acked EXCEPT !.dbs = @ \cup {[name |-> item.name, id |-> item.id]}]
                    ELSE [acked EXCEPT !.tables = @ \cup {[dbId |-> item.dbId, id |-> item.id]}]
      /\ Answers(t)
      /\ UNCHANGED <<server, g_srDbCtrlManager, g_dbGenNum, races>>

-----------------------------------------------------------------------------
(* DbVectorRemoveItem, and the row                                         *)

\* memmove, one item after the other.
MoveItem(t) ==
  LET i == thread[t].i
      v == Vector(t)
  IN  /\ At(t, "move") /\ i < thread[t].num /\ IsItem(v.data, i + 1)
      /\ buffer' = [buffer EXCEPT ![v.data][i] = buffer[v.data][i + 1]]
      /\ thread' = [thread EXCEPT ![t].i = i + 1]
      /\ races' = races \cup Meets(v.data, i)
      /\ UNCHANGED <<server, g_srDbCtrlManager, dbCtrlList, g_dbGenNum, acked>>

SubtractSize(t) ==
  /\ At(t, "move") /\ thread[t].i >= thread[t].num
  /\ SetVector(thread[t].place, [Vector(t) EXCEPT !.size = @ - 1])
  /\ Answers(t)
  /\ UNCHANGED <<server, g_srDbCtrlManager, g_dbGenNum, acked, races>>

\* SEFixedHeapInsertRow through the pointer to the table: the row count is read,
ReadRowCnt(t) ==
  LET place == thread[t].place
  IN  /\ At(t, "row") /\ IsItem(place.data, place.index)
      /\ buffer[place.data][place.index].rowCnt < MaxRowCnt
      /\ thread' = [thread EXCEPT ![t].pc = "count",
                      ![t].num = buffer[place.data][place.index].rowCnt]
      /\ UNCHANGED <<shared, acked, races>>

\* Mutant: the row goes to the first table there is.
WriteRowCntOfFirst(t) ==
  LET place == [thread[t].place EXCEPT !.index = 1]
  IN  /\ At(t, "count") /\ IsItem(place.data, place.index)
      /\ buffer' = [buffer EXCEPT ![place.data][place.index].rowCnt = thread[t].num + 1]
      /\ acked' = [acked EXCEPT !.rows[thread[t].labelId] = @ + 1]
      /\ Answers(t)
      /\ UNCHANGED <<server, g_srDbCtrlManager, dbCtrlList, g_dbGenNum, races>>

\* and written.
WriteRowCnt(t) ==
  LET place == thread[t].place
  IN  /\ At(t, "count") /\ IsItem(place.data, place.index)
      /\ buffer' = [buffer EXCEPT ![place.data][place.index].rowCnt = thread[t].num + 1]
      /\ acked' = [acked EXCEPT !.rows[thread[t].labelId] = @ + 1]
      /\ Answers(t)
      /\ UNCHANGED <<server, g_srDbCtrlManager, dbCtrlList, g_dbGenNum, races>>

-----------------------------------------------------------------------------

\* The next access of t is to what is no vector, no item or no slot any more.
NoTarget(t) ==
  LET me == thread[t]
  IN  CASE me.pc \in {"search", "data", "check", "setData", "size"} -> ~ IsVector(me.place)
        [] me.pc = "item"    -> ~ IsItem(me.found.data, me.found.index)
        [] me.pc = "realloc" -> IsVector(me.place) => ~ IsArray(Vector(t).data)
        [] me.pc = "copy"    -> IsVector(me.place) => ~ IsSlot(Vector(t))
        [] me.pc = "move"    -> /\ me.i < me.num
                                /\ ~ IsItem(Vector(t).data, me.i + 1)
        [] me.pc \in {"row", "count"} -> ~ IsItem(me.place.data, me.place.index)
        [] OTHER             -> FALSE

Strays(t) ==
  /\ server = "running" /\ NoTarget(t)
  /\ Goes(t, "wild")
  /\ UNCHANGED <<shared, acked, races>>

Sane == \A t \in Thread : thread[t].pc # "wild"

Manage(t) == GetDbCtrlManager(t) \/ Publish(t) \/ InitVector(t) \/ OpenDb(t)

Search(t) ==
  \/ ReadSize(t) \/ ReadData(t) \/ SearchGoesOn(t) \/ SearchEnds(t) \/ SearchAgain(t)
  \/ NameIsFree(t) \/ DropIsSure(t) \/ RowIsFor(t)

AppendItem(t) ==
  \/ LoadGenNum(t) \/ StoreGenNum(t)
  \/ CheckCapacity(t) \/ Realloc(t) \/ SetData(t) \/ CopyItem(t) \/ AddSize(t)

Change(t) ==
  \/ MoveItem(t) \/ SubtractSize(t) \/ ReadRowCnt(t) \/ WriteRowCnt(t)

\* Nothing is said of a process in which a thread went astray.
Next ==
  \E t \in Thread :
    /\ Sane
    /\ \/ Request(t) \/ Manage(t) \/ Search(t) \/ AppendItem(t) \/ Change(t)
       \/ Strays(t)

Spec == Init /\ [][Next]_vars

-----------------------------------------------------------------------------
(* Properties                                                              *)

Items(vector) ==
  IF IsArray(vector.data) THEN [i \in 1 .. vector.size |-> buffer[vector.data][i]]
                          ELSE <<>>

Dbs == IF g_srDbCtrlManager = NULL THEN <<>> ELSE Items(dbCtrlList[g_srDbCtrlManager])

\* In the middle of a memmove, or of a realloc and its assignment.
Changing == \E t \in Thread : thread[t].pc \in {"move", "setData"}

NoRace(kinds) == races \cap kinds = {}

PlaceType ==
  {NULL} \cup [manager : Manager] \cup [data : Buffer, index : Nat]

FoundType == {NULL} \cup [data : Buffer \cup {NULL}, index : Nat]

VectorType == [data : Buffer \cup {NULL}, size : Int, capacity : Nat]

\* The state is of the types its comments give: in particular no request takes
\* an id (spr_manager.c, GenSrDbId) beyond the last, and the buffers are arrays.
ThreadsTypeOK ==
  /\ server \in {"running", "aborted"}
  /\ g_srDbCtrlManager \in Manager \cup {NULL}
  /\ dbCtrlList \in [Manager -> VectorType \cup {Unused}]
  /\ g_dbGenNum \in 0 .. MaxGenNum
  /\ \A b \in Buffer : buffer[b] \in {Unused, Freed} \/ DOMAIN buffer[b] \subseteq Nat
  /\ \A t \in Thread : /\ thread[t].place \in PlaceType /\ thread[t].num \in Nat
                         /\ thread[t].found \in FoundType
  /\ races \subseteq {"ids", "dbs", "tables", "growth", "lists", "rows"}

\* An item that has its id and is about to be appended.
HasId(t) == thread[t].pc \in {"check", "realloc", "setData", "copy", "size"}

\* No two databases or tables that clients were told of have one id, and none that
\* is about to be appended has the id of one of these, whatever requests do to
\* each other, two managers, vectors that grow and items that move included: as
\* long as no request has loaded g_dbGenNum while another was about to store it
\* (GenSrDbId, GenSrTableId).
IdsGivenOnce ==
  NoRace({"ids"}) =>
    /\ \A x, y \in acked.dbs \cup acked.tables : x.id = y.id => x = y
    /\ \A t \in Thread : HasId(t) =>
         \A x \in acked.dbs \cup acked.tables : x.id # thread[t].item.id

\* Databases whose creation was answered are found under their name and id, and
\* nothing else is, whatever tables and rows other threads make meanwhile: as
\* long as two requests never make or drop databases at once (DMSrCreateDb,
\* DMSrDropDb, GetDbCtrlManager) and never take an id at once (GenSrDbId).
DbsKept ==
  NoRace({"ids", "dbs"}) /\ ~ Changing =>
    \A db \in acked.dbs : \E i \in DOMAIN Dbs :
      /\ Dbs[i].name = db.name /\ Dbs[i].id = db.id
      /\ \A j \in DOMAIN Dbs : Dbs[j].name = db.name \/ Dbs[j].id = db.id => j = i

\* Tables whose creation was answered are found in their database, which has
\* no other database's tables and no name twice, if besides no table is made
\* while its database is dropped or gets another one (DMSrCreateTable), and
\* no vector grows while a request is under way that may hold a pointer into it
\* (DbVectorAppendItem).
TablesKept ==
  NoRace({"ids", "dbs", "tables", "growth", "lists"}) /\ ~ Changing =>
    /\ \A table \in acked.tables : \E i \in DOMAIN Dbs :
         /\ Dbs[i].id = table.dbId
         /\ \E k \in DOMAIN Items(Dbs[i].list) : Items(Dbs[i].list)[k].id = table.id
    /\ \A i \in DOMAIN Dbs : LET tables == Items(Dbs[i].list)
                             IN  \A k, n \in DOMAIN tables :
                                   /\ tables[k].dbId = Dbs[i].id
                                   /\ tables[k].name = tables[n].name => k = n

\* Every insertion that was answered is counted in the table it was for, also
\* when databases are dropped and items move under it (DMSrInsertData holds two
\* pointers into vectors), if besides no two insert into one table at once
\* (SEFixedHeapInsertRow).
RowsKept ==
  NoRace({"ids", "dbs", "tables", "growth", "lists", "rows"}) /\ ~ Changing =>
    \A i \in DOMAIN Dbs : \A k \in DOMAIN Items(Dbs[i].list) :
      LET table == Items(Dbs[i].list)[k]
      IN  table.rowCnt = acked.rows[table.id]


\* With none of these overlaps but that of two insertions no thread ever follows
\* a pointer to an item or a buffer that is gone, or writes past a buffer
\* (DbVectorAppendItem, DbVectorRemoveItem).
NobodyStrays == NoRace({"ids", "dbs", "tables", "growth", "lists"}) => Sane

=============================================================================
