------------------------------ MODULE RtRequest ------------------------------
(***************************************************************************)
(* What the server makes of a message, rt_parse_request.c and              *)
(* rt_handle_opcode.c over the data model of SimpleRel: the buffers a      *)
(* request takes and gives back, and what becomes of the catalogue when an *)
(* allocation fails.                                                       *)
(*                                                                         *)
(* A request is one action, from the message to the answer, with the       *)
(* allocation that fails in it.  A block is known by what it is for.  Any  *)
(* allocation may fail: KVMemAlloc when the pool and the heap are used up, *)
(* malloc and realloc of a vector (vector_util.c) at any time.             *)
(*                                                                         *)
(* Some failures leave the catalogue with pointers to memory it no longer  *)
(* has.  The server is corrupt then, and nothing more is said of it until  *)
(* it is started anew.                                                     *)
(***************************************************************************)
EXTENDS SimpleRel, FiniteSets

CONSTANT DB_VECTOR_INIT_CAPACITY

ASSUME RtRequestAssumption == DB_VECTOR_INIT_CAPACITY \in Nat \ {0}

\* What a block is for.  The last four live for a request.
Use ==
  {"manager", "dbs", "dbName", "tables", "labelName", "properties", "page",
   "result", "stmt", "insertData", "retEntry"}

\* The blocks of the server's start, in the order it takes them.
StartUse ==
  <<"poolManager", "memPtrArray",
    "memCtxManager", "topMemCtx", "freePageList", "pageAddr">>

VARIABLES
  dbsData,     \* the buffer of the databases: "none" before there is a manager,
               \* "buffer", "null" if it was never got, "lost" if realloc failed
  capacity,    \* of the vector of databases
  lostTables,  \* databases whose vector of tables lost its buffer
  corrupt,
  took, gave   \* the blocks the last request allocated, and those it freed

memory == <<dbsData, capacity, lostTables, corrupt>>

rtVars == <<vars, memory, took, gave>>

RtInit ==
  /\ Init
  /\ dbsData = "none"
  /\ capacity = 0
  /\ lostTables = {}
  /\ corrupt = FALSE
  /\ took = {} /\ gave = {}

-----------------------------------------------------------------------------
(* RTProcessMain and RtHandleSimpleRelOpCode                               *)

Uses(taken, given) == took' = taken /\ gave' = given

\* Mutant: the copy of the row is not given back.
HandledForgetsRow(taken, given) ==
  Uses({"result", "stmt"} \cup taken,
       {"result"} \cup given
         \cup IF rsp'.status = GMERR_OK THEN {"stmt"} \cup (taken \cap {"retEntry"})
                                       ELSE {})

\* The result buffer is always given back.  The statement, the copy of a row
\* and the entry for the answer are given back when the request succeeded.
Handled(taken, given) ==
  Uses({"result", "stmt"} \cup taken,
       {"result"} \cup given
         \cup IF rsp'.status = GMERR_OK
                THEN {"stmt"} \cup (taken \cap {"retEntry", "insertData"})
                ELSE {})

NothingDone(status) ==
  /\ server = "running"
  /\ Refuse(status)
  /\ UNCHANGED <<server, g_srDbCtrlManager, Catalogue, memory>>

UnknownOpCode == NothingDone(UNKNOWN_OPCODE) /\ Uses({}, {})

NoResultBuf == NothingDone(MEMORY_ALLOC_FAILED) /\ Uses({}, {})

NoStmt == NothingDone(KV_MEMORY_ALLOC_FAILED) /\ Uses({"result"}, {"result"})

\* Opcodes without a meaning are answered GMERR_OK.
OtherOpCode == NothingDone(GMERR_OK) /\ Uses({"result"}, {"result"})

\* Division by zero, and an unknown operator, are refused.
RtHandleAddTest ==
  /\ \E status \in {GMERR_OK, INVAILD_OPTION} : NothingDone(status)
  /\ Uses({"result"}, {"result"})

\* The process is gone, and all of its memory.
Dies ==
  /\ AbortServer
  /\ UNCHANGED memory
  /\ Uses({}, {})

\* INT32_MIN divided by -1: the one quotient that is no int32_t raises SIGFPE.
AddTestTraps == server = "running" /\ Dies

-----------------------------------------------------------------------------
(* GetDbCtrlManager                                                        *)

\* The buffer of the databases after a call: the first call makes the manager
\* and the vector, unless one of the two cannot be allocated.
ManagerBuffers ==
  IF g_srDbCtrlManager THEN {dbsData} ELSE {"buffer", "null", "none"}

ManagerUses(data) ==
  IF g_srDbCtrlManager THEN {}
  ELSE CASE data = "buffer" -> {"manager", "dbs"}
         [] data = "null"   -> {"manager"}
         [] data = "none"   -> {}

GetDbCtrlManager(data) ==
  /\ dbsData' = data
  /\ g_srDbCtrlManager' = (data # "none")

InitialCapacity == IF g_srDbCtrlManager THEN capacity ELSE DB_VECTOR_INIT_CAPACITY

\* DbVectorInit allocates more than the capacity says, so that the first growth
\* may find room enough; a realloc that is to enlarge the buffer may fail.
ReallocMayFail(cap) ==
  2 * cap > IF cap = DB_VECTOR_INIT_CAPACITY
              THEN DB_VECTOR_INIT_CAPACITY * DB_VECTOR_INIT_CAPACITY ELSE cap

-----------------------------------------------------------------------------
(* Databases                                                               *)

RefusedName ==
  /\ \E status \in BadNameStatus : BadDbArgs(status)
  /\ UNCHANGED memory
  /\ Handled({}, {})

\* A lost vector has as many items as before, but no search gets to see one: it
\* stands for an empty one here, and is full.
DbsFull == dbsData = "lost" \/ (g_srDbCtrlManager /\ Len(dbCtrlList) >= capacity)

CreateDb(dbName) ==
  \E data \in ManagerBuffers \cap {"buffer"} :
    /\ DMSrCreateDb(dbName)
    /\ dbsData' = data
    /\ capacity' = IF ~ IsDbNameExist(dbName) /\ DbsFull THEN 2 * capacity
                                                         ELSE InitialCapacity
    /\ UNCHANGED <<lostTables, corrupt>>
    /\ Handled(ManagerUses(data)
                 \cup IF IsDbNameExist(dbName) THEN {}
                      ELSE {"dbName", "tables", "retEntry"}, {})

\* The name cannot be copied, or the vector of tables cannot be made: then the
\* name is given back as if it were as long as an SrLabelT, which may put it
\* on a list of longer blocks.
CreateDbEarlyFailure(dbName) ==
  /\ server = "running" /\ ~ IsDbNameExist(dbName)
  /\ \E data \in ManagerBuffers :
       /\ GetDbCtrlManager(data)
       /\ capacity' = IF data = "none" THEN capacity ELSE InitialCapacity
       /\ \/ /\ Refuse(KV_MEMORY_ALLOC_FAILED)
             /\ Handled(ManagerUses(data), {})
             /\ UNCHANGED corrupt
          \/ /\ Refuse(MEMORY_ALLOC_FAILED)
             /\ Handled({"dbName"} \cup ManagerUses(data), {"dbName"})
             /\ corrupt' \in BOOLEAN
  /\ UNCHANGED <<server, Catalogue, lostTables>>

\* There is no manager to append to, or one whose vector never got a buffer.
CreateDbCrashes(dbName) ==
  /\ server = "running" /\ ~ IsDbNameExist(dbName)
  /\ \E data \in ManagerBuffers : data \in {"none", "null"}
  /\ Dies

\* Mutant: the old buffer is kept, but not what is in it.
DbsGrowthFailsClears(dbName) ==
  /\ server = "running" /\ ~ IsDbNameExist(dbName)
  /\ DbsFull /\ ReallocMayFail(capacity)
  /\ g_dbGenNum < MaxGenNum
  /\ g_dbGenNum' = g_dbGenNum + 1
  /\ dbCtrlList' = <<>>
  /\ Refuse(MEMORY_ALLOC_FAILED)
  /\ UNCHANGED <<server, g_srDbCtrlManager, memory>>
  /\ Handled({"dbName", "tables"}, {"dbName", "tables"})

\* realloc fails, and the pointer to the old buffer is overwritten.
DbsGrowthFails(dbName) ==
  /\ server = "running" /\ ~ IsDbNameExist(dbName)
  /\ DbsFull /\ (dbsData = "lost" \/ ReallocMayFail(capacity))
  /\ g_dbGenNum < MaxGenNum
  /\ g_dbGenNum' = g_dbGenNum + 1
  /\ dbCtrlList' = <<>>
  /\ dbsData' = "lost"
  /\ Refuse(MEMORY_ALLOC_FAILED)
  /\ UNCHANGED <<server, g_srDbCtrlManager, capacity, lostTables, corrupt>>
  /\ Handled({"dbName", "tables"}, {"dbName", "tables"})

NewDbUses ==
  {"dbName", "tables"} \cup IF dbsData = "lost" THEN {"dbs"} ELSE ManagerUses("buffer")

\* Either the vector gets a new buffer in place of a lost one, whose items nobody
\* wrote; or the answer cannot be made, and what the new item points to is freed.
CreateDbCorrupts(dbName) ==
  /\ server = "running" /\ ~ IsDbNameExist(dbName)
  /\ ManagerBuffers \cap {"buffer", "lost"} # {}
  /\ GetDbCtrlManager("buffer")
  /\ AppendDbCtrl(dbName)
  /\ \/ /\ dbsData = "lost"
        /\ rsp' = Answer(GMERR_OK, GenSrDbId, <<>>)
        /\ Handled(NewDbUses \cup {"retEntry"}, {})
     \/ /\ Refuse(KV_MEMORY_ALLOC_FAILED)
        /\ Handled(NewDbUses, {"dbName", "tables"})
  /\ corrupt' = TRUE
  /\ capacity' = InitialCapacity
  /\ UNCHANGED <<server, lostTables>>

DropDb(dbName) ==
  \E data \in ManagerBuffers :
    /\ IF data = "none"
         THEN /\ NothingDone(NAME_NOT_EXISTED)
         ELSE /\ DMSrDropDb(dbName)
              /\ dbsData' = data
              /\ capacity' = InitialCapacity
              /\ UNCHANGED <<lostTables, corrupt>>
    /\ Handled(ManagerUses(data), {})

-----------------------------------------------------------------------------
(* Tables                                                                  *)

NoManagerYet == server = "running" /\ ~ g_srDbCtrlManager /\ Dies

TableUses == {"labelName", "properties", "page"}

CreateTable(dbId, json) ==
  /\ dbId \notin lostTables \/ CreateTableStatus(dbId, json) # GMERR_OK
  /\ DMSrCreateTable(dbId, json)
  /\ UNCHANGED memory
  /\ Handled(IF CreateTableStatus(dbId, json) # GMERR_OK THEN {}
             ELSE TableUses \cup {"retEntry"}, {})

IsNewTable(dbId, json) == ByDbId /\ CreateTableStatus(dbId, json) = GMERR_OK

\* The name, or the array of properties, cannot be allocated.
CreateTableEarlyFailure(dbId, json) ==
  /\ IsNewTable(dbId, json)
  /\ Refuse(KV_MEMORY_ALLOC_FAILED)
  /\ UNCHANGED <<server, g_srDbCtrlManager, Catalogue, memory>>
  /\ \E taken \in {{}, {"labelName"}} : Handled(taken, {})

\* DB_ASSERT in SEFixedHeapInit.
NoPage(dbId, json) == IsNewTable(dbId, json) /\ Dies

\* A vector of tables grows when its size comes to a capacity it has had.
TablesCapacity(n) == {DB_VECTOR_INIT_CAPACITY * 2 ^ k : k \in 0 .. n}

TablesGrowthFails(dbId, json) ==
  LET d == DmGetDbCtrlByDbId(dbId)
      n == Len(dbCtrlList[d].labelCtrlList)
  IN  /\ IsNewTable(dbId, json)
      /\ dbId \notin lostTables => n \in TablesCapacity(n) /\ ReallocMayFail(n)
      /\ g_dbGenNum < MaxGenNum
      /\ g_dbGenNum' = g_dbGenNum + 1
      /\ dbCtrlList' = [dbCtrlList EXCEPT ![d].labelCtrlList = <<>>]
      /\ lostTables' = lostTables \cup {dbId}
      /\ Refuse(MEMORY_ALLOC_FAILED)
      /\ UNCHANGED <<server, g_srDbCtrlManager, dbsData, capacity, corrupt>>
      /\ Handled(TableUses, {})

\* The vector gets a new buffer in place of a lost one, whose items nobody wrote.
CreateTableCorrupts(dbId, json) ==
  /\ IsNewTable(dbId, json) /\ dbId \in lostTables
  /\ AppendLabel(dbId, json)
  /\ \/ /\ rsp' = Answer(GMERR_OK, GenSrTableId, <<>>)
        /\ Handled(TableUses \cup {"tables", "retEntry"}, {})
     \/ /\ Refuse(KV_MEMORY_ALLOC_FAILED)
        /\ Handled(TableUses \cup {"tables"}, {})
  /\ corrupt' = TRUE /\ lostTables' = lostTables \ {dbId}
  /\ UNCHANGED <<server, g_srDbCtrlManager, dbsData, capacity>>

\* Mutant: the name is freed, as DMSrCreateDb does, while the table keeps it.
NoTableAnswerFreesName(dbId, json) ==
  /\ IsNewTable(dbId, json) /\ dbId \notin lostTables
  /\ AppendLabel(dbId, json)
  /\ Refuse(KV_MEMORY_ALLOC_FAILED)
  /\ UNCHANGED <<server, g_srDbCtrlManager, memory>>
  /\ Handled(TableUses, {"labelName"})

\* The table is there, but the client is not told.
NoTableAnswer(dbId, json) ==
  /\ IsNewTable(dbId, json) /\ dbId \notin lostTables
  /\ AppendLabel(dbId, json)
  /\ Refuse(KV_MEMORY_ALLOC_FAILED)
  /\ UNCHANGED <<server, g_srDbCtrlManager, memory>>
  /\ Handled(TableUses, {})

InsertData(dbId, labelId) ==
  /\ LookupFails(dbId, labelId) \/ DMSrInsertData(dbId, labelId)
  /\ UNCHANGED memory
  /\ IF server' = "running" THEN Handled({"insertData"}, {}) ELSE Uses({}, {})

\* DB_ASSERT in RtSRInitExecCtxByOpCode.
NoInsertData == server = "running" /\ Dies

QueryTable(dbId, labelId) ==
  /\ \/ LookupFails(dbId, labelId) /\ Handled({}, {})
     \/ DMSrQueryTable(dbId, labelId) /\ Handled({"retEntry"}, {})
     \/ /\ ByDbId /\ LookupStatus(dbId, labelId) = GMERR_OK
        /\ Refuse(KV_MEMORY_ALLOC_FAILED) /\ Handled({}, {})
        /\ UNCHANGED <<server, g_srDbCtrlManager, Catalogue>>
  /\ UNCHANGED memory

\* The first table of a vector without a buffer is a null pointer.
GetDbDesc(dbId) ==
  IF dbId \in lostTables /\ DmGetDbCtrlByDbId(dbId) # 0
    THEN ByDbId /\ Dies
    ELSE /\ DMSrGetDbDesc(dbId)
         /\ UNCHANGED memory
         /\ IF server' = "running" THEN Handled({}, {}) ELSE Uses({}, {})

\* The value of a function without a return statement may be GMERR_OK.
WithoutHandler ==
  /\ NoHandler
  /\ UNCHANGED memory
  /\ \E given \in {{"result"}, {"result", "stmt"}} : Uses({"result", "stmt"}, given)

-----------------------------------------------------------------------------
(* MainWorkerStart                                                         *)

Stop == KVCSrvStop /\ UNCHANGED memory /\ Uses({}, {})

Start ==
  /\ KVCSrvStart
  /\ dbsData' = "none" /\ capacity' = 0 /\ lostTables' = {} /\ corrupt' = FALSE
  /\ Uses({}, {})

\* Allocation k fails.  DbInitTopMemCtx and DbInitMemManager give back what they
\* took, KVMemoryPoolInit does not; main returns.
StartFails ==
  /\ server # "running"
  /\ \E k \in DOMAIN StartUse :
       Uses({StartUse[i] : i \in 1 .. k - 1}, {StartUse[i] : i \in 3 .. k - 1})
  /\ UNCHANGED <<vars, memory>>

-----------------------------------------------------------------------------

RTProcessMain ==
  \/ UnknownOpCode \/ NoResultBuf \/ NoStmt \/ OtherOpCode
  \/ RtHandleAddTest \/ AddTestTraps
  \/ RefusedName \/ NoManagerYet \/ NoInsertData \/ WithoutHandler
  \/ \E dbName \in DbName :
       \/ CreateDb(dbName) \/ CreateDbEarlyFailure(dbName) \/ CreateDbCrashes(dbName)
       \/ DbsGrowthFails(dbName) \/ CreateDbCorrupts(dbName)
       \/ DropDb(dbName)
  \/ \E dbId \in DbId :
       \/ \E json \in Json :
            \/ CreateTable(dbId, json)
            \/ CreateTableEarlyFailure(dbId, json) \/ NoPage(dbId, json)
            \/ TablesGrowthFails(dbId, json) \/ CreateTableCorrupts(dbId, json)
            \/ NoTableAnswer(dbId, json)
       \/ \E labelId \in TableId : InsertData(dbId, labelId) \/ QueryTable(dbId, labelId)
       \/ GetDbDesc(dbId)

RtNext ==
  \/ ~ corrupt /\ RTProcessMain
  \/ Stop
  \/ Start
  \/ StartFails

RtSpec == RtInit /\ [][RtNext]_rtVars

-----------------------------------------------------------------------------
(* Properties                                                              *)

\* Blocks the catalogue refers to, by use.
TableCount == Cardinality(UNION {{<<i, k>> : k \in LabelIndex(i)} : i \in DbIndex})

Reach(use) ==
  CASE use = "manager" -> IF dbsData = "none" THEN 0 ELSE 1
    [] use = "dbs"     -> IF dbsData = "buffer" THEN 1 ELSE 0
    [] use = "dbName"  -> Len(dbCtrlList)
    [] use = "tables"  -> Cardinality({i \in DbIndex : Db(i).dbId \notin lostTables})
    [] use \in {"labelName", "properties", "page"} -> TableCount
    [] OTHER -> 0

\* What the request took of a use and did not give back.
Balance(use) ==
  (IF use \in took THEN 1 ELSE 0) - (IF use \in gave THEN 1 ELSE 0)

Served == running /\ running' /\ ~ corrupt'

\* A request that succeeds leaves no block behind but those the catalogue refers
\* to from then on: statement, row and entry for the answer are all given back,
\* each once (RtHandleSimpleRelOpCode, RtSRSetResultBufByOpCode).  A dropped
\* database is not part of this, its blocks stay.  And when the memory contexts
\* cannot be made (DbInitMemManager), the start leaves the pool's blocks only.
NothingLeftBehind ==
  [][/\ Served /\ rsp'.status = GMERR_OK /\ Len(dbCtrlList)' >= Len(dbCtrlList) =>
          \A use \in Use : Balance(use)' = Reach(use)' - Reach(use)
     /\ ~ running /\ ~ running' =>
          took' \ gave' \subseteq {StartUse[1], StartUse[2]}]_rtVars

\* The database is there, but its answer could not be allocated.
NewDbUntold ==
  Len(dbCtrlList') > Len(dbCtrlList) /\ rsp'.status = KV_MEMORY_ALLOC_FAILED

\* Nothing is given back that the catalogue goes on referring to, and nothing new
\* in it is without a block of its own, whichever allocation fails, but for one:
\* without the answer of a new database DMSrCreateDb frees the name and the
\* vector of tables that the entry it leaves in the catalogue points to.
NothingReachableFreed ==
  [][running /\ running' =>
       \A use \in Use \ (IF NewDbUntold THEN {"dbName", "tables"} ELSE {}) :
         Reach(use)' - Reach(use) <= Balance(use)']_rtVars

\* Only the tables of the i-th database differ.
OnlyTablesOf(i) ==
  /\ Len(dbCtrlList') = Len(dbCtrlList)
  /\ dbCtrlList' = [dbCtrlList EXCEPT ![i].labelCtrlList = Db(i)'.labelCtrlList]

IsWithEmptyTable(i) ==
  \E label \in {Label(i, Len(Db(i).labelCtrlList))'} :
    /\ Db(i)'.labelCtrlList = Append(Db(i).labelCtrlList, label)
    /\ label.labelId = GenSrTableId /\ Rows(label.heapRow) = <<>>

\* A request refused for want of memory changes nothing, but for three cases:
\* a vector of databases, or of one database's tables, whose growth fails is
\* empty to every later request (DbVectorAppendItem); and a table whose answer
\* fails is there, empty, under an id nobody was told (DMSrCreateTable).
FailuresKeepStore ==
  [][Served /\ rsp'.status \in NoMemoryStatus =>
       \/ UNCHANGED dbCtrlList
       \/ dbsData' = "lost"
       \/ \E i \in DbIndex :
            /\ OnlyTablesOf(i)
            /\ IF Db(i).dbId \in lostTables' THEN Db(i)'.labelCtrlList = <<>>
                                              ELSE IsWithEmptyTable(i)]_rtVars

=============================================================================
