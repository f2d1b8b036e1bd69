------------------------------ MODULE SimpleRel ------------------------------
(***************************************************************************)
(* The simple-relation data model of the server: spr_manager.c, spr_db.c,  *)
(* spr_label.c over the row pages of se_heap.c, as requests drive it one   *)
(* after another (one connection).  A request is one action, from the      *)
(* parsed message to the answer.                                           *)
(*                                                                         *)
(* The catalogue is a vector of databases, each with a vector of tables;   *)
(* every lookup is a linear search for the first match.  A vector is a     *)
(* sequence here.  Every allocation succeeds (RtRequest has those that     *)
(* fail).  A JSON schema is what SrParseCreateLabelJson can tell about it. *)
(***************************************************************************)
EXTENDS SrStatus, SEFixedHeap, Sequences

CONSTANTS
  DbName,          \* names in requests that the argument check accepts
  LabelName,       \* table names in schemas
  Json,            \* the schemas in requests
  UINT32,          \* 2^32: sizes and offsets wrap here
  INT_SIZE,        \* sizeof(int32_t)
  NUL,             \* the byte that ends a string
  SR_LABEL_MAX_FILED_CNT,
  FirstGenNum,     \* g_dbGenNum at start, 100100
  TABLE_ID_DIFF,   \* 400000
  MaxGenNum,       \* bound: no more ids are generated
  MaxRowCnt,       \* bound: no more rows go into a table
  NoJson, Malformed, NotArray, Unsupported  \* marks in schemas

\* A schema is NoJson (the empty text), Malformed (no JSON, or no usable
\* labelName), or has a labelName and fields: Malformed (none), NotArray, or
\* a sequence of fields, each Malformed, or with a type and a size.  Sizes are
\* what json_integer_value gives as an int32_t, negative ones included.
JsonField == [type : {"int", "uint32", "string", Unsupported}, size : Int]

JsonLabel ==
  [labelName : LabelName,
   fields    : {Malformed, NotArray} \cup Seq({Malformed} \cup JsonField)]

ASSUME SimpleRelAssumption ==
  /\ UINT32 \in Nat \ {0} /\ INT_SIZE \in Nat \ {0} /\ NUL \in Byte
  /\ FirstGenNum \in Nat \ {0} /\ TABLE_ID_DIFF \in Nat
  /\ MaxGenNum \in Nat /\ FirstGenNum <= MaxGenNum /\ MaxRowCnt \in Nat

ASSUME JsonAssumption == Json \subseteq {NoJson, Malformed} \cup JsonLabel

VARIABLES
  server,            \* "running", "aborted" by a request, "stopped"
  g_srDbCtrlManager, \* the manager has been created
  dbCtrlList,        \* its vector of databases
  g_dbGenNum,        \* the next number for an id
  rsp                \* the answer sent last

vars == <<server, g_srDbCtrlManager, dbCtrlList, g_dbGenNum, rsp>>

-----------------------------------------------------------------------------
(* Vectors and lookups                                                     *)

\* Mutant: the items move up from one place too late.
RemoveItemLate(list, i) ==
  [k \in 1 .. Len(list) - 1 |-> IF k <= i THEN list[k] ELSE list[k + 1]]

\* DbVectorRemoveItem: the items behind the removed one move up by one.
RemoveItem(list, i) ==
  [k \in 1 .. Len(list) - 1 |-> IF k < i THEN list[k] ELSE list[k + 1]]

\* The first index whose item passes the test, 0 if none does.
FirstIndex(list, Test(_)) ==
  LET hits == {i \in 1 .. Len(list) : Test(list[i])}
  IN  IF hits = {} THEN 0 ELSE CHOOSE i \in hits : \A j \in hits : i <= j

DmGetDbCtrlByName(dbName) == FirstIndex(dbCtrlList, LAMBDA d : d.dbName = dbName)

DmGetDbCtrlByDbId(dbId) == FirstIndex(dbCtrlList, LAMBDA d : d.dbId = dbId)

DmGetLabelCtrlByLabelId(d, labelId) ==
  FirstIndex(dbCtrlList[d].labelCtrlList, LAMBDA l : l.labelId = labelId)

IsDbNameExist(dbName) == DmGetDbCtrlByName(dbName) # 0

\* Mutant: the search starts behind the first table.
IsLabelNameExistSkipsFirst(d, labelName) ==
  \E i \in 2 .. Len(dbCtrlList[d].labelCtrlList) :
    dbCtrlList[d].labelCtrlList[i].labelName = labelName

IsLabelNameExist(d, labelName) ==
  \E i \in 1 .. Len(dbCtrlList[d].labelCtrlList) :
    dbCtrlList[d].labelCtrlList[i].labelName = labelName

\* Ids come from one counter; the action that takes one moves the counter on.
GenSrDbId == g_dbGenNum

\* Mutant: tables are numbered after the databases there are.
GenSrTableIdByCount == TABLE_ID_DIFF + FirstGenNum + Len(dbCtrlList)

GenSrTableId == TABLE_ID_DIFF + g_dbGenNum

-----------------------------------------------------------------------------
(* Schemas                                                                 *)

UInt32 == 0 .. UINT32 - 1

\* What the wrappers of kv_json.c answer for a part of a document: an error if it
\* is missing, too long, or of another kind than asked for.
JsonStatus(part) == IF part = Malformed THEN JSON_LIB_ERROR ELSE GMERR_OK

\* What SrParseSingleField answers for a field.
FieldStatus(field) ==
  IF JsonStatus(field) # GMERR_OK THEN JsonStatus(field)
  ELSE IF field.type = Unsupported THEN NOT_SUPPORT
  ELSE GMERR_OK

\* What SrParseCreateLabelJson answers: the first thing that is wrong.  Fields
\* that are not an array are reported in the log, but the status returned is
\* the one of the lookup before, GMERR_OK.
ParseStatus(json) ==
  IF JsonStatus(json) # GMERR_OK THEN JsonStatus(json)
  ELSE IF JsonStatus(json.fields) # GMERR_OK THEN JsonStatus(json.fields)
  ELSE IF json.fields = NotArray THEN GMERR_OK
  ELSE IF Len(json.fields) \notin 1 .. SR_LABEL_MAX_FILED_CNT THEN FIELDS_OUTRANGE
  ELSE LET bad == FirstIndex(json.fields, LAMBDA f : FieldStatus(f) # GMERR_OK)
       IN  IF bad = 0 THEN GMERR_OK ELSE FieldStatus(json.fields[bad])

\* The fields the parse leaves in createLabelCtx: none if it was no array.
ParsedFields(json) == IF json.fields = NotArray THEN <<>> ELSE json.fields

\* SeSetPropertyType; the enumerators for int and uint32 are both 0.
FieldType(type) == IF type = "string" THEN 1 ELSE 0

\* Offsets add up the sizes, in uint32_t.
IsOffsets(offset, fields) ==
  /\ Len(fields) > 0 => offset[1] = 0
  /\ \A i \in 1 .. Len(fields) - 1 :
       offset[i + 1] = (offset[i] + fields[i].size) % UINT32

\* The property array of the table (exactly one per schema).
Properties(fields) ==
  { [i \in 1 .. Len(fields) |-> [fieldType |-> FieldType(fields[i].type),
                                 fieldSize |-> fields[i].size % UINT32,
                                 fldOffset |-> offset[i]]] :
      offset \in {o \in [1 .. Len(fields) -> UInt32] : IsOffsets(o, fields)} }

\* What fldOffset holds after the last field: the size of a row.
RowSize(properties) ==
  LET n == Len(properties)
  IN  IF n = 0 THEN 0
      ELSE (properties[n].fldOffset + properties[n].fieldSize) % UINT32

-----------------------------------------------------------------------------
(* Answers and the life of the server                                      *)

Refuse(status) == rsp' = Answer(status, NoId, <<>>)

Catalogue == <<dbCtrlList, g_dbGenNum>>

\* A failed DB_ASSERT or DB_POINT, or a read of memory that is not there, ends
\* the process; the client gets no answer.
AbortServer ==
  /\ server' = "aborted"
  /\ UNCHANGED <<g_srDbCtrlManager, dbCtrlList, g_dbGenNum, rsp>>

Init ==
  /\ server = "running"
  /\ g_srDbCtrlManager = FALSE
  /\ dbCtrlList = <<>>
  /\ g_dbGenNum = FirstGenNum
  /\ rsp = Answer(GMERR_OK, NoId, <<>>)

\* Tests stop the server and start it anew; everything was in memory.
KVCSrvStop ==
  /\ server = "running"
  /\ server' = "stopped"
  /\ UNCHANGED <<g_srDbCtrlManager, dbCtrlList, g_dbGenNum, rsp>>

KVCSrvStart ==
  /\ server # "running"
  /\ server' = "running"
  /\ g_srDbCtrlManager' = FALSE
  /\ dbCtrlList' = <<>>
  /\ g_dbGenNum' = FirstGenNum
  /\ Refuse(GMERR_OK)

-----------------------------------------------------------------------------
(* Databases                                                               *)

\* SrCheckCreateDbArgs refuses an empty name and one of more than 128 bytes
\* (SR_DB_NAME_MAX_LENGTH), before the manager is looked at.
BadDbArgs(status) ==
  /\ server = "running"
  /\ Refuse(status)
  /\ UNCHANGED <<server, g_srDbCtrlManager, Catalogue>>

\* The new database gets the next id and becomes the last of the vector.
AppendDbCtrl(dbName) ==
  /\ g_dbGenNum < MaxGenNum
  /\ g_dbGenNum' = g_dbGenNum + 1
  /\ dbCtrlList' = Append(dbCtrlList, [dbName |-> dbName,
                                       dbId |-> GenSrDbId,
                                       labelCtrlList |-> <<>>])

DMSrCreateDb(dbName) ==
  /\ server = "running"
  /\ g_srDbCtrlManager' = TRUE   \* GetDbCtrlManager creates it if need be
  /\ IF IsDbNameExist(dbName)
       THEN Refuse(NAME_EXISTED) /\ UNCHANGED Catalogue
       ELSE AppendDbCtrl(dbName) /\ rsp' = Answer(GMERR_OK, GenSrDbId, <<>>)
  /\ UNCHANGED server

DMSrDropDb(dbName) ==
  /\ server = "running"
  /\ g_srDbCtrlManager' = TRUE
  /\ IF ~ IsDbNameExist(dbName)
       THEN Refuse(NAME_NOT_EXISTED) /\ UNCHANGED dbCtrlList
       ELSE /\ dbCtrlList' = RemoveItem(dbCtrlList, DmGetDbCtrlByName(dbName))
            /\ Refuse(GMERR_OK)
  /\ UNCHANGED <<server, g_dbGenNum>>

-----------------------------------------------------------------------------
(* Tables                                                                  *)

\* Every request that names a database by id starts with DmGetDbCtrlByDbId,
\* whose DB_POINT fails while there is no manager.
NoManager ==
  /\ server = "running"
  /\ ~ g_srDbCtrlManager
  /\ AbortServer

ByDbId == server = "running" /\ g_srDbCtrlManager

CreateTableStatus(dbId, json) ==
  LET d == DmGetDbCtrlByDbId(dbId)
  IN  IF d = 0 THEN DB_ID_NOT_EXISTED
      ELSE IF json = NoJson THEN LABEL_JSON_NULL
      ELSE IF ParseStatus(json) # GMERR_OK THEN ParseStatus(json)
      ELSE IF IsLabelNameExist(d, json.labelName) THEN LABEL_NAME_EXISTED
      ELSE GMERR_OK

NewLabel(dbId, json, properties) ==
  [dbId       |-> dbId,
   labelName  |-> json.labelName,
   labelId    |-> GenSrTableId,
   properties |-> properties,
   heapRow    |-> SEFixedHeapInit(RowSize(properties))]

\* The new table gets the next id and becomes the last of its database.
AppendLabel(dbId, json) ==
  /\ g_dbGenNum < MaxGenNum
  /\ g_dbGenNum' = g_dbGenNum + 1
  /\ \E properties \in Properties(ParsedFields(json)) :
       dbCtrlList' =
         [dbCtrlList EXCEPT ![DmGetDbCtrlByDbId(dbId)].labelCtrlList =
            Append(@, NewLabel(dbId, json, properties))]

DMSrCreateTable(dbId, json) ==
  /\ ByDbId
  /\ IF CreateTableStatus(dbId, json) # GMERR_OK
       THEN Refuse(CreateTableStatus(dbId, json)) /\ UNCHANGED Catalogue
       ELSE AppendLabel(dbId, json) /\ rsp' = Answer(GMERR_OK, GenSrTableId, <<>>)
  /\ UNCHANGED <<server, g_srDbCtrlManager>>

\* The checks that DMSrInsertData and DMSrQueryTable make alike.
LookupStatus(dbId, labelId) ==
  LET d == DmGetDbCtrlByDbId(dbId)
  IN  IF d = 0 THEN DB_ID_NOT_EXISTED
      ELSE IF DmGetLabelCtrlByLabelId(d, labelId) = 0 THEN LABEL_ID_NOT_EXISTED
      ELSE GMERR_OK

LookupFails(dbId, labelId) ==
  /\ ByDbId
  /\ LookupStatus(dbId, labelId) # GMERR_OK
  /\ Refuse(LookupStatus(dbId, labelId))
  /\ UNCHANGED <<server, g_srDbCtrlManager, Catalogue>>

\* The row in the request is as long as the client's copy of the schema says,
\* which is as long as the table's rows (RowsFitTheirTables of Client) unless the
\* client fetched its copy from a server that has been restarted since.
DMSrInsertData(dbId, labelId) ==
  /\ ByDbId
  /\ LookupStatus(dbId, labelId) = GMERR_OK
  /\ LET d == DmGetDbCtrlByDbId(dbId)
         l == DmGetLabelCtrlByLabelId(d, labelId)
         heap == dbCtrlList[d].labelCtrlList[l].heapRow
     IN  IF ~ HasRoom(heap) THEN AbortServer
         ELSE /\ heap.rowCnt < MaxRowCnt
              /\ \E rowBuf \in Row(heap.rowSize) :
                   dbCtrlList' =
                     [dbCtrlList EXCEPT ![d].labelCtrlList[l].heapRow =
                        SEFixedHeapInsertRow(@, rowBuf)]
              /\ Refuse(GMERR_OK)
              /\ UNCHANGED <<server, g_srDbCtrlManager, g_dbGenNum>>

DMSrQueryTable(dbId, labelId) ==
  /\ ByDbId
  /\ LookupStatus(dbId, labelId) = GMERR_OK
  /\ LET d == DmGetDbCtrlByDbId(dbId)
         l == DmGetLabelCtrlByLabelId(d, labelId)
     IN  rsp' = Answer(GMERR_OK, NoId, dbCtrlList[d].labelCtrlList[l].properties)
  /\ UNCHANGED <<server, g_srDbCtrlManager, Catalogue>>

\* DmTraceTableRow reads each field of each row where the sizes in the schema put
\* it, a number as a whole, a string up to its end.  The field may lie outside
\* the page, if sizes wrapped or a number was declared too short, and a string
\* need not end inside it: what nobody wrote there may be any byte but NUL.
TraceLeavesPage(label) ==
  \E i \in 1 .. label.heapRow.rowCnt, j \in 1 .. Len(label.properties) :
    LET at == (i - 1) * label.heapRow.rowSize + label.properties[j].fldOffset
    IN  IF label.properties[j].fieldType = FieldType("string")
          THEN \A k \in PageByte : at <= k => label.heapRow.page[k] # NUL
          ELSE at + INT_SIZE > SE_HEAP_PAGE_SIZE

\* Prints the tables and their rows on the server's own output.  A read outside a
\* page may find anything, or no memory at all.
DMSrGetDbDesc(dbId) ==
  LET d == DmGetDbCtrlByDbId(dbId)
  IN  /\ ByDbId
      /\ \/ /\ Refuse(IF d = 0 THEN DB_ID_NOT_EXISTED ELSE GMERR_OK)
            /\ UNCHANGED <<server, g_srDbCtrlManager, Catalogue>>
         \/ /\ d # 0
            /\ \E l \in 1 .. Len(dbCtrlList[d].labelCtrlList) :
                 TraceLeavesPage(dbCtrlList[d].labelCtrlList[l])
            /\ AbortServer

\* OP_SIMREL_DROP_TABLE, OP_SIMREL_DELETE_DATA and OP_SIMREL_QUERY_DATA leave
\* EEProcessSimpleRelationOpcode by its end, without a value.
NoHandler ==
  /\ server = "running"
  /\ Refuse(INDETERMINATE)
  /\ UNCHANGED <<server, g_srDbCtrlManager, Catalogue>>

-----------------------------------------------------------------------------

DbId == FirstGenNum .. MaxGenNum

TableId == {TABLE_ID_DIFF + n : n \in DbId}

Id == DbId \cup TableId

\* Ids in requests: any that are, were, or will be given out.
Next ==
  \/ \E dbName \in DbName : DMSrCreateDb(dbName) \/ DMSrDropDb(dbName)
  \/ \E status \in BadNameStatus : BadDbArgs(status)
  \/ NoManager
  \/ NoHandler
  \/ \E dbId \in DbId :
       \/ \E json \in Json : DMSrCreateTable(dbId, json)
       \/ \E labelId \in TableId : \/ LookupFails(dbId, labelId)
                                   \/ DMSrInsertData(dbId, labelId)
                                   \/ DMSrQueryTable(dbId, labelId)
       \/ DMSrGetDbDesc(dbId)
  \/ KVCSrvStop
  \/ KVCSrvStart

Spec == Init /\ [][Next]_vars

-----------------------------------------------------------------------------
(* Properties                                                              *)

Property == [fieldType : {0, 1},
             fieldSize : UInt32,
             fldOffset : UInt32]

SrLabelT == [dbId       : DbId,
             labelName  : LabelName,
             labelId    : TableId,
             properties : Seq(Property),
             heapRow    : FixedHeapT]

SrDbCtrlT == [dbName        : DbName,
              dbId          : DbId,
              labelCtrlList : Seq(SrLabelT)]

TypeOK ==
  /\ server \in {"running", "aborted", "stopped"}
  /\ g_srDbCtrlManager \in BOOLEAN
  /\ dbCtrlList \in Seq(SrDbCtrlT)
  /\ g_dbGenNum \in Nat
  /\ rsp \in [status : Status, id : Id \cup {NoId}, fields : Seq(Property)]

Db(i) == dbCtrlList[i]

Label(i, k) == dbCtrlList[i].labelCtrlList[k]

DbIndex == 1 .. Len(dbCtrlList)

LabelIndex(i) == 1 .. Len(Db(i).labelCtrlList)

\* Searches stop at the first match, so a second entry with the same name or
\* id could never be reached, dropped or filled again.  No two databases have
\* one name or one id, and no two tables of a database have one name.
NamesUnique ==
  \A i, j \in DbIndex :
    /\ Db(i).dbName = Db(j).dbName \/ Db(i).dbId = Db(j).dbId => i = j
    /\ \A k, l \in LabelIndex(i) :
         Label(i, k).labelName = Label(i, l).labelName => k = l

\* Every table knows the database that holds it, no two tables anywhere have
\* one id, and no id that is still to be generated is in use: with the names
\* this is what makes an id in a later request find the thing it was given for.
IdsIdentify ==
  /\ \A i \in DbIndex : Db(i).dbId < g_dbGenNum
  /\ \A i \in DbIndex : \A k \in LabelIndex(i) :
       /\ Label(i, k).dbId = Db(i).dbId
       /\ Label(i, k).labelId < TABLE_ID_DIFF + g_dbGenNum
  /\ \A i, j \in DbIndex : \A k \in LabelIndex(i), l \in LabelIndex(j) :
       Label(i, k).labelId = Label(j, l).labelId => i = j /\ k = l

\* The row counter and the byte position of every page agree, whatever sizes
\* the schema asked for, and the rows counted are inside the page.
PagesConsistent ==
  \A i \in DbIndex : \A k \in LabelIndex(i) :
    /\ HeapConsistent(Label(i, k).heapRow)
    /\ Label(i, k).heapRow.rowSize = RowSize(Label(i, k).properties)

\* The rows of a page before and after: there are more, or as many, and those
\* that were there are the same.
RowsKept(old, new) ==
  /\ Len(Rows(old)) <= Len(Rows(new))
  /\ \A r \in 1 .. Len(Rows(old)) : Rows(new)[r] = Rows(old)[r]

RowsStayInStep ==
  server = "running" =>
    \A i \in DbIndex : \A k \in LabelIndex(i) :
      \A j \in DbIndex' : \A l \in LabelIndex(j)' :
        Label(i, k).labelId = Label(j, l)'.labelId =>
          RowsKept(Label(i, k).heapRow, Label(j, l)'.heapRow)

\* What DmTraceTableRow reads of a table now, it reads in every later state that
\* still has the table: rows are only ever added, behind the ones there are,
\* by no request to another table, and by no removal of another database.
RowsStay == [][RowsStayInStep]_vars

\* What the catalogue stands for: databases and tables found by their ids, the
\* way a request finds them.
Tables(i) ==
  [t \in {Label(i, k).labelId : k \in LabelIndex(i)} |->
     LET label == Label(i, DmGetLabelCtrlByLabelId(i, t))
     IN  [name   |-> label.labelName,
          fields |-> label.properties,
          rows   |-> Rows(label.heapRow)]]

StoreNow ==
  [d \in {Db(i).dbId : i \in DbIndex} |->
     LET i == DmGetDbCtrlByDbId(d)
     IN  [name |-> Db(i).dbName, tables |-> Tables(i)]]

\* The property arrays that schemas lead to.
TableFields ==
  UNION {Properties(ParsedFields(json)) :
           json \in {j \in Json \ {NoJson} : ParseStatus(j) = GMERR_OK}}

running == server = "running"

\* What TraceLeavesPage means for the rows of a table: a number that does not
\* end within a page's length, a string without its end in this or a later row.
UnreadableRows(properties, rows) ==
  LET size == RowSize(properties)
  IN  \E i \in 1 .. Len(rows), j \in 1 .. Len(properties) :
        LET at == (i - 1) * size + properties[j].fldOffset
        IN  IF properties[j].fieldType = FieldType("string")
              THEN \A r \in 1 .. Len(rows), k \in 0 .. size - 1 :
                     at <= (r - 1) * size + k => rows[r][k] # NUL
              ELSE at + INT_SIZE > SE_HEAP_PAGE_SIZE

Store == INSTANCE RelStore WITH
  Fields    <- TableFields,
  RowOf     <- LAMBDA properties : Row(RowSize(properties)),
  NoRoom    <- LAMBDA properties, n :
                 (n + 1) * RowSize(properties) > SE_HEAP_PAGE_SIZE,
  Unreadable <- UnreadableRows,
  opened    <- running /\ g_srDbCtrlManager,
  store     <- IF running THEN StoreNow ELSE [d \in {} |-> d],
  usedDb    <- IF running THEN {id \in DbId : id < g_dbGenNum} ELSE {},
  usedTable <- IF running THEN {id \in TableId : id < TABLE_ID_DIFF + g_dbGenNum}
                          ELSE {}

\* The vectors, searches and pages implement the store of RelStore: every
\* request finds what an id was given for, a refusal is given only for its
\* reason and changes nothing, a table reads back the rows that were inserted,
\* and the server dies in no other case than the three of RelStore.
ImplementsStore == Store!Spec

\* Each handler does what the store says of this very request: the database
\* that is dropped is the one named, a row goes into the table asked for, and a
\* refusal is for the names and ids in the request, not for others.
HandlerImplementsRequest ==
  /\ \A dbName \in DbName :
       /\ DMSrCreateDb(dbName) => Store!CreateDb(dbName)
       /\ DMSrDropDb(dbName) => Store!DropDb(dbName)
  /\ \A dbId \in DbId :
       /\ DMSrGetDbDesc(dbId) =>
            \/ Store!UnknownDb(dbId) \/ Store!DescribeDb(dbId)
            \/ Store!DescriptionCrashes(dbId)
       /\ \A json \in Json :
            DMSrCreateTable(dbId, json) =>
              \/ Store!UnknownDb(dbId)
              \/ Store!CreateTableRefused(dbId)
              \/ \E fields \in Properties(ParsedFields(json)) :
                   Store!CreateTable(dbId, json.labelName, fields)
       /\ \A labelId \in TableId :
            /\ LookupFails(dbId, labelId) =>
                 Store!UnknownDb(dbId) \/ Store!UnknownTable(dbId, labelId)
            /\ DMSrInsertData(dbId, labelId) =>
                 Store!InsertData(dbId, labelId) \/ Store!Overflow(dbId, labelId)
            /\ DMSrQueryTable(dbId, labelId) => Store!QueryTable(dbId, labelId)

HandlersImplementRequests == [][HandlerImplementsRequest]_vars

=============================================================================
