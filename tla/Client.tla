-------------------------------- MODULE Client --------------------------------
(***************************************************************************)
(* The client library (client_connect.c, client_simple_relation.c) over    *)
(* the server that RelStore specifies: what calls return, the ids that     *)
(* they hand out, and statements, which keep a copy of a table's           *)
(* definition.                                                             *)
(*                                                                         *)
(* A call sends one request and waits for one answer; the server handles   *)
(* the requests of all clients one at a time, each as RelStore says.  A    *)
(* row is named by the definition it was made for; RowCodec has its bytes, *)
(* MainWorker the sockets and threads.  This is one life of the server,    *)
(* which may end under the calls of its clients; SimpleRel and MainWorker  *)
(* have restarts.                                                          *)
(***************************************************************************)
EXTENDS SrStatus, Integers, Sequences, FiniteSets

CONSTANTS
  Client,
  DbName, LabelName,
  Schema,      \* field lists that the server accepts, the empty one included
  BadSchema,   \* a schema that the server refuses
  DbId, TableId,
  RowsPerPage, \* a table has room for this many rows
  Wild,        \* field lists that let a description read outside the page
  NULL,        \* no statement, no definition in it, no request
  Failed       \* KVCSend or KVCRecv returns an error

ASSUME ClientAssumption ==
  /\ DbId \subseteq Nat \ {0} /\ TableId \subseteq Nat \ {0}
  /\ DbId \cap TableId = {}
  /\ IsFiniteSet(DbId) /\ IsFiniteSet(TableId)
  /\ RowsPerPage \in Nat
  /\ NULL \notin Schema /\ Failed \notin Status

VARIABLES
  server, opened, store, usedDb, usedTable, rsp,  \* see RelStore
  connection, \* "none" yet, "open", "unserved" without a thread at its other
              \* end, or "broken" by the end of the server
  request,    \* of the call under way
  answer,     \* what KVCRecv read, NULL before
  held,       \* the ids that create calls left, and the name of the database
  stmt,       \* the client's statement
  result      \* of the last call: its return value and the server's status

serverVars == <<server, opened, store, usedDb, usedTable, rsp>>

vars == <<serverVars, connection, request, answer, held, stmt, result>>

Server == INSTANCE RelStore WITH
  Fields <- Schema,
  RowOf  <- LAMBDA fields : Schema,
  NoRoom <- LAMBDA fields, n : n >= RowsPerPage,
  Unreadable <- LAMBDA fields, rows : fields \in Wild /\ rows # <<>>

NothingHeld == [dbId |-> NoId, dbName |-> NULL, labelId |-> NoId]

NoResult == [ret |-> GMERR_OK, status |-> GMERR_OK]

Init ==
  /\ Server!Init
  /\ connection = [c \in Client |-> "none"]
  /\ request = [c \in Client |-> NULL]
  /\ answer = [c \in Client |-> NULL]
  /\ held = [c \in Client |-> NothingHeld]
  /\ stmt = [c \in Client |-> NULL]
  /\ result = [c \in Client |-> NoResult]

-----------------------------------------------------------------------------
(* The server                                                              *)

\* The ids that are used up when one more was given out: they go up.
OneMore(used, Ids) == used \cup {i \in Ids \ used : \A j \in Ids \ used : i <= j}

Refuses(q) == q.schema = BadSchema \/ Server!TableNameInUse(q.dbId, q.labelName)

\* A request that names a database by its id, and maybe a table.
HandleById(q) ==
  \/ Server!UnknownDb(q.dbId)
  \/ q.op = "DFX_DB_DESC" /\ q.dbId \in DOMAIN store /\ Server!DescribeDb(q.dbId)
  \/ /\ q.op = "CREATE_TABLE" /\ q.dbId \in DOMAIN store
     /\ \/ Refuses(q) /\ Server!CreateTableRefused(q.dbId)
        \/ /\ ~ Refuses(q)
           /\ usedDb' = usedDb /\ usedTable' = OneMore(usedTable, TableId)
           /\ Server!CreateTable(q.dbId, q.labelName, q.schema)
  \/ /\ q.op \in {"INSERT_DATA", "QUERY_TABLE"}
     /\ Server!UnknownTable(q.dbId, q.labelId)

FindsTable(q) ==
  /\ q.op \in {"INSERT_DATA", "QUERY_TABLE"}
  /\ q.dbId \in DOMAIN store /\ q.labelId \in DOMAIN store[q.dbId].tables

HandleTable(q) ==
  \/ q.op = "QUERY_TABLE" /\ Server!QueryTable(q.dbId, q.labelId)
  \/ /\ q.op = "INSERT_DATA" /\ Server!InsertData(q.dbId, q.labelId)
     /\ LET rows == store'[q.dbId].tables[q.labelId].rows
        IN  rows[Len(rows)] = q.row

NamesDb(q) == q.op \in {"CREATE_DB", "DROP_DB"}

Handle(q) ==
  \/ /\ q.op = "CREATE_DB"
     /\ usedDb' = IF Server!NameInUse(q.dbName) THEN usedDb ELSE OneMore(usedDb, DbId)
     /\ usedTable' = usedTable
     /\ Server!CreateDb(q.dbName)
  \/ q.op = "DROP_DB" /\ Server!DropDb(q.dbName)
  \/ /\ ~ NamesDb(q) /\ opened /\ UNCHANGED opened
     /\ HandleById(q) \/ (FindsTable(q) /\ HandleTable(q))

Connected(c) == connection[c] \in {"open", "unserved"}

Waits(c) == connection[c] = "open" /\ request[c] # NULL /\ answer[c] = NULL

\* Mutant: a request that is refused gets no answer.
ServeOnlySuccess(c) ==
  /\ Waits(c)
  /\ Handle(request[c])
  /\ UNCHANGED server
  /\ answer' = [answer EXCEPT ![c] = IF rsp'.status = GMERR_OK THEN rsp' ELSE @]
  /\ UNCHANGED <<connection, request, held, stmt, result>>

\* RTProcessMain and the answer that client_handler writes.
Serve(c) ==
  /\ Waits(c)
  /\ Handle(request[c])
  /\ UNCHANGED server
  /\ answer' = [answer EXCEPT ![c] = rsp']
  /\ UNCHANGED <<connection, request, held, stmt, result>>

BreakConnections ==
  connection' = [c \in Client |-> IF Connected(c) THEN "broken" ELSE connection[c]]

\* An assertion fails in the server, or it reads memory that is not there, and it
\* ends without an answer.
ServeAborts(c) ==
  /\ Waits(c)
  /\ \/ ~ NamesDb(request[c]) /\ Server!TooEarly
     \/ /\ request[c].op = "INSERT_DATA" /\ FindsTable(request[c])
        /\ Server!Overflow(request[c].dbId, request[c].labelId)
     \/ /\ request[c].op = "DFX_DB_DESC" /\ request[c].dbId \in DOMAIN store
        /\ Server!DescriptionCrashes(request[c].dbId)
  /\ BreakConnections
  /\ UNCHANGED <<request, answer, held, stmt, result>>

-----------------------------------------------------------------------------
(* Calls                                                                   *)

\* A client whose own assertion failed makes no more calls.
Idle(c) == request[c] = NULL /\ result[c].ret # "aborted"

\* A call on a connection that is broken already fails like one whose connection
\* breaks while it waits, and is left out.
MayAsk(c) == Idle(c) /\ Connected(c)

Ask(c, q) ==
  /\ request' = [request EXCEPT ![c] = q]
  /\ result' = [result EXCEPT ![c] = NoResult]
  /\ UNCHANGED <<serverVars, connection, answer, held>>

\* The server hands a new connection to a thread through one variable, clnt_sock,
\* and when the next one is accepted before the thread has read it, this one never
\* gets a thread (MainWorkerStart; MainWorker has how).
KVCConnect(c) ==
  /\ Idle(c) /\ ~ Connected(c) /\ server = "running"
  /\ \E to \in {"open", "unserved"} : connection' = [connection EXCEPT ![c] = to]
  /\ UNCHANGED <<serverVars, request, answer, held, stmt, result>>

\* Calls of this kind that the server has not handled.
Pending(op) == {c \in Client : /\ request[c] # NULL /\ answer[c] = NULL
                               /\ request[c].op = op}

PendingFor(op, dbName) == \E c \in Pending(op) : request[c].dbName = dbName

\* Bound: ids are left for the calls under way and n more.
DbIdsLeft(n) == Cardinality(usedDb) + Cardinality(Pending("CREATE_DB")) + n
                  <= Cardinality(DbId)

\* When the ids are used up, only names that are taken are asked for, and stay so
\* until the server has refused them.
SRCCreateDb(c, dbName) ==
  /\ MayAsk(c)
  /\ DbIdsLeft(1) \/ (Server!NameInUse(dbName) /\ ~ PendingFor("DROP_DB", dbName))
  /\ Ask(c, [op |-> "CREATE_DB", dbName |-> dbName])
  /\ UNCHANGED stmt

SRCDeleteDb(c, dbName) ==
  /\ MayAsk(c)
  /\ DbIdsLeft(0) \/ ~ PendingFor("CREATE_DB", dbName)
  /\ Ask(c, [op |-> "DROP_DB", dbName |-> dbName])
  /\ UNCHANGED stmt

SRCCreateLabelWithJson(c, labelName, schema) ==
  /\ MayAsk(c)
  /\ Cardinality(usedTable) + Cardinality(Pending("CREATE_TABLE")) < Cardinality(TableId)
  /\ Ask(c, [op |-> "CREATE_TABLE", dbId |-> held[c].dbId,
             labelName |-> labelName, schema |-> schema])
  /\ UNCHANGED stmt

SRCTraceDbDesc(c) ==
  /\ MayAsk(c)
  /\ Ask(c, [op |-> "DFX_DB_DESC", dbId |-> held[c].dbId])
  /\ UNCHANGED stmt

\* A statement for the table that client o has made.
KVCPrepareStmt(c, o) ==
  /\ MayAsk(c) /\ stmt[c] = NULL
  /\ stmt' = [stmt EXCEPT ![c] = [dbId |-> held[o].dbId, labelId |-> held[o].labelId,
                                  tableSchema |-> NULL]]
  /\ Ask(c, [op |-> "QUERY_TABLE", dbId |-> held[o].dbId, labelId |-> held[o].labelId])

\* Mutant: the old statement is given the new ids.
KVCPrepareStmtRenames(c, o) ==
  /\ Idle(c) /\ stmt[c] # NULL
  /\ stmt' = [stmt EXCEPT ![c].dbId = held[o].dbId, ![c].labelId = held[o].labelId]
  /\ result' = [result EXCEPT ![c] = NoResult]
  /\ UNCHANGED <<serverVars, connection, request, answer, held>>

\* The pointer is not NULL: the old statement stays, whatever ids were asked for.
KVCPrepareStmtAgain(c, o) ==
  /\ Idle(c) /\ stmt[c] # NULL
  /\ result' = [result EXCEPT ![c] = NoResult]
  /\ UNCHANGED <<serverVars, connection, request, answer, held, stmt>>

KVCReleaseStmt(c) ==
  /\ Idle(c) /\ stmt[c] # NULL
  /\ stmt' = [stmt EXCEPT ![c] = NULL]
  /\ result' = [result EXCEPT ![c] = NoResult]
  /\ UNCHANGED <<serverVars, connection, request, answer, held>>

SRCInsertData(c) ==
  /\ Idle(c) /\ stmt[c] # NULL /\ stmt[c].tableSchema # NULL
  /\ Ask(c, [op |-> "INSERT_DATA", dbId |-> stmt[c].dbId, labelId |-> stmt[c].labelId,
             row |-> stmt[c].tableSchema])
  /\ UNCHANGED stmt

AbortClient(c) ==
  /\ request' = [request EXCEPT ![c] = NULL]
  /\ answer' = [answer EXCEPT ![c] = NULL]
  /\ result' = [result EXCEPT ![c] = [ret |-> "aborted", status |-> GMERR_OK]]

\* DB_POINT2 of a statement whose definition never arrived.
SRCInsertDataNoSchema(c) ==
  /\ Idle(c) /\ stmt[c] # NULL /\ stmt[c].tableSchema = NULL
  /\ AbortClient(c)
  /\ UNCHANGED <<serverVars, connection, held, stmt>>

-----------------------------------------------------------------------------
(* Answers                                                                 *)

\* The connection ended: read returns -1, or 0, and then the answer is what was
\* in an uninitialised buffer.
KVCRecvEnd(c) ==
  /\ request[c] # NULL /\ answer[c] = NULL /\ connection[c] = "broken"
  /\ \/ answer' = [answer EXCEPT ![c] = Failed]
     \/ \E status \in {GMERR_OK, INDETERMINATE},
           id     \in IF request[c].op = "CREATE_DB" THEN DbId ELSE {NoId},
           fields \in IF request[c].op = "QUERY_TABLE" THEN Schema ELSE {<<>>} :
          answer' = [answer EXCEPT ![c] = Answer(status, id, fields)]
  /\ UNCHANGED <<serverVars, connection, request, held, stmt, result>>

Answered(c) == answer[c] # NULL /\ answer[c] # Failed

Return(c, ret, status) ==
  /\ request' = [request EXCEPT ![c] = NULL]
  /\ answer' = [answer EXCEPT ![c] = NULL]
  /\ result' = [result EXCEPT ![c] = [ret |-> ret, status |-> status]]
  /\ UNCHANGED <<serverVars, connection>>

CallFails(c) ==
  /\ answer[c] = Failed
  /\ Return(c, Failed, Failed)
  /\ UNCHANGED <<held, stmt>>

\* Without a callback the status is logged, and the return value is that of
\* KVCRecv.
RspWithoutCb(c) ==
  /\ Answered(c) /\ request[c].op \in {"DROP_DB", "DFX_DB_DESC", "INSERT_DATA"}
  /\ Return(c, GMERR_OK, answer[c].status)
  /\ UNCHANGED <<held, stmt>>

\* Mutant: the id is left as it was when the server refuses.
NewIdOrOld(c, old) == IF answer[c].status = GMERR_OK THEN answer[c].id ELSE old

\* SrParseCreateDbRspCb returns early when the server refuses, with result.ret
\* still 0, so that the caller takes the id from a result of zeros.
NewId(c, old) == IF answer[c].status = GMERR_OK THEN answer[c].id ELSE NoId

SrParseCreateDbRspCb(c) ==
  /\ Answered(c) /\ request[c].op = "CREATE_DB"
  /\ held' = [held EXCEPT ![c].dbId = NewId(c, @),
                          ![c].dbName = request[c].dbName]
  /\ Return(c, GMERR_OK, answer[c].status)
  /\ UNCHANGED stmt

SrParseCreateTableRspCb(c) ==
  /\ Answered(c) /\ request[c].op = "CREATE_TABLE"
  /\ held' = [held EXCEPT ![c].labelId = NewId(c, @)]
  /\ Return(c, GMERR_OK, answer[c].status)
  /\ UNCHANGED stmt

HasNoFields(c) == answer[c].status = GMERR_OK /\ answer[c].fields = <<>>

\* Mutant: no assertion.
SrParseTableAny(c) ==
  /\ Answered(c) /\ request[c].op = "QUERY_TABLE"
  /\ stmt' = [stmt EXCEPT ![c].tableSchema =
                IF answer[c].status = GMERR_OK THEN answer[c].fields ELSE @]
  /\ Return(c, GMERR_OK, answer[c].status)
  /\ UNCHANGED held

SrParseQueryTblRspCb(c) ==
  /\ Answered(c) /\ request[c].op = "QUERY_TABLE" /\ ~ HasNoFields(c)
  /\ stmt' = [stmt EXCEPT ![c].tableSchema =
                IF answer[c].status = GMERR_OK THEN answer[c].fields ELSE @]
  /\ Return(c, GMERR_OK, answer[c].status)
  /\ UNCHANGED held

\* DB_ASSERT(fldNum > 0) in SrParseTable.
SrParseTableAsserts(c) ==
  /\ Answered(c) /\ request[c].op = "QUERY_TABLE" /\ HasNoFields(c)
  /\ AbortClient(c)
  /\ UNCHANGED <<serverVars, connection, held, stmt>>

-----------------------------------------------------------------------------

Call(c) ==
  \/ KVCConnect(c)
  \/ \E dbName \in DbName : SRCCreateDb(c, dbName) \/ SRCDeleteDb(c, dbName)
  \/ \E labelName \in LabelName, schema \in Schema \cup {BadSchema} :
       SRCCreateLabelWithJson(c, labelName, schema)
  \/ SRCTraceDbDesc(c)
  \/ \E o \in Client : KVCPrepareStmt(c, o) \/ KVCPrepareStmtAgain(c, o)
  \/ KVCReleaseStmt(c)
  \/ SRCInsertData(c) \/ SRCInsertDataNoSchema(c)

Parse(c) ==
  \/ KVCRecvEnd(c) \/ CallFails(c)
  \/ RspWithoutCb(c)
  \/ SrParseCreateDbRspCb(c) \/ SrParseCreateTableRspCb(c)
  \/ SrParseQueryTblRspCb(c) \/ SrParseTableAsserts(c)

Next ==
  \E c \in Client : Call(c) \/ Serve(c) \/ ServeAborts(c) \/ Parse(c)

Spec == Init /\ [][Next]_vars

\* A thread serves the client it was handed, and a client that waits reads.  No
\* thread is promised: Serve is never enabled for a client without one.
FairSpec ==
  /\ Spec
  /\ \A c \in Client : WF_vars(Serve(c) \/ ServeAborts(c)) /\ WF_vars(Parse(c))

-----------------------------------------------------------------------------
(* Properties                                                              *)

Request ==
  [op : {"CREATE_DB", "DROP_DB"}, dbName : DbName]
  \cup [op : {"CREATE_TABLE"}, dbId : DbId \cup {NoId}, labelName : LabelName,
        schema : Schema \cup {BadSchema}]
  \cup [op : {"DFX_DB_DESC"}, dbId : DbId \cup {NoId}]
  \cup [op : {"QUERY_TABLE"}, dbId : DbId \cup {NoId}, labelId : TableId \cup {NoId}]
  \cup [op : {"INSERT_DATA"}, dbId : DbId \cup {NoId}, labelId : TableId \cup {NoId},
        row : Schema \ {<<>>}]

Answers == [status : Status, id : DbId \cup TableId \cup {NoId}, fields : Schema \cup {<<>>}]

TypeOK ==
  /\ connection \in [Client -> {"none", "open", "unserved", "broken"}]
  /\ request \in [Client -> Request \cup {NULL}]
  /\ answer \in [Client -> Answers \cup {NULL, Failed}]
  /\ held \in [Client -> [dbId    : DbId \cup {NoId},
                          dbName  : DbName \cup {NULL},
                          labelId : TableId \cup {NoId}]]
  /\ stmt \in [Client -> {NULL} \cup [dbId        : DbId \cup {NoId},
                                      labelId     : TableId \cup {NoId},
                                      tableSchema : (Schema \ {<<>>}) \cup {NULL}]]
  /\ result \in [Client -> [ret    : {GMERR_OK, Failed, "aborted"},
                            status : Status \cup {Failed}]]

\* Every row in a table was made for the definition of that very table, though
\* it was made from a copy that a client fetched long before, and the database
\* may have been dropped and another made in between.  A statement works on one
\* table, as the comment on CliStmtT says; SEFixedHeapInsertRow, which copies
\* as many bytes as the table's rows have, relies on it.
RowsFitTheirTables ==
  \A d \in DOMAIN store : \A t \in DOMAIN store[d].tables :
    LET table == store[d].tables[t]
    IN  \A i \in 1 .. Len(table.rows) : table.rows[i] = table.fields

\* The id that a client holds from its last SRCCreateDb is none, names the
\* database it asked for, or names nothing any more: never another database,
\* though a refused call hands out an id too.
HeldIdsNameTheirDb ==
  \A c \in Client :
    held[c].dbId \in DOMAIN store => store[held[c].dbId].name = held[c].dbName

\* Every call returns, or ends its client in an assertion, also when the server
\* ends under it; but for the calls of a client that MainWorkerStart has handed
\* to no thread, which wait for as long as the server lives.
CallsReturn ==
  \A c \in Client :
    request[c] # NULL ~> request[c] = NULL \/ connection[c] = "unserved"

=============================================================================
