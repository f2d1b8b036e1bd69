------------------------------ MODULE RelStore ------------------------------
(***************************************************************************)
(* What the simple-relation data model promises a client, without its      *)
(* vectors, pages and name searches: databases found by an id, each with a *)
(* name nobody else has and with tables found by an id, each with a name   *)
(* nobody else in the database has, a list of fields, and the rows that    *)
(* were inserted, in order.  Ids are never given out twice while the       *)
(* server lives.  A request that is refused changes nothing, and each      *)
(* refusal is only given when its reason holds.                            *)
(***************************************************************************)
EXTENDS SrStatus, Integers, Sequences, Functions

CONSTANTS
  DbName, LabelName,  \* names requests can carry
  DbId, TableId,      \* ids of databases and of tables
  Fields,             \* field lists a table can have
  RowOf(_),           \* the rows that fit these fields
  NoRoom(_, _),       \* (fields, number of rows): no further row has room
  Unreadable(_, _)    \* (fields, rows): reading them may end the server

VARIABLES
  server,     \* "running", "aborted" by a request, or "stopped"
  opened,     \* some request named a database since the server was started
  store,      \* [db id -> [name, tables : [table id -> [name, fields, rows]]]]
  usedDb,     \* database ids that will not be given out (again)
  usedTable,  \* table ids that will not be given out (again)
  rsp         \* the last answer sent

vars == <<server, opened, store, usedDb, usedTable, rsp>>

EmptyFcn == [x \in {} |-> x]

Extend(f, x, v) == [y \in DOMAIN f \cup {x} |-> IF y = x THEN v ELSE f[y]]

Init ==
  /\ server = "running"
  /\ opened = FALSE
  /\ store = EmptyFcn
  /\ usedDb = {}
  /\ usedTable = {}
  /\ rsp = Answer(GMERR_OK, NoId, <<>>)

NameInUse(name) == \E d \in DOMAIN store : store[d].name = name

TableNameInUse(d, name) ==
  \E t \in DOMAIN store[d].tables : store[d].tables[t].name = name

Undescribable(d) ==
  \E t \in DOMAIN store[d].tables :
    Unreadable(store[d].tables[t].fields, store[d].tables[t].rows)

Full(d, t) ==
  NoRoom(store[d].tables[t].fields, Len(store[d].tables[t].rows))

Say(status) == rsp' = Answer(status, NoId, <<>>)

Refuse(status) == Say(status) /\ UNCHANGED <<store, usedDb, usedTable>>

\* The argument is no name, or the request has no handler.
Ignore ==
  /\ \E status \in BadNameStatus \cup {INDETERMINATE} : Refuse(status)
  /\ UNCHANGED opened

CreateDb(name) ==
  /\ opened' = TRUE
  /\ \/ NameInUse(name) /\ Refuse(NAME_EXISTED)
     \/ /\ ~ NameInUse(name)
        /\ \E id \in DbId \ usedDb :
             /\ store' = Extend(store, id, [name |-> name, tables |-> EmptyFcn])
             /\ usedDb \cup {id} \subseteq usedDb'
             /\ usedTable \subseteq usedTable'
             /\ rsp' = Answer(GMERR_OK, id, <<>>)

DropDb(name) ==
  /\ opened' = TRUE
  /\ \/ ~ NameInUse(name) /\ Refuse(NAME_NOT_EXISTED)
     \/ /\ \E d \in DOMAIN store :
             /\ store[d].name = name
             /\ store' = Restrict(store, DOMAIN store \ {d})
        /\ Say(GMERR_OK)
        /\ UNCHANGED <<usedDb, usedTable>>

UnknownDb(d) == d \notin DOMAIN store /\ Refuse(DB_ID_NOT_EXISTED)

UnknownTable(d, t) ==
  /\ d \in DOMAIN store
  /\ t \notin DOMAIN store[d].tables
  /\ Refuse(LABEL_ID_NOT_EXISTED)

CreateTable(d, name, fields) ==
  /\ ~ TableNameInUse(d, name)
  /\ \E id \in TableId \ usedTable :
       /\ store' = [store EXCEPT ![d].tables =
                      Extend(@, id, [name |-> name, fields |-> fields,
                                     rows |-> <<>>])]
       /\ usedTable \cup {id} \subseteq usedTable'
       /\ usedDb \subseteq usedDb'
       /\ rsp' = Answer(GMERR_OK, id, <<>>)

CreateTableRefused(d) ==
  \/ \E status \in BadSchemaStatus : Refuse(status)
  \/ \E name \in LabelName : TableNameInUse(d, name) /\ Refuse(LABEL_NAME_EXISTED)

InsertData(d, t) ==
  /\ ~ Full(d, t)
  /\ \E row \in RowOf(store[d].tables[t].fields) :
       store' = [store EXCEPT ![d].tables[t].rows = Append(@, row)]
  /\ Say(GMERR_OK)
  /\ UNCHANGED <<usedDb, usedTable>>

QueryTable(d, t) ==
  /\ rsp' = Answer(GMERR_OK, NoId, store[d].tables[t].fields)
  /\ UNCHANGED <<store, usedDb, usedTable>>

DescribeDb(d) == Refuse(GMERR_OK)

\* Requests that name a database by its id.
ById ==
  /\ opened
  /\ UNCHANGED opened
  /\ \/ \E d \in DbId : \/ UnknownDb(d)
                        \/ \E t \in TableId : UnknownTable(d, t)
     \/ \E d \in DOMAIN store :
          \/ DescribeDb(d)
          \/ CreateTableRefused(d)
          \/ \E name \in LabelName, fields \in Fields :
               CreateTable(d, name, fields)
          \/ \E t \in DOMAIN store[d].tables : QueryTable(d, t) \/ InsertData(d, t)

Request ==
  /\ UNCHANGED server
  /\ \/ Ignore
     \/ \E name \in DbName : CreateDb(name) \/ DropDb(name)
     \/ ById

\* Nothing survives the process.
Lose ==
  /\ store' = EmptyFcn
  /\ usedDb' = {}
  /\ usedTable' = {}
  /\ opened' = FALSE
  /\ UNCHANGED rsp

Crash == server' = "aborted" /\ Lose

\* The only requests that kill the server: one that names an id before any
\* request has named a database, a row for a table that is full, and, though it
\* may as well be answered, the description of a database with a table that
\* cannot be read safely.
TooEarly == ~ opened /\ Crash

Overflow(d, t) == Full(d, t) /\ Crash

DescriptionCrashes(d) == Undescribable(d) /\ Crash

Abort ==
  \/ TooEarly
  \/ \E d \in DOMAIN store :
       \/ DescriptionCrashes(d)
       \/ \E t \in DOMAIN store[d].tables : Overflow(d, t)

Stop == server' = "stopped" /\ Lose

Start ==
  /\ server' = "running"
  /\ Say(GMERR_OK)
  /\ UNCHANGED <<opened, store, usedDb, usedTable>>

Next ==
  \/ server = "running" /\ (Request \/ Abort \/ Stop)
  \/ server # "running" /\ Start

Spec == Init /\ [][Next]_vars

=============================================================================
