---------------------------- MODULE ClientProofs ----------------------------
(***************************************************************************)
(* Proofs about the client library over the server that RelStore           *)
(* specifies, for any number of clients, all names and definitions, and    *)
(* any number of ids and rows.                                             *)
(*                                                                         *)
(* Fine says of one client what its request, its answer, its statement and *)
(* the ids it holds have to do with the store.  A step of the server       *)
(* changes the store in ways that leave every client Fine (StoreMoves); a  *)
(* step of a client changes only what it has itself.                       *)
(***************************************************************************)
EXTENDS Client, TLAPS

-----------------------------------------------------------------------------
(* The store.                                                              *)

TableT == [name : LabelName, fields : Schema, rows : Seq(Schema)]

DbT == [name : DbName, tables : UNION {[T -> TableT] : T \in SUBSET TableId}]

StoreOK ==
  /\ usedDb \subseteq DbId /\ usedTable \subseteq TableId
  /\ DOMAIN store \subseteq usedDb
  /\ \A d \in DOMAIN store :
       store[d] \in DbT /\ DOMAIN store[d].tables \subseteq usedTable

\* The name of a database, and the definition of a table, if there is one.
NameIs(d, name) == d \in DOMAIN store => store[d].name = name

TableIs(d, t, fields) ==
  d \in DOMAIN store /\ t \in DOMAIN store[d].tables => store[d].tables[t].fields = fields

\* Ids are used up and never come back; what has an id used before is as it was.
StoreMoves ==
  /\ usedDb \subseteq usedDb' /\ usedTable \subseteq usedTable'
  /\ \A d \in DOMAIN store' : d \in usedDb =>
       d \in DOMAIN store /\ store'[d].name = store[d].name
  /\ \A d \in DOMAIN store' : \A t \in DOMAIN store'[d].tables : t \in usedTable =>
       /\ d \in DOMAIN store /\ t \in DOMAIN store[d].tables
       /\ store'[d].tables[t].fields = store[d].tables[t].fields

\* What a request asks for the insertion of.
RowIsRight(q) == q.op = "INSERT_DATA" => TableIs(q.dbId, q.labelId, q.row)

\* What an answer says of the ids it has, or was asked for.
AnswerTyped(q, a) ==
  /\ q.op = "CREATE_DB" => a.id \in DbId \cup {NoId}
  /\ q.op = "CREATE_TABLE" => a.id \in TableId \cup {NoId}

AnswerTrue(q, a) ==
  /\ q.op = "CREATE_DB" /\ a.status = GMERR_OK => a.id \in usedDb /\ NameIs(a.id, q.dbName)
  /\ q.op = "QUERY_TABLE" /\ a.status = GMERR_OK =>
       q.labelId \in usedTable /\ TableIs(q.dbId, q.labelId, a.fields)

\* What a handled request leads to.
HandledOK(q) ==
  /\ StoreOK' /\ StoreMoves /\ RowsFitTheirTables'
  /\ rsp' \in Answers
  /\ AnswerTyped(q, rsp')
  /\ AnswerTrue(q, rsp)'

\* A request and its fields, by what it asks for.
LEMMA RequestTyped ==
  ASSUME NEW q \in Request
  PROVE  /\ q.op \in {"CREATE_DB", "DROP_DB", "CREATE_TABLE", "DFX_DB_DESC",
                      "QUERY_TABLE", "INSERT_DATA"}
         /\ q.op \in {"CREATE_DB", "DROP_DB"} => q.dbName \in DbName
         /\ q.op = "CREATE_TABLE" => /\ q.labelName \in LabelName
                                     /\ q.schema \in Schema \cup {BadSchema}
         /\ q.op \in {"QUERY_TABLE", "INSERT_DATA"} => q.labelId \in TableId \cup {NoId}
         /\ q.op = "INSERT_DATA" => q.row \in Schema \ {<<>>}
BY DEF Request

LEMMA AnswerMade ==
  ASSUME NEW status \in Status, NEW id \in DbId \cup TableId \cup {NoId},
         NEW fields \in Schema \cup {<<>>}
  PROVE  /\ Answer(status, id, fields) \in Answers
         /\ Answer(status, id, fields).status = status
         /\ Answer(status, id, fields).id = id
         /\ Answer(status, id, fields).fields = fields
BY DEF Answer, Answers

LEMMA SuccessMade ==
  ASSUME NEW id \in DbId \cup TableId \cup {NoId}, NEW fields \in Schema \cup {<<>>}
  PROVE  /\ Answer(GMERR_OK, id, fields) \in Answers
         /\ Answer(GMERR_OK, id, fields).status = GMERR_OK
         /\ Answer(GMERR_OK, id, fields).id = id
         /\ Answer(GMERR_OK, id, fields).fields = fields
<1>1. GMERR_OK \in Status
  BY DEF Status
<1> QED BY <1>1, AnswerMade

\* A refused request leaves the store alone.
LEMMA RefusedOK ==
  ASSUME StoreOK, RowsFitTheirTables, NEW q \in Request, NEW status \in Status,
         status # GMERR_OK \/ ~ q.op \in {"CREATE_DB", "QUERY_TABLE"},
         rsp' = Answer(status, NoId, <<>>),
         store' = store, usedDb' = usedDb, usedTable' = usedTable
  PROVE  HandledOK(q)
<1>1. /\ rsp' \in Answers /\ rsp'.status = status /\ rsp'.id = NoId
  BY AnswerMade
<1>2. StoreOK' /\ RowsFitTheirTables' /\ StoreMoves
  BY DEF StoreOK, RowsFitTheirTables, StoreMoves
<1>3. AnswerTyped(q, rsp') /\ AnswerTrue(q, rsp)'
  BY <1>1 DEF AnswerTyped, AnswerTrue
<1> QED BY <1>1, <1>2, <1>3 DEF HandledOK

LEMMA CreateDbOK ==
  ASSUME StoreOK, RowsFitTheirTables, NEW q \in Request, q.op = "CREATE_DB",
         NEW id \in DbId \ usedDb,
         store' = Server!Extend(store, id,
                    [name |-> q.dbName, tables |-> Server!EmptyFcn]),
         usedDb \cup {id} \subseteq usedDb', usedDb' \subseteq DbId,
         usedTable' = usedTable, rsp' = Answer(GMERR_OK, id, <<>>)
  PROVE  HandledOK(q)
<1>1. PICK db : db = [name |-> q.dbName, tables |-> Server!EmptyFcn]
  OBVIOUS
<1>2. db \in DbT /\ db.name = q.dbName /\ DOMAIN db.tables = {}
  <2>1. Server!EmptyFcn \in [{} -> TableT] /\ DOMAIN Server!EmptyFcn = {}
    BY DEF Server!EmptyFcn
  <2>2. Server!EmptyFcn \in UNION {[T -> TableT] : T \in SUBSET TableId}
    BY <2>1
  <2> QED BY <1>1, <2>1, <2>2, RequestTyped DEF DbT
<1>3. /\ DOMAIN store' = DOMAIN store \cup {id} /\ id \notin DOMAIN store
      /\ \A d \in DOMAIN store : store'[d] = store[d]
      /\ store'[id] = db
  BY <1>1 DEF Server!Extend, StoreOK
<1>4. StoreOK' /\ RowsFitTheirTables' /\ StoreMoves
  <2>1. StoreOK'
    BY <1>2, <1>3 DEF StoreOK
  <2>2. RowsFitTheirTables'
    BY <1>2, <1>3 DEF RowsFitTheirTables
  <2>3. StoreMoves
    BY <1>2, <1>3 DEF StoreMoves
  <2> QED BY <2>1, <2>2, <2>3
<1>5. rsp' \in Answers /\ rsp'.status = GMERR_OK /\ rsp'.id = id
  BY SuccessMade
<1>6. AnswerTyped(q, rsp') /\ AnswerTrue(q, rsp)'
  BY <1>2, <1>3, <1>5 DEF AnswerTyped, AnswerTrue, NameIs
<1> QED BY <1>4, <1>5, <1>6 DEF HandledOK

LEMMA DropDbOK ==
  ASSUME StoreOK, RowsFitTheirTables, NEW q \in Request, q.op = "DROP_DB",
         NEW d \in DOMAIN store,
         store' = Server!Restrict(store, DOMAIN store \ {d}),
         usedDb' = usedDb, usedTable' = usedTable, rsp' = Answer(GMERR_OK, NoId, <<>>)
  PROVE  HandledOK(q)
<1>1. /\ DOMAIN store' = DOMAIN store \ {d}
      /\ \A e \in DOMAIN store' : store'[e] = store[e]
  BY DEF Server!Restrict
<1>2. StoreOK' /\ RowsFitTheirTables' /\ StoreMoves
  <2>1. StoreOK'
    BY <1>1 DEF StoreOK
  <2>2. RowsFitTheirTables'
    <3>1. ASSUME NEW e \in DOMAIN store', NEW t \in DOMAIN store'[e].tables,
                 NEW i \in 1 .. Len(store'[e].tables[t].rows)
          PROVE  store'[e].tables[t].rows[i] = store'[e].tables[t].fields
      <4>1. e \in DOMAIN store /\ store'[e] = store[e]
        BY <1>1
      <4> QED BY <4>1 DEF RowsFitTheirTables
    <3> QED BY <3>1 DEF RowsFitTheirTables
  <2>3. StoreMoves
    BY <1>1 DEF StoreMoves
  <2> QED BY <2>1, <2>2, <2>3
<1>3. rsp' \in Answers
  BY SuccessMade
<1>4. AnswerTyped(q, rsp') /\ AnswerTrue(q, rsp)'
  BY DEF AnswerTyped, AnswerTrue
<1> QED BY <1>2, <1>3, <1>4 DEF HandledOK

\* One database of the store is another now.
LEMMA StoreAt ==
  ASSUME NEW f, NEW d \in DOMAIN f, NEW db, NEW g, g = [f EXCEPT ![d] = db]
  PROVE  /\ DOMAIN g = DOMAIN f
         /\ \A e \in DOMAIN f : g[e] = IF e = d THEN db ELSE f[e]
OBVIOUS

WithTable(new, db, id, table) ==
  new = [db EXCEPT !.tables = Server!Extend(@, id, table)]

LEMMA DbHasNewTable ==
  ASSUME NEW db \in DbT, NEW id \in TableId, id \notin DOMAIN db.tables,
         NEW table \in TableT,
         NEW new, WithTable(new, db, id, table)
  PROVE  /\ new \in DbT /\ new.name = db.name
         /\ DOMAIN new.tables = DOMAIN db.tables \cup {id}
         /\ new.tables[id] = table
         /\ \A t \in DOMAIN db.tables : new.tables[t] = db.tables[t]
<1>1. PICK tables : tables = Server!Extend(db.tables, id, table)
  OBVIOUS
<1>2. /\ DOMAIN tables = DOMAIN db.tables \cup {id} /\ tables[id] = table
      /\ \A t \in DOMAIN db.tables : tables[t] = db.tables[t]
      /\ tables = [t \in DOMAIN tables |-> tables[t]]
  BY <1>1 DEF Server!Extend
<1>3. PICK T \in SUBSET TableId : db.tables \in [T -> TableT]
  BY DEF DbT
<1>4. tables \in [T \cup {id} -> TableT] /\ T \cup {id} \in SUBSET TableId
  BY <1>2, <1>3
<1>5. tables \in UNION {[S -> TableT] : S \in SUBSET TableId}
  BY <1>4
<1>6. new.tables = tables /\ new.name = db.name /\ new \in DbT
  BY <1>1, <1>5 DEF DbT, WithTable
<1> QED BY <1>2, <1>6

LEMMA DbHasNewRow ==
  ASSUME NEW db \in DbT, NEW t \in DOMAIN db.tables, NEW row \in Schema,
         NEW new, new = [db EXCEPT !.tables[t].rows = Append(@, row)]
  PROVE  /\ new \in DbT /\ new.name = db.name
         /\ DOMAIN new.tables = DOMAIN db.tables
         /\ db.tables[t].rows \in Seq(Schema)
         /\ new.tables[t].fields = db.tables[t].fields
         /\ new.tables[t].rows = Append(db.tables[t].rows, row)
         /\ \A u \in DOMAIN db.tables : u # t => new.tables[u] = db.tables[u]
<1>1. PICK T \in SUBSET TableId : db.tables \in [T -> TableT]
  BY DEF DbT
<1>2. db.tables[t] \in TableT /\ db.tables[t].rows \in Seq(Schema)
  BY <1>1 DEF TableT
<1>3. PICK table : table = [db.tables[t] EXCEPT !.rows = Append(@, row)]
  OBVIOUS
<1>4. Append(db.tables[t].rows, row) \in Seq(Schema)
  BY <1>2
<1>5. /\ table \in TableT /\ table.fields = db.tables[t].fields
      /\ table.rows = Append(db.tables[t].rows, row)
  BY <1>2, <1>3, <1>4 DEF TableT
<1>6. PICK tables : tables = [db.tables EXCEPT ![t] = table]
  OBVIOUS
<1>7. /\ tables \in [T -> TableT] /\ DOMAIN tables = DOMAIN db.tables
      /\ tables[t] = table
      /\ \A u \in DOMAIN db.tables : u # t => tables[u] = db.tables[u]
  BY <1>1, <1>5, <1>6
<1>8. tables \in UNION {[S -> TableT] : S \in SUBSET TableId}
  BY <1>7
<1>9. new = [db EXCEPT !.tables = tables]
  BY <1>3, <1>6
<1>10. new.tables = tables /\ new.name = db.name /\ new \in DbT
  BY <1>8, <1>9 DEF DbT
<1> QED BY <1>2, <1>5, <1>7, <1>10

LEMMA CreateTableOK ==
  ASSUME StoreOK, RowsFitTheirTables, NEW q \in Request, q.op = "CREATE_TABLE",
         q.dbId \in DOMAIN store, q.schema # BadSchema,
         Server!CreateTable(q.dbId, q.labelName, q.schema),
         usedDb' = usedDb, usedTable' \subseteq TableId
  PROVE  HandledOK(q)
<1>1. PICK d \in DOMAIN store : d = q.dbId
  OBVIOUS
<1>2. PICK table : table = [name |-> q.labelName, fields |-> q.schema, rows |-> <<>>]
  OBVIOUS
<1>3. table \in TableT /\ table.rows = <<>>
  BY <1>2, RequestTyped DEF TableT
<1>4. PICK id \in TableId \ usedTable :
        /\ store' = [store EXCEPT ![d].tables = Server!Extend(@, id, table)]
        /\ usedTable \cup {id} \subseteq usedTable'
        /\ rsp' = Answer(GMERR_OK, id, <<>>)
  BY <1>1, <1>2 DEF Server!CreateTable, Server!Answer, Answer, Server!GMERR_OK, GMERR_OK
<1>5. /\ store[d] \in DbT /\ DOMAIN store[d].tables \subseteq usedTable
      /\ id \notin DOMAIN store[d].tables
  BY <1>4 DEF StoreOK
<1>6. PICK db : db = [store[d] EXCEPT !.tables = Server!Extend(@, id, table)]
  OBVIOUS
<1>7. store' = [store EXCEPT ![d] = db]
  BY <1>4, <1>6
<1>8. /\ DOMAIN store' = DOMAIN store
      /\ \A e \in DOMAIN store : store'[e] = IF e = d THEN db ELSE store[e]
  BY <1>7, StoreAt
<1>9. /\ db \in DbT /\ db.name = store[d].name
      /\ DOMAIN db.tables = DOMAIN store[d].tables \cup {id}
      /\ db.tables[id] = table
      /\ \A t \in DOMAIN store[d].tables : db.tables[t] = store[d].tables[t]
  <2>1. PICK old \in DbT : old = store[d]
    BY <1>5
  <2>2. id \in TableId /\ id \notin DOMAIN old.tables
    BY <1>4, <1>5, <2>1
  <2>3. WithTable(db, old, id, table)
    BY <1>6, <2>1 DEF WithTable
  <2>4. /\ db \in DbT /\ db.name = old.name
        /\ DOMAIN db.tables = DOMAIN old.tables \cup {id}
        /\ db.tables[id] = table
        /\ \A t \in DOMAIN old.tables : db.tables[t] = old.tables[t]
    BY <1>3, <2>1, <2>2, <2>3, DbHasNewTable
  <2> QED BY <2>1, <2>4
<1>10. StoreOK'
  BY <1>4, <1>8, <1>9 DEF StoreOK
<1>11. RowsFitTheirTables'
  BY <1>3, <1>8, <1>9 DEF RowsFitTheirTables
<1>12. StoreMoves
  <2>1. usedDb \subseteq usedDb' /\ usedTable \subseteq usedTable'
    BY <1>4
  <2>2. \A e \in DOMAIN store' : e \in DOMAIN store /\ store'[e].name = store[e].name
    BY <1>8, <1>9
  <2>3. ASSUME NEW e \in DOMAIN store', NEW t \in DOMAIN store'[e].tables, t \in usedTable
        PROVE  t \in DOMAIN store[e].tables /\ store'[e].tables[t] = store[e].tables[t]
    <3>1. e \in DOMAIN store /\ t # id
      BY <1>4, <1>8, <2>3
    <3>2. CASE e = d
      <4>1. store'[e] = db /\ t \in DOMAIN store[d].tables
        BY <1>8, <1>9, <2>3, <3>1, <3>2
      <4> QED BY <1>9, <3>2, <4>1
    <3>3. CASE e # d
      <4>1. store'[e] = store[e]
        BY <1>8, <3>1, <3>3
      <4> QED BY <4>1
    <3> QED BY <3>2, <3>3
  <2> QED BY <2>1, <2>2, <2>3 DEF StoreMoves
<1>13. rsp' \in Answers /\ rsp'.id = id
  BY <1>4, SuccessMade
<1>14. AnswerTyped(q, rsp') /\ AnswerTrue(q, rsp)'
  BY <1>13 DEF AnswerTyped, AnswerTrue
<1> QED BY <1>10, <1>11, <1>12, <1>13, <1>14 DEF HandledOK

LEMMA InsertDataOK ==
  ASSUME StoreOK, RowsFitTheirTables, NEW q \in Request, q.op = "INSERT_DATA",
         FindsTable(q), HandleTable(q), RowIsRight(q)
  PROVE  HandledOK(q)
<1>1. PICK d \in DOMAIN store : d = q.dbId
  BY DEF FindsTable
<1>2. PICK t \in DOMAIN store[d].tables : t = q.labelId
  BY <1>1 DEF FindsTable
<1>3. PICK row \in Schema :
        /\ store' = [store EXCEPT ![d].tables[t].rows = Append(@, row)]
        /\ usedDb' = usedDb /\ usedTable' = usedTable
        /\ rsp' = Answer(GMERR_OK, NoId, <<>>)
        /\ LET rows == store'[d].tables[t].rows IN rows[Len(rows)] = q.row
  BY <1>1, <1>2 DEF HandleTable, Server!InsertData, Server!Say, Server!Answer, Answer,
                    Server!GMERR_OK, GMERR_OK, Server!NoId, NoId
<1>4. PICK db : db = [store[d] EXCEPT !.tables[t].rows = Append(@, row)]
  OBVIOUS
<1>5. store' = [store EXCEPT ![d] = db]
  BY <1>3, <1>4
<1>6. /\ DOMAIN store' = DOMAIN store
      /\ \A e \in DOMAIN store : store'[e] = IF e = d THEN db ELSE store[e]
  BY <1>5, StoreAt
<1>7. /\ db \in DbT /\ db.name = store[d].name
      /\ DOMAIN db.tables = DOMAIN store[d].tables
      /\ store[d].tables[t].rows \in Seq(Schema)
      /\ db.tables[t].fields = store[d].tables[t].fields
      /\ db.tables[t].rows = Append(store[d].tables[t].rows, row)
      /\ \A u \in DOMAIN store[d].tables : u # t => db.tables[u] = store[d].tables[u]
  <2>1. store[d] \in DbT
    BY DEF StoreOK
  <2> QED BY <1>4, <2>1, DbHasNewRow
<1>8. row = store[d].tables[t].fields
  <2>1. db.tables[t].rows[Len(db.tables[t].rows)] = q.row
    BY <1>3, <1>6
  <2>2. q.row = row
    BY <1>7, <2>1
  <2>3. store[d].tables[t].fields = q.row
    BY <1>1, <1>2 DEF RowIsRight, TableIs
  <2> QED BY <2>2, <2>3
<1>9. StoreOK'
  BY <1>3, <1>6, <1>7 DEF StoreOK
<1>10. RowsFitTheirTables'
  <2>1. \A i \in 1 .. Len(db.tables[t].rows) : db.tables[t].rows[i] = db.tables[t].fields
    <3>1. \A i \in 1 .. Len(store[d].tables[t].rows) :
            store[d].tables[t].rows[i] = store[d].tables[t].fields
      BY DEF RowsFitTheirTables
    <3> QED BY <1>7, <1>8, <3>1
  <2>2. ASSUME NEW e \in DOMAIN store', NEW u \in DOMAIN store'[e].tables,
               NEW i \in 1 .. Len(store'[e].tables[u].rows)
        PROVE  store'[e].tables[u].rows[i] = store'[e].tables[u].fields
    <3>1. CASE e = d /\ u = t
      BY <1>6, <2>1, <3>1
    <3>2. CASE ~ (e = d /\ u = t)
      <4>1. u \in DOMAIN store[e].tables /\ store'[e].tables[u] = store[e].tables[u]
        BY <1>6, <1>7, <3>2
      <4> QED BY <1>6, <4>1 DEF RowsFitTheirTables
    <3> QED BY <3>1, <3>2
  <2> QED BY <2>2 DEF RowsFitTheirTables
<1>11. StoreMoves
  BY <1>3, <1>6, <1>7 DEF StoreMoves
<1>12. rsp' \in Answers
  BY <1>3, SuccessMade
<1>13. AnswerTyped(q, rsp') /\ AnswerTrue(q, rsp)'
  BY DEF AnswerTyped, AnswerTrue
<1> QED BY <1>9, <1>10, <1>11, <1>12, <1>13 DEF HandledOK

LEMMA QueryTableOK ==
  ASSUME StoreOK, RowsFitTheirTables, NEW q \in Request, q.op = "QUERY_TABLE",
         FindsTable(q), HandleTable(q)
  PROVE  HandledOK(q)
<1>1. PICK d \in DOMAIN store : d = q.dbId
  BY DEF FindsTable
<1>2. PICK t \in DOMAIN store[d].tables : t = q.labelId
  BY <1>1 DEF FindsTable
<1>3. /\ rsp' = Answer(GMERR_OK, NoId, store[d].tables[t].fields)
      /\ store' = store /\ usedDb' = usedDb /\ usedTable' = usedTable
  BY <1>1, <1>2 DEF HandleTable, Server!QueryTable, Server!Answer, Answer,
                    Server!GMERR_OK, GMERR_OK, Server!NoId, NoId
<1>4. store[d].tables[t].fields \in Schema /\ t \in usedTable
  BY DEF StoreOK, DbT, TableT
<1>5. /\ rsp' \in Answers /\ rsp'.fields = store[d].tables[t].fields
  BY <1>3, <1>4, SuccessMade
<1>6. StoreOK' /\ RowsFitTheirTables' /\ StoreMoves
  BY <1>3 DEF StoreOK, RowsFitTheirTables, StoreMoves
<1>7. AnswerTyped(q, rsp') /\ AnswerTrue(q, rsp)'
  BY <1>1, <1>2, <1>3, <1>4, <1>5 DEF AnswerTyped, AnswerTrue, TableIs
<1> QED BY <1>5, <1>6, <1>7 DEF HandledOK

-----------------------------------------------------------------------------
(* A request that is handled.                                              *)

\* What becomes of a request that is for no name of a database.
LEMMA ByIdOK ==
  ASSUME StoreOK, RowsFitTheirTables, NEW q \in Request, ~ NamesDb(q),
         HandleById(q) \/ (FindsTable(q) /\ HandleTable(q)), RowIsRight(q)
  PROVE  HandledOK(q)
<1> USE DEF Server!Refuse, Server!Say, Server!Answer, Answer, Server!NoId, NoId
<1>0. q.op # "CREATE_DB"
  BY DEF NamesDb
<1>1. CASE Server!UnknownDb(q.dbId)
  <2>1. /\ rsp' = Answer(DB_ID_NOT_EXISTED, NoId, <<>>)
        /\ store' = store /\ usedDb' = usedDb /\ usedTable' = usedTable
    BY <1>1 DEF Server!UnknownDb, Server!DB_ID_NOT_EXISTED, DB_ID_NOT_EXISTED
  <2>2. DB_ID_NOT_EXISTED \in Status /\ DB_ID_NOT_EXISTED # GMERR_OK
    BY DEF Status, DB_ID_NOT_EXISTED, GMERR_OK
  <2> QED BY <2>1, <2>2, RefusedOK
<1>2. CASE q.op = "DFX_DB_DESC" /\ Server!DescribeDb(q.dbId)
  <2>1. /\ rsp' = Answer(GMERR_OK, NoId, <<>>)
        /\ store' = store /\ usedDb' = usedDb /\ usedTable' = usedTable
    BY <1>2 DEF Server!DescribeDb, Server!GMERR_OK, GMERR_OK
  <2>2. GMERR_OK \in Status
    BY DEF Status
  <2> QED BY <1>2, <2>1, <2>2, RefusedOK
<1>3. CASE q.op = "CREATE_TABLE" /\ Server!CreateTableRefused(q.dbId)
  <2>1. PICK status \in Status :
          /\ rsp' = Answer(status, NoId, <<>>)
          /\ store' = store /\ usedDb' = usedDb /\ usedTable' = usedTable
    BY <1>3 DEF Server!CreateTableRefused, Server!BadSchemaStatus, BadSchemaStatus, Status,
                Server!LABEL_NAME_EXISTED, LABEL_NAME_EXISTED,
                Server!LABEL_JSON_NULL, LABEL_JSON_NULL, Server!FIELDS_OUTRANGE,
                FIELDS_OUTRANGE, Server!JSON_LIB_ERROR, JSON_LIB_ERROR,
                Server!NOT_SUPPORT, NOT_SUPPORT
  <2> QED BY <1>3, <2>1, RefusedOK
<1>4. CASE /\ q.op = "CREATE_TABLE" /\ q.dbId \in DOMAIN store /\ ~ Refuses(q)
           /\ usedDb' = usedDb /\ usedTable' = OneMore(usedTable, TableId)
           /\ Server!CreateTable(q.dbId, q.labelName, q.schema)
  <2>1. usedTable' \subseteq TableId /\ q.schema # BadSchema
    BY <1>4 DEF OneMore, StoreOK, Refuses
  <2> QED BY <1>4, <2>1, CreateTableOK
<1>5. CASE /\ q.op \in {"INSERT_DATA", "QUERY_TABLE"}
           /\ Server!UnknownTable(q.dbId, q.labelId)
  <2>1. /\ rsp' = Answer(LABEL_ID_NOT_EXISTED, NoId, <<>>)
        /\ store' = store /\ usedDb' = usedDb /\ usedTable' = usedTable
    BY <1>5 DEF Server!UnknownTable, Server!LABEL_ID_NOT_EXISTED, LABEL_ID_NOT_EXISTED
  <2>2. LABEL_ID_NOT_EXISTED \in Status /\ LABEL_ID_NOT_EXISTED # GMERR_OK
    BY DEF Status, LABEL_ID_NOT_EXISTED, GMERR_OK
  <2> QED BY <2>1, <2>2, RefusedOK
<1>6. CASE FindsTable(q) /\ HandleTable(q)
  BY <1>6, QueryTableOK, InsertDataOK DEF FindsTable
<1> QED BY <1>1, <1>2, <1>3, <1>4, <1>5, <1>6 DEF HandleById

LEMMA HandleOK ==
  ASSUME StoreOK, RowsFitTheirTables, NEW q \in Request, Handle(q), RowIsRight(q)
  PROVE  HandledOK(q)
<1>1. CASE /\ q.op = "CREATE_DB"
           /\ usedDb' = IF Server!NameInUse(q.dbName) THEN usedDb ELSE OneMore(usedDb, DbId)
           /\ usedTable' = usedTable
           /\ Server!CreateDb(q.dbName)
  <2>1. CASE Server!NameInUse(q.dbName)
    <3>1. /\ rsp' = Answer(NAME_EXISTED, NoId, <<>>)
          /\ store' = store /\ usedDb' = usedDb /\ usedTable' = usedTable
      BY <1>1, <2>1 DEF Server!CreateDb, Server!Refuse, Server!Say, Server!Answer, Answer,
                        Server!NoId, NoId, Server!NAME_EXISTED, NAME_EXISTED
    <3>2. NAME_EXISTED \in Status /\ NAME_EXISTED # GMERR_OK
      BY DEF Status, NAME_EXISTED, GMERR_OK
    <3> QED BY <3>1, <3>2, RefusedOK
  <2>2. CASE ~ Server!NameInUse(q.dbName)
    <3>1. PICK id \in DbId \ usedDb :
            /\ store' = Server!Extend(store, id,
                          [name |-> q.dbName, tables |-> Server!EmptyFcn])
            /\ usedDb \cup {id} \subseteq usedDb'
            /\ rsp' = Answer(GMERR_OK, id, <<>>)
      BY <1>1, <2>2 DEF Server!CreateDb, Server!Answer, Answer, Server!GMERR_OK, GMERR_OK
    <3>2. usedDb' \subseteq DbId
      BY <1>1, <2>2 DEF OneMore, StoreOK
    <3> QED BY <1>1, <3>1, <3>2, CreateDbOK
  <2> QED BY <2>1, <2>2
<1>2. CASE q.op = "DROP_DB" /\ Server!DropDb(q.dbName)
  <2>1. CASE ~ Server!NameInUse(q.dbName) /\ Server!Refuse(NAME_NOT_EXISTED)
    <3>1. /\ rsp' = Answer(NAME_NOT_EXISTED, NoId, <<>>)
          /\ store' = store /\ usedDb' = usedDb /\ usedTable' = usedTable
      BY <2>1 DEF Server!Refuse, Server!Say, Server!Answer, Answer, Server!NoId, NoId
    <3>2. NAME_NOT_EXISTED \in Status /\ NAME_NOT_EXISTED # GMERR_OK
      BY DEF Status, NAME_NOT_EXISTED, GMERR_OK
    <3> QED BY <3>1, <3>2, RefusedOK
  <2>2. ASSUME NEW d \in DOMAIN store,
               store' = Server!Restrict(store, DOMAIN store \ {d}),
               Server!Say(GMERR_OK), usedDb' = usedDb, usedTable' = usedTable
        PROVE  HandledOK(q)
    <3>1. rsp' = Answer(GMERR_OK, NoId, <<>>)
      BY <2>2 DEF Server!Say, Server!Answer, Answer, Server!NoId, NoId
    <3> QED BY <1>2, <2>2, <3>1, DropDbOK
  <2> QED BY <1>2, <2>1, <2>2
          DEF Server!DropDb, Server!NAME_NOT_EXISTED, NAME_NOT_EXISTED,
              Server!GMERR_OK, GMERR_OK
<1> QED BY <1>1, <1>2, ByIdOK DEF Handle

-----------------------------------------------------------------------------
(* One client and the store.                                               *)

HeldT == [dbId : DbId \cup {NoId}, dbName : DbName \cup {NULL}, labelId : TableId \cup {NoId}]

StmtT == [dbId        : DbId \cup {NoId},
          labelId     : TableId \cup {NoId},
          tableSchema : (Schema \ {<<>>}) \cup {NULL}]

ResultT == [ret : {GMERR_OK, Failed, "aborted"}, status : Status \cup {Failed}]

\* The request of a client, its answer, its statement, what it holds, and whether
\* its connection is one to this life of the server.
ClientTyped(q, a, s, h) ==
  /\ q \in Request \cup {NULL} /\ a \in Answers \cup {NULL, Failed}
  /\ s \in StmtT \cup {NULL} /\ h \in HeldT
  /\ q = NULL => a = NULL
  /\ q # NULL /\ a \notin {NULL, Failed} => AnswerTyped(q, a)
  /\ q # NULL /\ q.op = "QUERY_TABLE" =>
       s \in StmtT /\ s.dbId = q.dbId /\ s.labelId = q.labelId

\* What it knows is true, as long as the server lives.
HeldTrue(h) == h.dbId # NoId => h.dbId \in usedDb /\ NameIs(h.dbId, h.dbName)

StmtTrue(s) ==
  s # NULL /\ s.tableSchema # NULL =>
    s.labelId \in usedTable /\ TableIs(s.dbId, s.labelId, s.tableSchema)

RequestTrue(q) ==
  q # NULL /\ q.op = "INSERT_DATA" =>
    q.labelId \in usedTable /\ TableIs(q.dbId, q.labelId, q.row)

Knows(q, a, s, h) ==
  server = "running" =>
    /\ HeldTrue(h) /\ StmtTrue(s) /\ RequestTrue(q)
    /\ q # NULL /\ a \notin {NULL, Failed} => AnswerTrue(q, a)

\* A client that neither asks nor is answered knows what it knew.
LEMMA KnowsStill ==
  ASSUME NEW q, NEW a, NEW s, NEW h, Knows(q, a, s, h), server' = server,
         \/ StoreMoves
         \/ store' = store /\ usedDb' = usedDb /\ usedTable' = usedTable
  PROVE  Knows(q, a, s, h)'
<1>0. SUFFICES ASSUME server = "running" PROVE Knows(q, a, s, h)'
  BY DEF Knows
<1>1. StoreMoves
  BY DEF StoreMoves
<1>2. \A d \in usedDb : \A name : NameIs(d, name) => d \in usedDb' /\ NameIs(d, name)'
  BY <1>1 DEF StoreMoves, NameIs
<1>3. \A d, fields : \A t \in usedTable :
        TableIs(d, t, fields) => t \in usedTable' /\ TableIs(d, t, fields)'
  BY <1>1 DEF StoreMoves, TableIs
<1>4. HeldTrue(h)'
  BY <1>0, <1>2 DEF Knows, HeldTrue
<1>5. StmtTrue(s)' /\ RequestTrue(q)'
  BY <1>0, <1>3 DEF Knows, StmtTrue, RequestTrue
<1>6. ASSUME q # NULL, a \notin {NULL, Failed} PROVE AnswerTrue(q, a)'
  BY <1>0, <1>2, <1>3, <1>6 DEF Knows, AnswerTrue
<1> QED BY <1>4, <1>5, <1>6 DEF Knows

ConnectionOK ==
  \A c \in Client : /\ Connected(c) => server = "running"
                    /\ connection[c] = "broken" => server # "running"

\* The functions on clients, each with a value for every client.
AllClients ==
  /\ connection \in [Client -> {"none", "open", "unserved", "broken"}]
  /\ result \in [Client -> ResultT]
  /\ request = [c \in Client |-> request[c]] /\ answer = [c \in Client |-> answer[c]]
  /\ stmt = [c \in Client |-> stmt[c]] /\ held = [c \in Client |-> held[c]]

ClientOK(c) ==
  /\ ClientTyped(request[c], answer[c], stmt[c], held[c])
  /\ Knows(request[c], answer[c], stmt[c], held[c])

IInv ==
  /\ AllClients /\ ConnectionOK
  /\ StoreOK /\ RowsFitTheirTables
  /\ server = "running" \/ DOMAIN store = {}
  /\ \A c \in Client : ClientOK(c)

\* The shape of every step: client c has now these, and all others what they had.
Has(c, q, a, s, h) ==
  /\ request' = [e \in Client |-> IF e = c THEN q ELSE request[e]]
  /\ answer' = [e \in Client |-> IF e = c THEN a ELSE answer[e]]
  /\ stmt' = [e \in Client |-> IF e = c THEN s ELSE stmt[e]]
  /\ held' = [e \in Client |-> IF e = c THEN h ELSE held[e]]

\* A function that is changed at c, or not at all, as one that is spelt out.
LEMMA ChangedAt ==
  ASSUME NEW f, f = [e \in Client |-> f[e]], NEW c \in Client, NEW v
  PROVE  /\ [f EXCEPT ![c] = v] = [e \in Client |-> IF e = c THEN v ELSE f[e]]
         /\ f = [e \in Client |-> IF e = c THEN f[c] ELSE f[e]]
OBVIOUS

LEMMA ClientStep ==
  ASSUME IInv, NEW c \in Client, NEW q, NEW a, NEW s, NEW h,
         Has(c, q, a, s, h), ClientTyped(q, a, s, h), Knows(q, a, s, h),
         UNCHANGED <<serverVars, connection>>, result' \in [Client -> ResultT]
  PROVE  IInv'
<1>1. /\ server' = server /\ store' = store /\ usedDb' = usedDb /\ usedTable' = usedTable
      /\ connection' = connection
  BY DEF serverVars
<1>2. AllClients' /\ ConnectionOK'
  BY <1>1 DEF IInv, AllClients, ConnectionOK, Connected, Has
<1>3. StoreOK' /\ RowsFitTheirTables' /\ (server' = "running" \/ DOMAIN store' = {})
  BY <1>1 DEF IInv, StoreOK, RowsFitTheirTables
<1>4. ASSUME NEW e \in Client PROVE ClientOK(e)'
  <2>1. CASE e = c
    <3>1. /\ request'[e] = q /\ answer'[e] = a /\ stmt'[e] = s /\ held'[e] = h
      BY <2>1 DEF Has
    <3>2. Knows(q, a, s, h)'
      BY <1>1, KnowsStill
    <3> QED BY <3>1, <3>2 DEF ClientOK, ClientTyped, Knows, AnswerTyped
  <2>2. CASE e # c
    <3>1. PICK qe, ae, se, he : /\ qe = request[e] /\ ae = answer[e]
                                /\ se = stmt[e] /\ he = held[e]
      OBVIOUS
    <3>2. /\ request'[e] = qe /\ answer'[e] = ae /\ stmt'[e] = se /\ held'[e] = he
      BY <2>2, <3>1 DEF Has
    <3>3. ClientTyped(qe, ae, se, he) /\ Knows(qe, ae, se, he)
      BY <3>1 DEF IInv, ClientOK
    <3>4. Knows(qe, ae, se, he)'
      BY <1>1, <3>3, KnowsStill
    <3> QED BY <3>2, <3>3, <3>4 DEF ClientOK, ClientTyped, Knows, AnswerTyped
  <2> QED BY <2>1, <2>2
<1> QED BY <1>2, <1>3, <1>4 DEF IInv

-----------------------------------------------------------------------------
(* Steps of the server.                                                    *)

LEMMA ServeOK ==
  ASSUME IInv, NEW c \in Client, Serve(c)
  PROVE  IInv'
<1>1. PICK q : q = request[c]
  OBVIOUS
<1>2. PICK a : a = rsp'
  OBVIOUS
<1>3. PICK s, h : s = stmt[c] /\ h = held[c]
  OBVIOUS
<1>4. /\ connection[c] = "open" /\ q # NULL /\ Handle(q) /\ server' = server
      /\ answer' = [answer EXCEPT ![c] = a]
      /\ UNCHANGED <<connection, request, held, stmt, result>>
  BY <1>1, <1>2 DEF Serve, Waits
<1>5. /\ AllClients /\ ConnectionOK /\ StoreOK /\ RowsFitTheirTables
      /\ ClientTyped(q, answer[c], s, h) /\ Knows(q, answer[c], s, h)
  BY <1>1, <1>3 DEF IInv, ClientOK
<1>6. server = "running"
  BY <1>4, <1>5 DEF ConnectionOK, Connected
<1>7. q \in Request /\ RowIsRight(q)
  BY <1>4, <1>5, <1>6 DEF ClientTyped, Knows, RequestTrue, RowIsRight
<1>8. HandledOK(q)
  BY <1>4, <1>5, <1>7, HandleOK
<1>9. StoreOK' /\ RowsFitTheirTables' /\ StoreMoves
  BY <1>8 DEF HandledOK
<1>10. AllClients' /\ ConnectionOK'
  BY <1>4, <1>5 DEF AllClients, ConnectionOK, Connected
<1>11. ASSUME NEW e \in Client PROVE ClientOK(e)'
  <2>1. CASE e = c
    <3>1. /\ request'[e] = q /\ answer'[e] = a /\ stmt'[e] = s /\ held'[e] = h
      BY <1>1, <1>3, <1>4, <1>5, <2>1 DEF AllClients
    <3>2. a \in Answers /\ AnswerTyped(q, a) /\ AnswerTrue(q, a)'
      BY <1>2, <1>8 DEF HandledOK, AnswerTrue
    <3>3. ClientTyped(q, a, s, h)
      BY <1>4, <1>5, <3>2 DEF ClientTyped
    <3>4. Knows(q, NULL, s, h)
      BY <1>5 DEF Knows
    <3>5. Knows(q, NULL, s, h)'
      BY <1>4, <1>9, <3>4, KnowsStill
    <3>6. Knows(q, a, s, h)'
      BY <3>2, <3>5 DEF Knows
    <3> QED BY <3>1, <3>3, <3>6 DEF ClientOK, ClientTyped, Knows, AnswerTyped
  <2>2. CASE e # c
    <3>1. PICK qe, ae, se, he : /\ qe = request[e] /\ ae = answer[e]
                                /\ se = stmt[e] /\ he = held[e]
      OBVIOUS
    <3>2. /\ request'[e] = qe /\ answer'[e] = ae /\ stmt'[e] = se /\ held'[e] = he
      BY <1>4, <1>5, <2>2, <3>1 DEF AllClients
    <3>3. ClientTyped(qe, ae, se, he) /\ Knows(qe, ae, se, he)
      BY <3>1 DEF IInv, ClientOK
    <3>4. Knows(qe, ae, se, he)'
      BY <1>4, <1>9, <3>3, KnowsStill
    <3> QED BY <3>2, <3>3, <3>4 DEF ClientOK, ClientTyped, Knows, AnswerTyped
  <2> QED BY <2>1, <2>2
<1> QED BY <1>4, <1>6, <1>9, <1>10, <1>11 DEF IInv

\* With the server all that a client knows is void.
LEMMA ServeAbortsOK ==
  ASSUME IInv, NEW c \in Client, ServeAborts(c)
  PROVE  IInv'
<1>1. /\ server' = "aborted" /\ store' = Server!EmptyFcn
      /\ usedDb' = {} /\ usedTable' = {}
      /\ BreakConnections /\ UNCHANGED <<request, answer, held, stmt, result>>
  BY DEF ServeAborts, Server!TooEarly, Server!Overflow, Server!DescriptionCrashes,
         Server!Crash, Server!Lose
<1>2. DOMAIN store' = {}
  BY <1>1 DEF Server!EmptyFcn
<1>3. AllClients' /\ ConnectionOK'
  BY <1>1 DEF IInv, AllClients, ConnectionOK, Connected, BreakConnections
<1>4. StoreOK' /\ RowsFitTheirTables'
  BY <1>1, <1>2 DEF StoreOK, RowsFitTheirTables
<1>5. ASSUME NEW e \in Client PROVE ClientOK(e)'
  BY <1>1 DEF IInv, ClientOK, ClientTyped, Knows, AnswerTyped
<1> QED BY <1>2, <1>3, <1>4, <1>5 DEF IInv

-----------------------------------------------------------------------------
(* Steps of a client.                                                      *)

\* A client that makes no call has no answer either.
LEMMA IdleClient ==
  ASSUME IInv, NEW c \in Client, Idle(c)
  PROVE  request[c] = NULL /\ answer[c] = NULL
BY DEF IInv, ClientOK, ClientTyped, Idle

LEMMA ResultTyped ==
  ASSUME result \in [Client -> ResultT], NEW c \in Client,
         NEW ret \in {GMERR_OK, Failed, "aborted"}, NEW status \in Status \cup {Failed},
         result' = [result EXCEPT ![c] = [ret |-> ret, status |-> status]]
  PROVE  result' \in [Client -> ResultT]
BY DEF ResultT

\* The client asks, with a statement that it may have made for that.
LEMMA AskOK ==
  ASSUME IInv, NEW c \in Client, NEW q \in Request, NEW s, Idle(c), Ask(c, q),
         stmt' = [e \in Client |-> IF e = c THEN s ELSE stmt[e]],
         s \in StmtT \cup {NULL}, StmtTrue(s) \/ server # "running",
         RequestTrue(q) \/ server # "running",
         q.op = "QUERY_TABLE" => s \in StmtT /\ s.dbId = q.dbId /\ s.labelId = q.labelId
  PROVE  IInv'
<1>1. PICK h : h = held[c]
  OBVIOUS
<1>2. AllClients /\ ClientTyped(NULL, NULL, stmt[c], h) /\ Knows(NULL, NULL, stmt[c], h)
  BY <1>1, IdleClient DEF IInv, ClientOK
<1>3. /\ request' = [e \in Client |-> IF e = c THEN q ELSE request[e]]
      /\ answer' = [e \in Client |-> IF e = c THEN NULL ELSE answer[e]]
      /\ held' = [e \in Client |-> IF e = c THEN h ELSE held[e]]
  <2>1. /\ request' = [request EXCEPT ![c] = q] /\ answer' = answer /\ held' = held
    BY DEF Ask
  <2>2. answer[c] = NULL
    BY IdleClient
  <2> QED BY <1>1, <1>2, <2>1, <2>2, ChangedAt DEF AllClients
<1>4. Has(c, q, NULL, s, h)
  BY <1>3 DEF Has
<1>5. ClientTyped(q, NULL, s, h)
  BY <1>2 DEF ClientTyped
<1>6. Knows(q, NULL, s, h)
  BY <1>2 DEF Knows
<1>7. result' \in [Client -> ResultT]
  <2>1. GMERR_OK \in Status
    BY DEF Status
  <2> QED BY <1>2, <2>1, ResultTyped DEF Ask, NoResult, AllClients
<1> QED BY <1>4, <1>5, <1>6, <1>7, ClientStep DEF Ask

\* The call is over, with what it leaves in the client's hands.
Ends(c, ret, status) ==
  /\ request' = [request EXCEPT ![c] = NULL] /\ answer' = [answer EXCEPT ![c] = NULL]
  /\ result' = [result EXCEPT ![c] = [ret |-> ret, status |-> status]]
  /\ UNCHANGED <<serverVars, connection>>

LEMMA EndOK ==
  ASSUME IInv, NEW c \in Client, NEW s, NEW h, NEW ret, NEW status,
         Ends(c, ret, status), ret \in {GMERR_OK, Failed, "aborted"},
         status \in Status \cup {Failed},
         stmt' = [e \in Client |-> IF e = c THEN s ELSE stmt[e]],
         held' = [e \in Client |-> IF e = c THEN h ELSE held[e]],
         s \in StmtT \cup {NULL}, h \in HeldT,
         server = "running" => HeldTrue(h) /\ StmtTrue(s)
  PROVE  IInv'
<1>1. AllClients
  BY DEF IInv
<1>2. /\ request' = [request EXCEPT ![c] = NULL] /\ answer' = [answer EXCEPT ![c] = NULL]
      /\ result' = [result EXCEPT ![c] = [ret |-> ret, status |-> status]]
      /\ UNCHANGED <<serverVars, connection>>
  BY DEF Ends
<1>3. Has(c, NULL, NULL, s, h)
  BY <1>1, <1>2, ChangedAt DEF AllClients, Has
<1>4. ClientTyped(NULL, NULL, s, h) /\ Knows(NULL, NULL, s, h)
  BY DEF ClientTyped, Knows, RequestTrue
<1>5. result' \in [Client -> ResultT]
  BY <1>1, <1>2, ResultTyped DEF AllClients
<1> QED BY <1>2, <1>3, <1>4, <1>5, ClientStep

\* What the client had, in one place.
LEMMA WhatItHad ==
  ASSUME IInv, NEW c \in Client
  PROVE  /\ stmt[c] \in StmtT \cup {NULL} /\ held[c] \in HeldT
         /\ server = "running" => HeldTrue(held[c]) /\ StmtTrue(stmt[c])
         /\ stmt = [e \in Client |-> IF e = c THEN stmt[c] ELSE stmt[e]]
         /\ held = [e \in Client |-> IF e = c THEN held[c] ELSE held[e]]
BY ChangedAt DEF IInv, AllClients, ClientOK, ClientTyped, Knows

LEMMA AnsweredTyped ==
  ASSUME IInv, NEW c \in Client, Answered(c)
  PROVE  /\ request[c] \in Request /\ answer[c] \in Answers
         /\ answer[c].status \in Status /\ answer[c].fields \in Schema \cup {<<>>}
         /\ AnswerTyped(request[c], answer[c])
         /\ server = "running" => AnswerTrue(request[c], answer[c])
         /\ request[c].op = "QUERY_TABLE" =>
              /\ stmt[c] \in StmtT
              /\ stmt[c].dbId = request[c].dbId /\ stmt[c].labelId = request[c].labelId
<1>1. ClientTyped(request[c], answer[c], stmt[c], held[c])
      /\ Knows(request[c], answer[c], stmt[c], held[c])
  BY DEF IInv, ClientOK
<1>2. answer[c] \notin {NULL, Failed} /\ request[c] # NULL
  BY <1>1 DEF Answered, ClientTyped
<1>3. answer[c] \in Answers
  BY <1>1, <1>2 DEF ClientTyped
<1>4. answer[c].status \in Status /\ answer[c].fields \in Schema \cup {<<>>}
  BY <1>3 DEF Answers
<1> QED BY <1>1, <1>2, <1>3, <1>4 DEF ClientTyped, Knows

\* Connecting, and the calls that ask for nothing.
LEMMA ConnectOK ==
  ASSUME IInv, NEW c \in Client, KVCConnect(c)
  PROVE  IInv'
<1>1. PICK to \in {"open", "unserved"} :
           /\ server = "running" /\ connection' = [connection EXCEPT ![c] = to]
           /\ UNCHANGED <<serverVars, request, answer, held, stmt, result>>
  BY DEF KVCConnect
<1>2. /\ server' = server /\ store' = store /\ usedDb' = usedDb /\ usedTable' = usedTable
  BY <1>1 DEF serverVars
<1>3. AllClients' /\ ConnectionOK'
  BY <1>1, <1>2 DEF IInv, AllClients, ConnectionOK, Connected
<1>4. StoreOK' /\ RowsFitTheirTables'
  BY <1>2 DEF IInv, StoreOK, RowsFitTheirTables
<1>5. ASSUME NEW e \in Client PROVE ClientOK(e)'
  <2>1. PICK qe, ae, se, he : /\ qe = request[e] /\ ae = answer[e]
                              /\ se = stmt[e] /\ he = held[e]
    OBVIOUS
  <2>2. /\ request'[e] = qe /\ answer'[e] = ae /\ stmt'[e] = se /\ held'[e] = he
    BY <1>1, <2>1
  <2>3. ClientTyped(qe, ae, se, he) /\ Knows(qe, ae, se, he)
    BY <2>1 DEF IInv, ClientOK
  <2>4. Knows(qe, ae, se, he)'
    BY <1>2, <2>3, KnowsStill
  <2> QED BY <2>2, <2>3, <2>4 DEF ClientOK, ClientTyped, Knows, AnswerTyped
<1> QED BY <1>1, <1>2, <1>3, <1>4, <1>5 DEF IInv

\* A call without a request: it may change the client's statement.
LEMMA NoRequestOK ==
  ASSUME IInv, NEW c \in Client, Idle(c), NEW s, NEW ret \in {GMERR_OK, "aborted"},
         request' = [e \in Client |-> IF e = c THEN NULL ELSE request[e]],
         answer' = [e \in Client |-> IF e = c THEN NULL ELSE answer[e]],
         stmt' = [e \in Client |-> IF e = c THEN s ELSE stmt[e]],
         s = stmt[c] \/ s = NULL,
         result' = [result EXCEPT ![c] = [ret |-> ret, status |-> GMERR_OK]],
         UNCHANGED <<serverVars, connection, held>>
  PROVE  IInv'
<1>1. PICK h : h = held[c]
  OBVIOUS
<1>2. /\ stmt[c] \in StmtT \cup {NULL} /\ h \in HeldT
      /\ server = "running" => HeldTrue(h) /\ StmtTrue(stmt[c])
      /\ held = [e \in Client |-> IF e = c THEN h ELSE held[e]]
  BY <1>1, WhatItHad
<1>3. Has(c, NULL, NULL, s, h)
  BY <1>2 DEF Has
<1>4. ClientTyped(NULL, NULL, s, h) /\ Knows(NULL, NULL, s, h)
  BY <1>2 DEF ClientTyped, Knows, RequestTrue, StmtTrue
<1>5. result' \in [Client -> ResultT]
  <2>1. GMERR_OK \in Status
    BY DEF Status
  <2> QED BY <2>1, ResultTyped DEF IInv, AllClients
<1> QED BY <1>3, <1>4, <1>5, ClientStep

LEMMA StatementCallOK ==
  ASSUME IInv, NEW c \in Client, NEW o \in Client,
         KVCPrepareStmtAgain(c, o) \/ KVCReleaseStmt(c) \/ SRCInsertDataNoSchema(c)
  PROVE  IInv'
<1>1. /\ Idle(c)
      /\ UNCHANGED <<serverVars, connection, held>>
      /\ stmt' = stmt \/ stmt' = [stmt EXCEPT ![c] = NULL]
      /\ request' = request \/ request' = [request EXCEPT ![c] = NULL]
      /\ answer' = answer \/ answer' = [answer EXCEPT ![c] = NULL]
  BY DEF KVCPrepareStmtAgain, KVCReleaseStmt, SRCInsertDataNoSchema, AbortClient
<1>2. request[c] = NULL /\ answer[c] = NULL /\ AllClients
  BY <1>1, IdleClient DEF IInv
<1>3. /\ request' = [e \in Client |-> IF e = c THEN NULL ELSE request[e]]
      /\ answer' = [e \in Client |-> IF e = c THEN NULL ELSE answer[e]]
  BY <1>1, <1>2, ChangedAt DEF AllClients
<1>4. PICK s : /\ s = stmt[c] \/ s = NULL
               /\ stmt' = [e \in Client |-> IF e = c THEN s ELSE stmt[e]]
  <2>1. CASE stmt' = stmt
    BY <1>2, <2>1, ChangedAt DEF AllClients
  <2>2. CASE stmt' = [stmt EXCEPT ![c] = NULL]
    <3>1. stmt' = [e \in Client |-> IF e = c THEN NULL ELSE stmt[e]]
      BY <1>2, <2>2, ChangedAt DEF AllClients
    <3> QED BY <3>1
  <2> QED BY <1>1, <2>1, <2>2
<1>5. PICK ret \in {GMERR_OK, "aborted"} :
        result' = [result EXCEPT ![c] = [ret |-> ret, status |-> GMERR_OK]]
  BY DEF KVCPrepareStmtAgain, KVCReleaseStmt, SRCInsertDataNoSchema, AbortClient, NoResult
<1>6. Idle(c) /\ UNCHANGED <<serverVars, connection, held>>
  BY <1>1
<1> QED BY ONLY IInv, <1>3, <1>4, <1>5, <1>6, NoRequestOK

\* The calls that ask with the statement as it is.
LEMMA AskWithoutStmtOK ==
  ASSUME IInv, NEW c \in Client, NEW q \in Request, Idle(c), Ask(c, q), stmt' = stmt,
         q.op # "QUERY_TABLE", RequestTrue(q) \/ server # "running"
  PROVE  IInv'
BY WhatItHad, AskOK

LEMMA AsksOK ==
  ASSUME IInv, NEW c \in Client,
         \/ \E dbName \in DbName : SRCCreateDb(c, dbName) \/ SRCDeleteDb(c, dbName)
         \/ \E labelName \in LabelName, schema \in Schema \cup {BadSchema} :
              SRCCreateLabelWithJson(c, labelName, schema)
         \/ SRCTraceDbDesc(c)
  PROVE  IInv'
<1>1. held[c] \in HeldT /\ held[c].dbId \in DbId \cup {NoId}
  BY WhatItHad DEF HeldT
<1>2. PICK q \in Request : /\ Idle(c) /\ Ask(c, q) /\ stmt' = stmt
                           /\ q.op \in {"CREATE_DB", "DROP_DB", "CREATE_TABLE", "DFX_DB_DESC"}
  <2>1. CASE \E dbName \in DbName : SRCCreateDb(c, dbName) \/ SRCDeleteDb(c, dbName)
    <3>1. PICK dbName \in DbName, op \in {"CREATE_DB", "DROP_DB"} :
            /\ Idle(c) /\ Ask(c, [op |-> op, dbName |-> dbName]) /\ stmt' = stmt
      BY <2>1 DEF SRCCreateDb, SRCDeleteDb, MayAsk
    <3>2. [op |-> op, dbName |-> dbName] \in Request
      BY DEF Request
    <3> QED BY <3>1, <3>2
  <2>2. CASE \E labelName \in LabelName, schema \in Schema \cup {BadSchema} :
               SRCCreateLabelWithJson(c, labelName, schema)
    <3>1. PICK labelName \in LabelName, schema \in Schema \cup {BadSchema} :
            /\ Idle(c) /\ stmt' = stmt
            /\ Ask(c, [op |-> "CREATE_TABLE", dbId |-> held[c].dbId,
                       labelName |-> labelName, schema |-> schema])
      BY <2>2 DEF SRCCreateLabelWithJson, MayAsk
    <3>2. [op |-> "CREATE_TABLE", dbId |-> held[c].dbId,
           labelName |-> labelName, schema |-> schema] \in Request
      BY <1>1 DEF Request
    <3> QED BY <3>1, <3>2
  <2>3. CASE SRCTraceDbDesc(c)
    <3>1. /\ Idle(c) /\ stmt' = stmt
          /\ Ask(c, [op |-> "DFX_DB_DESC", dbId |-> held[c].dbId])
      BY <2>3 DEF SRCTraceDbDesc, MayAsk
    <3>2. [op |-> "DFX_DB_DESC", dbId |-> held[c].dbId] \in Request
      BY <1>1 DEF Request
    <3> QED BY <3>1, <3>2
  <2> QED BY <2>1, <2>2, <2>3
<1>3. RequestTrue(q)
  BY <1>2 DEF RequestTrue
<1> QED BY <1>2, <1>3, AskWithoutStmtOK

LEMMA InsertAsksOK ==
  ASSUME IInv, NEW c \in Client, SRCInsertData(c)
  PROVE  IInv'
<1>1. PICK s : s = stmt[c]
  OBVIOUS
<1>2. /\ s \in StmtT /\ s # NULL /\ s.tableSchema # NULL
      /\ server = "running" => StmtTrue(s)
  BY <1>1, WhatItHad DEF SRCInsertData
<1>3. PICK q : q = [op |-> "INSERT_DATA", dbId |-> s.dbId, labelId |-> s.labelId,
                    row |-> s.tableSchema]
  OBVIOUS
<1>4. /\ q \in Request /\ q.op = "INSERT_DATA"
      /\ q.dbId = s.dbId /\ q.labelId = s.labelId /\ q.row = s.tableSchema
  BY <1>2, <1>3 DEF StmtT, Request
<1>5. Idle(c) /\ Ask(c, q) /\ stmt' = stmt
  BY <1>1, <1>3 DEF SRCInsertData
<1>6. RequestTrue(q) \/ server # "running"
  BY <1>2, <1>4 DEF RequestTrue, StmtTrue
<1> QED BY <1>4, <1>5, <1>6, AskWithoutStmtOK

LEMMA PrepareOK ==
  ASSUME IInv, NEW c \in Client, NEW o \in Client, KVCPrepareStmt(c, o)
  PROVE  IInv'
<1>1. PICK s : s = [dbId |-> held[o].dbId, labelId |-> held[o].labelId, tableSchema |-> NULL]
  OBVIOUS
<1>2. PICK q : q = [op |-> "QUERY_TABLE", dbId |-> held[o].dbId, labelId |-> held[o].labelId]
  OBVIOUS
<1>3. held[o].dbId \in DbId \cup {NoId} /\ held[o].labelId \in TableId \cup {NoId}
  BY WhatItHad DEF HeldT
<1>4. s \in StmtT /\ StmtTrue(s)
  BY <1>1, <1>3 DEF StmtT, StmtTrue
<1>5. /\ q \in Request /\ q.op = "QUERY_TABLE"
      /\ s.dbId = q.dbId /\ s.labelId = q.labelId
  BY <1>1, <1>2, <1>3 DEF Request
<1>6. Idle(c) /\ Ask(c, q) /\ stmt' = [stmt EXCEPT ![c] = s]
  BY <1>1, <1>2 DEF KVCPrepareStmt, MayAsk
<1>7. stmt' = [e \in Client |-> IF e = c THEN s ELSE stmt[e]]
  BY <1>6, ChangedAt DEF IInv, AllClients
<1>8. RequestTrue(q)
  BY <1>5 DEF RequestTrue
<1> QED BY <1>4, <1>5, <1>6, <1>7, <1>8, AskOK

\* The answer that comes of a broken connection.
LEMMA RecvEndOK ==
  ASSUME IInv, NEW c \in Client, KVCRecvEnd(c)
  PROVE  IInv'
<1>1. PICK q, s, h : q = request[c] /\ s = stmt[c] /\ h = held[c]
  OBVIOUS
<1>2. PICK a :
        /\ answer' = [answer EXCEPT ![c] = a]
        /\ \/ a = Failed
           \/ \E status \in {GMERR_OK, INDETERMINATE},
                 id \in IF q.op = "CREATE_DB" THEN DbId ELSE {NoId},
                 fields \in IF q.op = "QUERY_TABLE" THEN Schema ELSE {<<>>} :
                a = Answer(status, id, fields)
  BY <1>1 DEF KVCRecvEnd
<1>3. /\ request[c] # NULL /\ connection[c] = "broken"
      /\ UNCHANGED <<serverVars, connection, request, held, stmt, result>>
  BY DEF KVCRecvEnd
<1>4. /\ AllClients /\ ConnectionOK
      /\ ClientTyped(q, answer[c], s, h)
  BY <1>1 DEF IInv, ClientOK
<1>5. server # "running"
  BY <1>3, <1>4 DEF ConnectionOK, Connected
<1>6. a \in Answers \cup {Failed} /\ (a # Failed => AnswerTyped(q, a))
  <2>1. GMERR_OK \in Status /\ INDETERMINATE \in Status
    BY DEF Status
  <2>2. ASSUME NEW status \in {GMERR_OK, INDETERMINATE},
               NEW id \in IF q.op = "CREATE_DB" THEN DbId ELSE {NoId},
               NEW fields \in IF q.op = "QUERY_TABLE" THEN Schema ELSE {<<>>},
               a = Answer(status, id, fields)
        PROVE  a \in Answers /\ AnswerTyped(q, a)
    BY <2>1, <2>2, AnswerMade DEF AnswerTyped
  <2> QED BY <1>2, <2>2
<1>7. Has(c, q, a, s, h)
  BY <1>1, <1>2, <1>3, <1>4, ChangedAt DEF AllClients, Has
<1>8. ClientTyped(q, a, s, h)
  BY <1>1, <1>3, <1>4, <1>6 DEF ClientTyped
<1>9. Knows(q, a, s, h)
  BY <1>5 DEF Knows
<1>10. result' \in [Client -> ResultT]
  BY <1>3, <1>4 DEF AllClients
<1> QED BY <1>3, <1>7, <1>8, <1>9, <1>10, ClientStep

-----------------------------------------------------------------------------
(* Answers that are read.                                                  *)

\* The calls that end with the statement and what the client holds as they were.
LEMMA EndsOK ==
  ASSUME IInv, NEW c \in Client,
         \/ CallFails(c) \/ RspWithoutCb(c) \/ SrParseTableAsserts(c)
  PROVE  IInv'
<1>1. UNCHANGED <<stmt, held>>
  BY DEF CallFails, RspWithoutCb, SrParseTableAsserts
<1>2. PICK ret \in {GMERR_OK, Failed, "aborted"}, status \in Status \cup {Failed} :
        Ends(c, ret, status)
  <2>1. CASE CallFails(c)
    BY <2>1 DEF CallFails, Return, Ends
  <2>2. CASE RspWithoutCb(c)
    <3>1. answer[c].status \in Status
      BY <2>2, AnsweredTyped DEF RspWithoutCb
    <3> QED BY <2>2, <3>1 DEF RspWithoutCb, Return, Ends
  <2>3. CASE SrParseTableAsserts(c)
    <3>1. GMERR_OK \in Status
      BY DEF Status
    <3> QED BY <2>3, <3>1 DEF SrParseTableAsserts, AbortClient, Ends
  <2> QED BY <2>1, <2>2, <2>3
<1> QED BY <1>1, <1>2, WhatItHad, EndOK

LEMMA NewDbOK ==
  ASSUME IInv, NEW c \in Client, SrParseCreateDbRspCb(c)
  PROVE  IInv'
<1>1. PICK old, q, a : old = held[c] /\ q = request[c] /\ a = answer[c]
  OBVIOUS
<1>2. /\ old \in HeldT /\ q \in Request /\ a \in Answers /\ q.op = "CREATE_DB"
      /\ a.status \in Status /\ AnswerTyped(q, a)
      /\ server = "running" => AnswerTrue(q, a)
  BY <1>1, WhatItHad, AnsweredTyped DEF SrParseCreateDbRspCb
<1>3. PICK id : id = IF a.status = GMERR_OK THEN a.id ELSE NoId
  OBVIOUS
<1>4. PICK h : h = [old EXCEPT !.dbId = id, !.dbName = q.dbName]
  OBVIOUS
<1>5. id \in DbId \cup {NoId} /\ q.dbName \in DbName
  BY <1>2, <1>3, RequestTyped DEF AnswerTyped
<1>6. h \in HeldT /\ h.dbId = id /\ h.dbName = q.dbName
  BY <1>2, <1>4, <1>5 DEF HeldT
<1>7. server = "running" => HeldTrue(h)
  BY <1>2, <1>3, <1>6 DEF HeldTrue, AnswerTrue
<1>8. held' = [held EXCEPT ![c] = h]
  BY <1>1, <1>3, <1>4 DEF SrParseCreateDbRspCb, NewId
<1>9. held' = [e \in Client |-> IF e = c THEN h ELSE held[e]]
  BY <1>8, ChangedAt DEF IInv, AllClients
<1>10. Ends(c, GMERR_OK, a.status) /\ stmt' = stmt
  BY <1>1 DEF SrParseCreateDbRspCb, Return, Ends
<1>11. /\ stmt[c] \in StmtT \cup {NULL}
       /\ server = "running" => StmtTrue(stmt[c])
       /\ stmt' = [e \in Client |-> IF e = c THEN stmt[c] ELSE stmt[e]]
  BY <1>10, WhatItHad
<1> QED BY <1>2, <1>6, <1>7, <1>9, <1>10, <1>11, EndOK

LEMMA NewTableOK ==
  ASSUME IInv, NEW c \in Client, SrParseCreateTableRspCb(c)
  PROVE  IInv'
<1>1. PICK old, q, a : old = held[c] /\ q = request[c] /\ a = answer[c]
  OBVIOUS
<1>2. /\ old \in HeldT /\ q.op = "CREATE_TABLE"
      /\ a.status \in Status /\ AnswerTyped(q, a)
      /\ server = "running" => HeldTrue(old)
  BY <1>1, WhatItHad, AnsweredTyped DEF SrParseCreateTableRspCb
<1>3. PICK id : id = IF a.status = GMERR_OK THEN a.id ELSE NoId
  OBVIOUS
<1>4. PICK h : h = [old EXCEPT !.labelId = id]
  OBVIOUS
<1>5. id \in TableId \cup {NoId}
  BY <1>2, <1>3 DEF AnswerTyped
<1>6. h \in HeldT /\ h.dbId = old.dbId /\ h.dbName = old.dbName
  BY <1>2, <1>4, <1>5 DEF HeldT
<1>7. server = "running" => HeldTrue(h)
  BY <1>2, <1>6 DEF HeldTrue
<1>8. held' = [held EXCEPT ![c] = h]
  BY <1>1, <1>3, <1>4 DEF SrParseCreateTableRspCb, NewId
<1>9. held' = [e \in Client |-> IF e = c THEN h ELSE held[e]]
  BY <1>8, ChangedAt DEF IInv, AllClients
<1>10. Ends(c, GMERR_OK, a.status) /\ stmt' = stmt
  BY <1>1 DEF SrParseCreateTableRspCb, Return, Ends
<1>11. /\ stmt[c] \in StmtT \cup {NULL}
       /\ server = "running" => StmtTrue(stmt[c])
       /\ stmt' = [e \in Client |-> IF e = c THEN stmt[c] ELSE stmt[e]]
  BY <1>10, WhatItHad
<1> QED BY <1>2, <1>6, <1>7, <1>9, <1>10, <1>11, EndOK

LEMMA DefinitionOK ==
  ASSUME IInv, NEW c \in Client, SrParseQueryTblRspCb(c)
  PROVE  IInv'
<1>1. PICK old, q, a : old = stmt[c] /\ q = request[c] /\ a = answer[c]
  OBVIOUS
<1>2. /\ old \in StmtT /\ q.op = "QUERY_TABLE" /\ ~ HasNoFields(c)
      /\ old.dbId = q.dbId /\ old.labelId = q.labelId
      /\ a.status \in Status /\ a.fields \in Schema \cup {<<>>}
      /\ server = "running" => AnswerTrue(q, a) /\ StmtTrue(old)
  BY <1>1, WhatItHad, AnsweredTyped DEF SrParseQueryTblRspCb
<1>3. PICK fields : fields = IF a.status = GMERR_OK THEN a.fields ELSE old.tableSchema
  OBVIOUS
<1>4. PICK s : s = [old EXCEPT !.tableSchema = fields]
  OBVIOUS
<1>5. fields \in (Schema \ {<<>>}) \cup {NULL}
  BY <1>1, <1>2, <1>3 DEF HasNoFields, StmtT
<1>6. /\ s \in StmtT /\ s.dbId = old.dbId /\ s.labelId = old.labelId
      /\ s.tableSchema = fields
  BY <1>2, <1>4, <1>5 DEF StmtT
<1>7. ASSUME server = "running" PROVE StmtTrue(s)
  <2>1. CASE a.status = GMERR_OK
    BY <1>2, <1>3, <1>6, <1>7, <2>1 DEF AnswerTrue, StmtTrue
  <2>2. CASE a.status # GMERR_OK
    <3>1. s = old
      BY <1>2, <1>3, <1>4, <2>2 DEF StmtT
    <3> QED BY <1>2, <1>7, <3>1
  <2> QED BY <2>1, <2>2
<1>8. stmt' = [stmt EXCEPT ![c] = s]
  BY <1>1, <1>3, <1>4 DEF SrParseQueryTblRspCb
<1>9. stmt' = [e \in Client |-> IF e = c THEN s ELSE stmt[e]]
  BY <1>8, ChangedAt DEF IInv, AllClients
<1>10. Ends(c, GMERR_OK, a.status) /\ held' = held
  BY <1>1 DEF SrParseQueryTblRspCb, Return, Ends
<1>11. /\ held[c] \in HeldT
       /\ server = "running" => HeldTrue(held[c])
       /\ held' = [e \in Client |-> IF e = c THEN held[c] ELSE held[e]]
  BY <1>10, WhatItHad
<1> QED BY <1>2, <1>6, <1>7, <1>9, <1>10, <1>11, EndOK

-----------------------------------------------------------------------------

LEMMA InitOK == Init => IInv
<1> SUFFICES ASSUME Init PROVE IInv
  OBVIOUS
<1>1. /\ server = "running" /\ store = Server!EmptyFcn /\ usedDb = {} /\ usedTable = {}
  BY DEF Init, Server!Init
<1>2. DOMAIN store = {}
  BY <1>1 DEF Server!EmptyFcn
<1>3. StoreOK /\ RowsFitTheirTables
  BY <1>1, <1>2 DEF StoreOK, RowsFitTheirTables
<1>4. AllClients /\ ConnectionOK
  <2>1. NoResult \in ResultT
    BY DEF NoResult, ResultT, Status
  <2> QED BY <1>1, <2>1 DEF Init, AllClients, ConnectionOK, Connected
<1>5. ASSUME NEW c \in Client PROVE ClientOK(c)
  <2>1. /\ request[c] = NULL /\ answer[c] = NULL /\ stmt[c] = NULL
        /\ held[c] = NothingHeld
    BY DEF Init
  <2>2. NothingHeld \in HeldT /\ NothingHeld.dbId = NoId
    BY DEF NothingHeld, HeldT
  <2> QED BY <2>1, <2>2
          DEF ClientOK, ClientTyped, Knows, HeldTrue, StmtTrue, RequestTrue
<1> QED BY <1>1, <1>3, <1>4, <1>5 DEF IInv

LEMMA NextOK == IInv /\ [Next]_vars => IInv'
<1> SUFFICES ASSUME IInv, [Next]_vars PROVE IInv'
  OBVIOUS
<1>1. ASSUME NEW c \in Client, Call(c) PROVE IInv'
  BY <1>1, ConnectOK, AsksOK, PrepareOK, StatementCallOK, InsertAsksOK DEF Call
<1>2. ASSUME NEW c \in Client, Parse(c) PROVE IInv'
  BY <1>2, RecvEndOK, EndsOK, NewDbOK, NewTableOK, DefinitionOK DEF Parse
<1>3. CASE UNCHANGED vars
  <2>1. AllClients' /\ ConnectionOK'
    BY <1>3 DEF IInv, AllClients, ConnectionOK, Connected, vars, serverVars
  <2>2. StoreOK' /\ RowsFitTheirTables' /\ (server' = "running" \/ DOMAIN store' = {})
    BY <1>3 DEF IInv, StoreOK, RowsFitTheirTables, vars, serverVars
  <2>3. ASSUME NEW c \in Client PROVE ClientOK(c)'
    <3>1. PICK q, a, s, h : /\ q = request[c] /\ a = answer[c]
                            /\ s = stmt[c] /\ h = held[c]
      OBVIOUS
    <3>2. /\ request'[c] = q /\ answer'[c] = a /\ stmt'[c] = s /\ held'[c] = h
      BY <1>3, <3>1 DEF vars
    <3>3. ClientTyped(q, a, s, h) /\ Knows(q, a, s, h)
      BY <3>1 DEF IInv, ClientOK
    <3>4. Knows(q, a, s, h)'
      BY <1>3, <3>3, KnowsStill DEF vars, serverVars
    <3> QED BY <3>2, <3>3, <3>4 DEF ClientOK, ClientTyped, Knows, AnswerTyped
  <2> QED BY <2>1, <2>2, <2>3 DEF IInv
<1> QED BY <1>1, <1>2, <1>3, ServeOK, ServeAbortsOK DEF Next

LEMMA Invariant == Spec => []IInv
BY InitOK, NextOK, PTL DEF Spec

-----------------------------------------------------------------------------

\* What clients, statements and answers hold is always of its type, whatever a
\* client is told by a server that ends under it (KVCRecv, the callbacks).
THEOREM TypeCorrect == Spec => []TypeOK
<1>1. IInv => TypeOK
  <2> SUFFICES ASSUME IInv PROVE TypeOK
    OBVIOUS
  <2>1. ASSUME NEW c \in Client
        PROVE  /\ request[c] \in Request \cup {NULL}
               /\ answer[c] \in Answers \cup {NULL, Failed}
               /\ stmt[c] \in StmtT \cup {NULL} /\ held[c] \in HeldT
    BY DEF IInv, ClientOK, ClientTyped
  <2>2. /\ request \in [Client -> Request \cup {NULL}]
        /\ answer \in [Client -> Answers \cup {NULL, Failed}]
        /\ held \in [Client -> HeldT] /\ stmt \in [Client -> {NULL} \cup StmtT]
    BY <2>1 DEF IInv, AllClients
  <2>3. /\ connection \in [Client -> {"none", "open", "unserved", "broken"}]
        /\ result \in [Client -> ResultT]
    BY DEF IInv, AllClients
  <2> QED BY <2>2, <2>3 DEF TypeOK, HeldT, StmtT, ResultT
<1> QED BY <1>1, Invariant, PTL

\* For any number of clients, and whatever they do between fetching a definition
\* and inserting with it, every row in a table was made for that table.
THEOREM RowsAlwaysFit == Spec => []RowsFitTheirTables
<1>1. IInv => RowsFitTheirTables
  BY DEF IInv
<1> QED BY <1>1, Invariant, PTL

\* The id that a client holds names the database it asked for, or none, for any
\* number of clients that make and drop databases of any names.
THEOREM HeldIdsAreRight == Spec => []HeldIdsNameTheirDb
<1>1. IInv => HeldIdsNameTheirDb
  <2> SUFFICES ASSUME IInv, NEW c \in Client, held[c].dbId \in DOMAIN store
               PROVE  store[held[c].dbId].name = held[c].dbName
    BY DEF HeldIdsNameTheirDb
  <2>1. server = "running" /\ held[c].dbId # NoId
    BY ClientAssumption DEF IInv, StoreOK, NoId
  <2>2. HeldTrue(held[c])
    BY <2>1, WhatItHad
  <2> QED BY <2>1, <2>2 DEF HeldTrue, NameIs
<1> QED BY <1>1, Invariant, PTL

=============================================================================
