--------------------------- MODULE RtRequestProofs ---------------------------
(***************************************************************************)
(* Proofs about requests whose allocations may fail (RtRequest), for all   *)
(* names, schemas and sizes.                                               *)
(*                                                                         *)
(* A request that succeeds, or is refused for what it asks, takes a step   *)
(* of SimpleRel; SimpleRelProofs has shown what such a step keeps.  What   *)
(* is new here are the steps in which an allocation fails.                 *)
(***************************************************************************)
EXTENDS RtRequest, SimpleRelProofs, FiniteSetTheorems

-----------------------------------------------------------------------------
(* What the failing steps do to the catalogue.                             *)

\* What is to be shown of a step.
Kept == IInv' /\ (server = "running" => RowsCarried)

LEMMA ServedKept ==
  ASSUME IInv, server' = server, g_srDbCtrlManager' \in BOOLEAN,
         CatalogueOK', RowsCarried, RspTyped'
  PROVE  Kept
BY CounterTyped DEF Kept, IInv, TypeOK, RspTyped, CatalogueOK

LEMMA RefusalKept ==
  ASSUME IInv, server' = server, g_srDbCtrlManager' \in BOOLEAN,
         UNCHANGED Catalogue, NEW status \in Status, Refuse(status)
  PROVE  Kept
BY IInvParts, SameCatalogue, RefusalTyped, ServedKept

LEMMA DiesKept ==
  ASSUME IInv, AbortServer
  PROVE  Kept
<1>1. CatalogueOK' /\ RowsCarried
  BY IInvParts, SameCatalogue DEF AbortServer, Catalogue
<1>2. /\ server' = "aborted" /\ g_srDbCtrlManager' \in BOOLEAN /\ RspTyped'
  BY IInvParts DEF AbortServer, RspTyped
<1> QED BY <1>1, <1>2, CounterTyped DEF Kept, IInv, TypeOK, RspTyped, CatalogueOK

LEMMA AppendDbKept ==
  ASSUME IInv, NEW dbName \in DbName, ~ IsDbNameExist(dbName), AppendDbCtrl(dbName)
  PROVE  CatalogueOK' /\ RowsCarried /\ GenSrDbId \in Id
BY IInvParts, AddDb, CounterTyped DEF AppendDbCtrl, CatalogueOK, Id

LEMMA AppendLabelKept ==
  ASSUME IInv, NEW dbId \in DbId, NEW json \in Json,
         CreateTableStatus(dbId, json) = GMERR_OK, AppendLabel(dbId, json)
  PROVE  CatalogueOK' /\ RowsCarried /\ GenSrTableId \in Id
<1>1. CatalogueOK
  BY IInvParts
<1>2. PICK properties \in Properties(ParsedFields(json)) :
        dbCtrlList' =
          [dbCtrlList EXCEPT ![DmGetDbCtrlByDbId(dbId)].labelCtrlList =
             Append(@, NewLabel(dbId, json, properties))]
  BY DEF AppendLabel
<1>3. CatalogueOK' /\ RowsCarried
  BY <1>1, <1>2, NewLabelTyped, AddLabel DEF AppendLabel
<1> QED BY <1>1, <1>3, CounterTyped DEF CatalogueOK, Id

\* The counter has moved on, and all databases are out of sight.
LEMMA DbsLost ==
  ASSUME IInv, g_dbGenNum < MaxGenNum, g_dbGenNum' = g_dbGenNum + 1, dbCtrlList' = <<>>
  PROVE  CatalogueOK' /\ RowsCarried
<1>1. dbCtrlList' \in Seq(SrDbCtrlT) /\ DbIndex' = {}
  BY DEF DbIndex
<1>2. g_dbGenNum' \in DbId
  BY SimpleRelAssumption DEF IInv, DbId
<1> QED BY <1>1, <1>2
        DEF CatalogueOK, NamesUnique, IdsIdentify, PagesConsistent, RowsCarried

\* The counter has moved on, and the tables of one database are out of sight.
LEMMA TablesLost ==
  ASSUME IInv, NEW d \in DbIndex, g_dbGenNum < MaxGenNum, g_dbGenNum' = g_dbGenNum + 1,
         dbCtrlList' = [dbCtrlList EXCEPT ![d].labelCtrlList = <<>>]
  PROVE  CatalogueOK' /\ RowsCarried
<1>1. CatalogueOK /\ dbCtrlList \in Seq(SrDbCtrlT) /\ Len(dbCtrlList) \in Nat
  BY IInvParts, EntriesTyped DEF CatalogueOK
<1>0. PICK none \in Seq(SrLabelT) : none = <<>>
  <2>1. <<>> \in Seq(SrLabelT)
    BY EmptySeq
  <2> QED BY <2>1
<1>2. PICK db : db = [Db(d) EXCEPT !.labelCtrlList = none]
  OBVIOUS
<1>3. /\ db \in SrDbCtrlT /\ db.dbName = Db(d).dbName /\ db.dbId = Db(d).dbId
      /\ db.labelCtrlList = <<>>
  <2>1. Db(d) \in SrDbCtrlT
    BY <1>1, EntriesTyped
  <2>2. /\ db \in SrDbCtrlT /\ db.dbName = Db(d).dbName /\ db.dbId = Db(d).dbId
        /\ db.labelCtrlList = none
    BY <1>2, <2>1 DEF SrDbCtrlT
  <2> QED BY <1>0, <2>2
<1>4. /\ dbCtrlList' \in Seq(SrDbCtrlT) /\ DbIndex' = DbIndex
      /\ \A i \in DbIndex : Db(i)' = IF i = d THEN db ELSE Db(i)
  <2>1. dbCtrlList' = [dbCtrlList EXCEPT ![d] = db]
    BY <1>0, <1>2 DEF Db
  <2>2. d \in 1 .. Len(dbCtrlList)
    BY DEF DbIndex
  <2>3. /\ dbCtrlList' \in Seq(SrDbCtrlT)
        /\ Len(dbCtrlList') = Len(dbCtrlList)
        /\ \A i \in 1 .. Len(dbCtrlList) :
             dbCtrlList'[i] = IF i = d THEN db ELSE dbCtrlList[i]
    BY ONLY <1>1, <1>3, <2>1, <2>2, ItemReplaced
  <2> QED BY <2>3 DEF DbIndex, Db
<1>5. /\ LabelIndex(d)' = {}
      /\ \A i \in DbIndex : i # d =>
           /\ LabelIndex(i)' = LabelIndex(i)
           /\ \A k \in LabelIndex(i) : Label(i, k)' = Label(i, k)
  BY <1>3, <1>4 DEF LabelIndex, Label, Db
<1>6. \A i \in DbIndex : Db(i)'.dbName = Db(i).dbName /\ Db(i)'.dbId = Db(i).dbId
  BY <1>3, <1>4
<1>7. \A i \in DbIndex' : \A k \in LabelIndex(i)' :
        i \in DbIndex /\ k \in LabelIndex(i) /\ Label(i, k)' = Label(i, k)
  BY <1>4, <1>5
<1>8. g_dbGenNum \in Nat /\ g_dbGenNum' \in DbId
  BY <1>1, SimpleRelAssumption DEF CatalogueOK, DbId
<1>9. NamesUnique'
  BY <1>1, <1>4, <1>6, <1>7 DEF CatalogueOK, NamesUnique
<1>10. IdsIdentify'
  <2>1. \A i \in DbIndex' : Db(i)'.dbId < g_dbGenNum'
    BY <1>1, <1>4, <1>6, <1>8, EntriesTyped, CounterTyped
       DEF CatalogueOK, IdsIdentify, SrDbCtrlT
  <2>2. ASSUME NEW i \in DbIndex', NEW k \in LabelIndex(i)'
        PROVE  /\ Label(i, k)'.dbId = Db(i)'.dbId
               /\ Label(i, k)'.labelId < TABLE_ID_DIFF + g_dbGenNum'
    <3>1. /\ i \in DbIndex /\ k \in LabelIndex(i) /\ Label(i, k)' = Label(i, k)
          /\ Label(i, k).dbId = Db(i).dbId
          /\ Label(i, k).labelId < TABLE_ID_DIFF + g_dbGenNum
          /\ Label(i, k) \in SrLabelT
      BY <1>1, <1>7, EntriesTyped DEF CatalogueOK, IdsIdentify
    <3>2. Label(i, k).labelId \in Nat
      BY <3>1, CounterTyped DEF SrLabelT
    <3> QED BY <1>6, <1>8, <3>1, <3>2, SimpleRelAssumption
  <2>3. \A i, j \in DbIndex' : \A k \in LabelIndex(i)', l \in LabelIndex(j)' :
          Label(i, k)'.labelId = Label(j, l)'.labelId => i = j /\ k = l
    BY <1>1, <1>7 DEF CatalogueOK, IdsIdentify
  <2> QED BY <2>1, <2>2, <2>3 DEF IdsIdentify
<1>11. PagesConsistent'
  <2> SUFFICES ASSUME NEW i \in DbIndex', NEW k \in LabelIndex(i)'
               PROVE  /\ HeapConsistent(Label(i, k)'.heapRow)
                      /\ Label(i, k)'.heapRow.rowSize
                           = RowSize(Label(i, k)'.properties)
    BY DEF PagesConsistent, HeapConsistent, RowSize
  <2> QED BY <1>1, <1>7 DEF CatalogueOK, PagesConsistent
<1>12. \A j \in DbIndex' : \A l \in LabelIndex(j)' : IsOld(j, l)
  BY <1>7 DEF IsOld
<1> QED BY <1>1, <1>4, <1>8, <1>9, <1>10, <1>11, <1>12, OldRows DEF CatalogueOK

-----------------------------------------------------------------------------
(* The steps.                                                              *)

LEMMA OrdinaryKept ==
  ASSUME IInv, Next
  PROVE  Kept
BY StepKeeps DEF Kept

LEMMA NothingDoneKept ==
  ASSUME IInv, NEW status \in Status, NothingDone(status)
  PROVE  Kept
BY RefusalKept, IInvParts DEF NothingDone

LEMMA DbStepKept ==
  ASSUME IInv, NEW dbName \in DbName,
         \/ CreateDb(dbName) \/ CreateDbEarlyFailure(dbName) \/ CreateDbCrashes(dbName)
         \/ DbsGrowthFails(dbName) \/ CreateDbCorrupts(dbName) \/ DropDb(dbName)
  PROVE  Kept
<1>1. ASSUME CreateDb(dbName) PROVE Kept
  BY <1>1, OrdinaryKept DEF CreateDb, Next
<1>2. ASSUME CreateDbEarlyFailure(dbName) PROVE Kept
  <2>1. PICK status \in NoMemoryStatus : Refuse(status)
    BY <1>2 DEF CreateDbEarlyFailure, NoMemoryStatus
  <2>2. /\ server' = server /\ UNCHANGED Catalogue
        /\ g_srDbCtrlManager' \in BOOLEAN
    BY <1>2 DEF CreateDbEarlyFailure, GetDbCtrlManager
  <2> QED BY <2>1, <2>2, RefusalKept DEF Status
<1>3. ASSUME CreateDbCrashes(dbName) PROVE Kept
  BY <1>3, DiesKept DEF CreateDbCrashes, Dies
<1>4. ASSUME DbsGrowthFails(dbName) PROVE Kept
  <2>1. CatalogueOK' /\ RowsCarried
    BY <1>4, DbsLost DEF DbsGrowthFails
  <2>2. RspTyped'
    BY <1>4, RefusalTyped DEF DbsGrowthFails, Status, NoMemoryStatus
  <2> QED BY <1>4, <2>1, <2>2, ServedKept, IInvParts DEF DbsGrowthFails
<1>5. ASSUME CreateDbCorrupts(dbName) PROVE Kept
  <2>1. CatalogueOK' /\ RowsCarried /\ GenSrDbId \in Id
    BY <1>5, AppendDbKept DEF CreateDbCorrupts
  <2>2. /\ server' = server /\ g_srDbCtrlManager' \in BOOLEAN
        /\ \/ rsp' = Answer(GMERR_OK, GenSrDbId, <<>>)
           \/ Refuse(KV_MEMORY_ALLOC_FAILED)
    BY <1>5 DEF CreateDbCorrupts, GetDbCtrlManager
  <2>3. RspTyped'
    BY <2>1, <2>2, IdAnswerTyped, RefusalTyped DEF Status, NoMemoryStatus
  <2> QED BY <2>1, <2>2, <2>3, ServedKept
<1>6. ASSUME DropDb(dbName) PROVE Kept
  <2>1. NothingDone(NAME_NOT_EXISTED) \/ DMSrDropDb(dbName)
    BY <1>6 DEF DropDb
  <2> QED BY <2>1, NothingDoneKept, OrdinaryKept DEF Next, Status
<1> QED BY <1>1, <1>2, <1>3, <1>4, <1>5, <1>6

LEMMA TableStepKept ==
  ASSUME IInv, NEW dbId \in DbId, NEW json \in Json,
         \/ CreateTable(dbId, json)
         \/ CreateTableEarlyFailure(dbId, json) \/ NoPage(dbId, json)
         \/ TablesGrowthFails(dbId, json) \/ CreateTableCorrupts(dbId, json)
         \/ NoTableAnswer(dbId, json)
  PROVE  Kept
<1>1. ASSUME CreateTable(dbId, json) PROVE Kept
  BY <1>1, OrdinaryKept DEF CreateTable, Next
<1>2. ASSUME CreateTableEarlyFailure(dbId, json) PROVE Kept
  BY <1>2, RefusalKept, IInvParts DEF CreateTableEarlyFailure, Status, NoMemoryStatus
<1>3. ASSUME NoPage(dbId, json) PROVE Kept
  BY <1>3, DiesKept DEF NoPage, Dies
<1>4. ASSUME TablesGrowthFails(dbId, json) PROVE Kept
  <2>1. DmGetDbCtrlByDbId(dbId) \in DbIndex
    <3>1. DmGetDbCtrlByDbId(dbId) # 0
      BY <1>4 DEF TablesGrowthFails, IsNewTable, CreateTableStatus, DB_ID_NOT_EXISTED, GMERR_OK
    <3> QED BY <3>1, DbByDbIdFound, IInvParts, EntriesTyped
  <2>2. CatalogueOK' /\ RowsCarried
    BY <1>4, <2>1, TablesLost DEF TablesGrowthFails
  <2>3. RspTyped'
    BY <1>4, RefusalTyped DEF TablesGrowthFails, Status, NoMemoryStatus
  <2> QED BY <1>4, <2>2, <2>3, ServedKept, IInvParts DEF TablesGrowthFails
<1>5. ASSUME CreateTableCorrupts(dbId, json) \/ NoTableAnswer(dbId, json) PROVE Kept
  <2>1. CatalogueOK' /\ RowsCarried /\ GenSrTableId \in Id
    BY <1>5, AppendLabelKept DEF CreateTableCorrupts, NoTableAnswer, IsNewTable
  <2>2. /\ UNCHANGED <<server, g_srDbCtrlManager>>
        /\ \/ rsp' = Answer(GMERR_OK, GenSrTableId, <<>>)
           \/ Refuse(KV_MEMORY_ALLOC_FAILED)
    BY <1>5 DEF CreateTableCorrupts, NoTableAnswer
  <2>3. RspTyped'
    BY <2>1, <2>2, IdAnswerTyped, RefusalTyped DEF Status, NoMemoryStatus
  <2> QED BY <2>1, <2>2, <2>3, ServedKept, IInvParts
<1> QED BY <1>1, <1>2, <1>3, <1>4, <1>5

LEMMA RequestKept ==
  ASSUME IInv, RTProcessMain
  PROVE  Kept
<1>1. ASSUME UnknownOpCode \/ NoResultBuf \/ NoStmt \/ OtherOpCode \/ RtHandleAddTest
      PROVE  Kept
  <2>1. PICK status \in Status : NothingDone(status)
    BY <1>1 DEF UnknownOpCode, NoResultBuf, NoStmt, OtherOpCode, RtHandleAddTest,
                Status, NoMemoryStatus
  <2> QED BY <2>1, NothingDoneKept
<1>2. ASSUME AddTestTraps \/ NoManagerYet \/ NoInsertData PROVE Kept
  BY <1>2, DiesKept DEF AddTestTraps, NoManagerYet, NoInsertData, Dies
<1>3. ASSUME RefusedName \/ WithoutHandler PROVE Kept
  BY <1>3, OrdinaryKept DEF RefusedName, WithoutHandler, Next
<1>4. ASSUME NEW dbId \in DbId, NEW labelId \in TableId, InsertData(dbId, labelId)
      PROVE  Kept
  BY <1>4, OrdinaryKept DEF InsertData, Next
<1>5. ASSUME NEW dbId \in DbId, NEW labelId \in TableId, QueryTable(dbId, labelId)
      PROVE  Kept
  <2>1. CASE LookupFails(dbId, labelId) \/ DMSrQueryTable(dbId, labelId)
    BY <2>1, OrdinaryKept DEF Next
  <2>2. CASE Refuse(KV_MEMORY_ALLOC_FAILED)
             /\ UNCHANGED <<server, g_srDbCtrlManager, Catalogue>>
    BY <2>2, RefusalKept, IInvParts DEF Status, NoMemoryStatus
  <2> QED BY <1>5, <2>1, <2>2 DEF QueryTable
<1>6. ASSUME NEW dbId \in DbId, GetDbDesc(dbId) PROVE Kept
  <2>1. AbortServer \/ DMSrGetDbDesc(dbId)
    BY <1>6 DEF GetDbDesc, Dies
  <2> QED BY <2>1, DiesKept, OrdinaryKept DEF Next
<1> QED BY <1>1, <1>2, <1>3, <1>4, <1>5, <1>6, DbStepKept, TableStepKept DEF RTProcessMain

LEMMA RtStepKept ==
  ASSUME IInv, [RtNext]_rtVars
  PROVE  Kept
<1>1. ASSUME Stop \/ Start PROVE Kept
  BY <1>1, OrdinaryKept DEF Stop, Start, Next
<1>2. ASSUME StartFails \/ UNCHANGED rtVars PROVE Kept
  <2>1. UNCHANGED vars
    BY <1>2 DEF StartFails, rtVars
  <2> QED BY <2>1, StepKeeps DEF Kept
<1> QED BY <1>1, <1>2, RequestKept DEF RtNext

\* Whichever allocations fail, the catalogue stays well formed: names and ids stay
\* unique and the counters of every page agree with its bytes, also when a vector
\* has lost its items and is filled anew.
THEOREM FailuresKeepCatalogue == RtSpec => []IInv
<1>1. RtInit => IInv
  BY InitEstablishes DEF RtInit
<1>2. IInv /\ [RtNext]_rtVars => IInv'
  BY RtStepKept DEF Kept
<1> QED BY <1>1, <1>2, PTL DEF RtSpec

THEOREM RtTypeCorrect == RtSpec => []TypeOK
<1>1. IInv => TypeOK
  BY DEF IInv
<1> QED BY <1>1, FailuresKeepCatalogue, PTL

\* No failure leaves a page whose counters disagree with its bytes.
THEOREM RtPagesConsistent == RtSpec => []PagesConsistent
<1>1. IInv => PagesConsistent
  BY DEF IInv
<1> QED BY <1>1, FailuresKeepCatalogue, PTL

\* Rows stay as they are, whichever allocations fail.
THEOREM RtRowsStay == RtSpec => RowsStay
<1>1. IInv /\ [RtNext]_rtVars => RowsStayInStep
  <2> SUFFICES ASSUME IInv, [RtNext]_rtVars, server = "running" PROVE RowsStayInStep
    BY DEF RowsStayInStep
  <2>1. RowsCarried /\ CatalogueOK
    BY RtStepKept, IInvParts DEF Kept
  <2> QED BY <2>1, CarriedInStep
<1>2. IInv /\ [RtNext]_rtVars => [RowsStayInStep]_vars
  BY <1>1
<1> QED BY <1>2, FailuresKeepCatalogue, PTL DEF RtSpec, RowsStay

-----------------------------------------------------------------------------
(* What a request refused for want of memory may change.                   *)

\* The three cases of FailuresKeepStore.
StoreKept ==
  \/ UNCHANGED dbCtrlList
  \/ dbsData' = "lost"
  \/ \E i \in DbIndex :
       /\ OnlyTablesOf(i)
       /\ IF Db(i).dbId \in lostTables' THEN Db(i)'.labelCtrlList = <<>>
                                         ELSE IsWithEmptyTable(i)

\* No request of SimpleRel is refused for want of memory and changes anything.
LEMMA OrdinaryStatus ==
  ASSUME Next, rsp'.status \in NoMemoryStatus, server = "running"
  PROVE  UNCHANGED dbCtrlList
<1>1. ASSUME NEW status, Refuse(status) PROVE rsp'.status = status
  BY <1>1 DEF Refuse, Answer
<1>2. \A id, fields : rsp' = Answer(GMERR_OK, id, fields) => FALSE
  BY DEF Answer, NoMemoryStatus, GMERR_OK, KV_MEMORY_ALLOC_FAILED, MEMORY_ALLOC_FAILED
<1>3. ~ Refuse(GMERR_OK)
  BY <1>2 DEF Refuse
<1>4. ASSUME NEW dbName \in DbName, DMSrCreateDb(dbName) \/ DMSrDropDb(dbName)
      PROVE  UNCHANGED dbCtrlList
  BY <1>2, <1>3, <1>4 DEF DMSrCreateDb, DMSrDropDb, Catalogue
<1>5. ASSUME NEW dbId \in DbId, NEW json \in Json, DMSrCreateTable(dbId, json)
      PROVE  UNCHANGED dbCtrlList
  BY <1>2, <1>5 DEF DMSrCreateTable, Catalogue
<1>6. ASSUME NEW dbId \in DbId, NEW labelId \in TableId, DMSrInsertData(dbId, labelId)
      PROVE  UNCHANGED dbCtrlList
  BY <1>3, <1>6 DEF DMSrInsertData, AbortServer
<1> QED BY <1>4, <1>5, <1>6
        DEF Next, BadDbArgs, NoManager, NoHandler, LookupFails, DMSrQueryTable,
            DMSrGetDbDesc, KVCSrvStop, KVCSrvStart, AbortServer, Catalogue

\* The tables of the database that a request names: nothing else differs.
SetTables(d, labels) ==
  dbCtrlList' = [dbCtrlList EXCEPT ![d].labelCtrlList = labels]

LEMMA TablesSet ==
  ASSUME CatalogueOK, NEW d \in DbIndex, NEW labels, SetTables(d, labels)
  PROVE  OnlyTablesOf(d) /\ Db(d)'.labelCtrlList = labels
<1>1. /\ dbCtrlList \in Seq(SrDbCtrlT) /\ Db(d) \in SrDbCtrlT
      /\ d \in 1 .. Len(dbCtrlList)
  BY EntriesTyped DEF CatalogueOK, DbIndex
<1>2. PICK db : db = [Db(d) EXCEPT !.labelCtrlList = labels]
  OBVIOUS
<1>3. db.labelCtrlList = labels
  BY <1>1, <1>2 DEF SrDbCtrlT
<1>4. dbCtrlList' = [dbCtrlList EXCEPT ![d] = db]
  BY <1>2 DEF Db, SetTables
<1>5. dbCtrlList'[d] = db /\ Len(dbCtrlList') = Len(dbCtrlList)
  BY <1>1, <1>4
<1>6. Db(d)'.labelCtrlList = labels
  BY <1>3, <1>5 DEF Db
<1> QED BY <1>5, <1>6 DEF OnlyTablesOf, SetTables

LEMMA NewTableFound ==
  ASSUME CatalogueOK, NEW dbId, NEW json, IsNewTable(dbId, json)
  PROVE  /\ DmGetDbCtrlByDbId(dbId) \in DbIndex
         /\ Db(DmGetDbCtrlByDbId(dbId)).dbId = dbId
<1>1. DmGetDbCtrlByDbId(dbId) # 0
  BY DEF IsNewTable, CreateTableStatus, DB_ID_NOT_EXISTED, GMERR_OK
<1> QED BY <1>1, DbByDbIdFound, EntriesTyped

LEMMA TableStoreKept ==
  ASSUME IInv, NEW dbId \in DbId, NEW json \in Json,
         TablesGrowthFails(dbId, json) \/ NoTableAnswer(dbId, json)
  PROVE  StoreKept
<1>1. CatalogueOK
  BY IInvParts
<1>2. PICK d \in DbIndex : d = DmGetDbCtrlByDbId(dbId) /\ Db(d).dbId = dbId
  BY <1>1, NewTableFound DEF TablesGrowthFails, NoTableAnswer
<1>3. ASSUME TablesGrowthFails(dbId, json) PROVE StoreKept
  <2>1. SetTables(d, <<>>) /\ dbId \in lostTables'
    BY <1>2, <1>3 DEF TablesGrowthFails, SetTables
  <2>2. OnlyTablesOf(d) /\ Db(d)'.labelCtrlList = <<>>
    BY <1>1, <1>2, <2>1, TablesSet
  <2> QED BY <1>2, <2>1, <2>2 DEF StoreKept
<1>4. ASSUME NoTableAnswer(dbId, json) PROVE StoreKept
  <2>1. PICK properties \in Properties(ParsedFields(json)) :
          dbCtrlList' = [dbCtrlList EXCEPT ![d].labelCtrlList =
                           Append(@, NewLabel(dbId, json, properties))]
    BY <1>2, <1>4 DEF NoTableAnswer, AppendLabel
  <2>2. PICK new : new = NewLabel(dbId, json, properties)
    OBVIOUS
  <2>3. new \in SrLabelT /\ new.labelId = GenSrTableId /\ new.heapRow.rowCnt = 0
    <3>1. new.heapRow.rowCnt = 0
      BY <2>2 DEF NewLabel, SEFixedHeapInit
    <3> QED BY <1>1, <1>4, <2>2, <3>1, NewLabelTyped DEF NoTableAnswer, IsNewTable
  <2>4. Db(d).labelCtrlList \in Seq(SrLabelT)
    BY <1>1, <1>2, EntriesTyped DEF SrDbCtrlT
  <2>5. PICK labels : labels = Append(Db(d).labelCtrlList, new)
    OBVIOUS
  <2>6. labels[Len(labels)] = new
    BY <2>3, <2>4, <2>5
  <2>7. OnlyTablesOf(d) /\ Db(d)'.labelCtrlList = labels
    <3>1. SetTables(d, labels)
      BY <2>1, <2>2, <2>5 DEF Db, SetTables
    <3> QED BY <1>1, <1>2, <3>1, TablesSet
  <2>8. Label(d, Len(Db(d).labelCtrlList))' = new
    BY <2>6, <2>7 DEF Label, Db
  <2>9. Rows(new.heapRow) = <<>>
    BY <2>3 DEF Rows
  <2>10. IsWithEmptyTable(d)
    BY <2>3, <2>5, <2>7, <2>8, <2>9 DEF IsWithEmptyTable
  <2>11. dbId \notin lostTables'
    BY <1>4 DEF NoTableAnswer, memory
  <2> QED BY <1>2, <2>7, <2>10, <2>11 DEF StoreKept
<1> QED BY <1>3, <1>4

LEMMA RefusedStoreKept ==
  ASSUME IInv, [RtNext]_rtVars, Served, rsp'.status \in NoMemoryStatus
  PROVE  StoreKept
<1>0. server = "running" /\ server' = "running" /\ ~ corrupt'
  BY DEF Served, running
<1>1. ASSUME Next PROVE StoreKept
  BY <1>0, <1>1, OrdinaryStatus DEF StoreKept
<1>2. ASSUME NEW status, NothingDone(status) PROVE StoreKept
  BY <1>2 DEF NothingDone, Catalogue, StoreKept
<1>3. ~ Dies
  BY <1>0 DEF Dies, AbortServer
<1>4. ASSUME UNCHANGED vars PROVE StoreKept
  BY <1>4 DEF vars, StoreKept
<1>5. ASSUME UnknownOpCode \/ NoResultBuf \/ NoStmt \/ OtherOpCode \/ RtHandleAddTest
             \/ AddTestTraps \/ RefusedName \/ NoManagerYet \/ NoInsertData
             \/ WithoutHandler
      PROVE  StoreKept
  BY <1>1, <1>2, <1>3, <1>5
     DEF UnknownOpCode, NoResultBuf, NoStmt, OtherOpCode, RtHandleAddTest, AddTestTraps,
         RefusedName, NoManagerYet, NoInsertData, WithoutHandler, Next
<1>6. ASSUME NEW dbName \in DbName,
             \/ CreateDb(dbName) \/ CreateDbEarlyFailure(dbName)
             \/ CreateDbCrashes(dbName) \/ DbsGrowthFails(dbName)
             \/ CreateDbCorrupts(dbName) \/ DropDb(dbName)
      PROVE  StoreKept
  <2>1. ASSUME CreateDb(dbName) \/ DropDb(dbName) PROVE StoreKept
    BY <1>1, <1>2, <2>1 DEF CreateDb, DropDb, Next
  <2>2. ASSUME CreateDbEarlyFailure(dbName) PROVE StoreKept
    BY <2>2 DEF CreateDbEarlyFailure, Catalogue, StoreKept
  <2>3. ASSUME DbsGrowthFails(dbName) PROVE StoreKept
    BY <2>3 DEF DbsGrowthFails, StoreKept
  <2>4. ~ CreateDbCrashes(dbName) /\ ~ CreateDbCorrupts(dbName)
    BY <1>0, <1>3 DEF CreateDbCrashes, CreateDbCorrupts
  <2> QED BY <1>6, <2>1, <2>2, <2>3, <2>4
<1>7. ASSUME NEW dbId \in DbId, NEW json \in Json,
             \/ CreateTable(dbId, json)
             \/ CreateTableEarlyFailure(dbId, json) \/ NoPage(dbId, json)
             \/ TablesGrowthFails(dbId, json) \/ CreateTableCorrupts(dbId, json)
             \/ NoTableAnswer(dbId, json)
      PROVE  StoreKept
  <2>1. ASSUME CreateTable(dbId, json) PROVE StoreKept
    BY <1>1, <2>1 DEF CreateTable, Next
  <2>2. ASSUME CreateTableEarlyFailure(dbId, json) PROVE StoreKept
    BY <2>2 DEF CreateTableEarlyFailure, Catalogue, StoreKept
  <2>3. ~ NoPage(dbId, json) /\ ~ CreateTableCorrupts(dbId, json)
    BY <1>0, <1>3 DEF NoPage, CreateTableCorrupts
  <2> QED BY <1>7, <2>1, <2>2, <2>3, TableStoreKept
<1>8. ASSUME NEW dbId \in DbId, NEW labelId \in TableId,
             InsertData(dbId, labelId) \/ QueryTable(dbId, labelId)
      PROVE  StoreKept
  BY <1>1, <1>8 DEF InsertData, QueryTable, Next, Catalogue, StoreKept
<1>9. ASSUME NEW dbId \in DbId, GetDbDesc(dbId) PROVE StoreKept
  BY <1>1, <1>3, <1>9 DEF GetDbDesc, Next
<1>10. ASSUME Stop \/ Start \/ StartFails \/ UNCHANGED rtVars PROVE StoreKept
  BY <1>1, <1>4, <1>10 DEF Stop, Start, StartFails, rtVars, Next
<1> QED BY <1>5, <1>6, <1>7, <1>8, <1>9, <1>10 DEF RtNext, RTProcessMain

\* A request refused for want of memory leaves databases, tables and rows as they
\* are, but for the vectors that lose their buffer and the empty table whose id
\* nobody was told: for all sizes of the catalogue and its vectors.
THEOREM RefusalsKeepStore == RtSpec => FailuresKeepStore
<1>1. IInv /\ [RtNext]_rtVars =>
        (Served /\ rsp'.status \in NoMemoryStatus => StoreKept)
  BY RefusedStoreKept
<1>2. IInv /\ [RtNext]_rtVars =>
        [Served /\ rsp'.status \in NoMemoryStatus => StoreKept]_rtVars
  BY <1>1
<1>3. RtSpec => [][Served /\ rsp'.status \in NoMemoryStatus => StoreKept]_rtVars
  BY <1>2, FailuresKeepCatalogue, PTL DEF RtSpec
<1> QED BY <1>3 DEF FailuresKeepStore, StoreKept

-----------------------------------------------------------------------------
(* Counting what the catalogue refers to.                                  *)

\* The tables of the catalogue, and the databases whose vector has its buffer.
Pairs == UNION {{<<i, k>> : k \in LabelIndex(i)} : i \in DbIndex}

Owners == {i \in DbIndex : Db(i).dbId \notin lostTables}

LEMMA PairIn ==
  /\ \A i \in DbIndex : \A k \in LabelIndex(i) : <<i, k>> \in Pairs
  /\ \A p \in Pairs : \E i \in DbIndex : \E k \in LabelIndex(i) : p = <<i, k>>
BY DEF Pairs

LEMMA PairInNext ==
  /\ \A i \in DbIndex' : \A k \in LabelIndex(i)' : <<i, k>> \in Pairs'
  /\ \A p \in Pairs' : \E i \in DbIndex' : \E k \in LabelIndex(i)' : p = <<i, k>>
BY DEF Pairs

LEMMA CountsFinite == CatalogueOK => IsFiniteSet(Pairs) /\ IsFiniteSet(Owners)
<1> SUFFICES ASSUME CatalogueOK PROVE IsFiniteSet(Pairs) /\ IsFiniteSet(Owners)
  OBVIOUS
<1>1. Len(dbCtrlList) \in Nat /\ \A i \in DbIndex : Len(Db(i).labelCtrlList) \in Nat
  BY EntriesTyped
<1>2. IsFiniteSet(DbIndex)
  BY <1>1, FS_Interval DEF DbIndex
<1>3. IsFiniteSet(Owners)
  <2>1. Owners \in SUBSET DbIndex
    BY DEF Owners
  <2> QED BY <1>2, <2>1, FS_Subset
<1> DEFINE row(i) == {<<i, k>> : k \in LabelIndex(i)}
<1> DEFINE rows == {row(i) : i \in DbIndex}
<1>4. ASSUME NEW i \in DbIndex
      PROVE  IsFiniteSet(row(i))
  <2> DEFINE f == [k \in LabelIndex(i) |-> <<i, k>>]
  <2>1. IsFiniteSet(LabelIndex(i))
    BY <1>1, <1>4, FS_Interval DEF LabelIndex
  <2>2. f \in Surjection(LabelIndex(i), row(i))
    BY DEF Surjection
  <2> HIDE DEF f, row
  <2> QED BY <2>1, <2>2, FS_Surjection
<1>5. IsFiniteSet(rows)
  <2> DEFINE f == [i \in DbIndex |-> row(i)]
  <2>1. f \in Surjection(DbIndex, rows)
    <3> HIDE DEF row
    <3> QED BY DEF Surjection
  <2> HIDE DEF f, rows
  <2> QED BY <1>2, <2>1, FS_Surjection
<1>6. IsFiniteSet(UNION rows)
  <2>1. \A T \in rows : IsFiniteSet(T)
    <3> HIDE DEF row
    <3> QED BY <1>4
  <2> HIDE DEF rows
  <2> QED BY <1>5, <2>1, FS_UNION
<1>7. Pairs = UNION rows
  BY DEF Pairs
<1> QED BY <1>3, <1>6, <1>7

LEMMA CountsFiniteNext == (CatalogueOK => IsFiniteSet(Pairs) /\ IsFiniteSet(Owners))'
BY CountsFinite, PTL

\* The blocks the catalogue refers to, counted.
ReachesCounted ==
  /\ \A use \in Use : Reach(use) \in Int
  /\ Reach("manager") = IF dbsData = "none" THEN 0 ELSE 1
  /\ Reach("dbs") = IF dbsData = "buffer" THEN 1 ELSE 0
  /\ Reach("dbName") = Len(dbCtrlList)
  /\ Reach("tables") = Cardinality(Owners)
  /\ \A use \in {"labelName", "properties", "page"} : Reach(use) = Cardinality(Pairs)
  /\ \A use \in {"result", "stmt", "insertData", "retEntry"} : Reach(use) = 0

LEMMA ReachCounted == CatalogueOK => ReachesCounted
<1> SUFFICES ASSUME CatalogueOK PROVE ReachesCounted
  OBVIOUS
<1>1. /\ Len(dbCtrlList) \in Nat /\ Cardinality(Owners) \in Nat
      /\ Cardinality(Pairs) \in Nat
  BY EntriesTyped, CountsFinite, FS_CardinalityType
<1>2. TableCount = Cardinality(Pairs)
  BY DEF TableCount, Pairs
<1>3. /\ Reach("manager") = IF dbsData = "none" THEN 0 ELSE 1
      /\ Reach("dbs") = IF dbsData = "buffer" THEN 1 ELSE 0
      /\ Reach("dbName") = Len(dbCtrlList)
      /\ Reach("tables") = Cardinality(Owners)
  BY DEF Reach, Owners
<1>4. \A use \in {"labelName", "properties", "page"} : Reach(use) = Cardinality(Pairs)
  BY <1>2 DEF Reach
<1>5. \A use \in {"result", "stmt", "insertData", "retEntry"} : Reach(use) = 0
  BY DEF Reach
<1>6. ASSUME NEW use \in Use PROVE Reach(use) \in Int
  BY <1>1, <1>3, <1>4, <1>5, <1>6 DEF Use
<1> QED BY <1>3, <1>4, <1>5, <1>6 DEF ReachesCounted

LEMMA ReachCountedNext == (CatalogueOK => ReachesCounted)'
BY ReachCounted, PTL

\* A step after which all databases have the ids and as many tables as before.
LEMMA SameCounts ==
  ASSUME DbIndex' = DbIndex, lostTables' = lostTables,
         \A i \in DbIndex : LabelIndex(i)' = LabelIndex(i) /\ Db(i)'.dbId = Db(i).dbId
  PROVE  Pairs' = Pairs /\ Owners' = Owners
<1>1. Owners' = Owners
  BY DEF Owners
<1>2. Pairs' = Pairs
  <2>1. \A p \in Pairs' : p \in Pairs
    BY PairIn, PairInNext
  <2>2. \A p \in Pairs : p \in Pairs'
    BY PairIn, PairInNext
  <2> QED BY <2>1, <2>2
<1> QED BY <1>1, <1>2

\* A database more, without tables, whose id is new.
LEMMA CountsOfNewDb ==
  ASSUME CatalogueOK, NEW new, new.labelCtrlList = <<>>, new.dbId \notin lostTables,
         lostTables' = lostTables, dbCtrlList' = Append(dbCtrlList, new)
  PROVE  /\ Len(dbCtrlList') = Len(dbCtrlList) + 1
         /\ Cardinality(Owners') = Cardinality(Owners) + 1
         /\ Cardinality(Pairs') = Cardinality(Pairs)
<1>1. PICK n \in Nat : n = Len(dbCtrlList)
  BY EntriesTyped
<1>2. dbCtrlList \in Seq(SrDbCtrlT)
  BY DEF CatalogueOK
<1>3. /\ Len(dbCtrlList') = n + 1
      /\ \A i \in 1 .. n : dbCtrlList'[i] = dbCtrlList[i]
      /\ dbCtrlList'[n + 1] = new
  BY <1>1, <1>2
<1>4. /\ DbIndex = 1 .. n /\ DbIndex' = 1 .. n + 1
      /\ \A i \in 1 .. n : Db(i)' = Db(i) /\ LabelIndex(i)' = LabelIndex(i)
      /\ Db(n + 1)' = new /\ LabelIndex(n + 1)' = {}
  BY <1>1, <1>3 DEF DbIndex, Db, LabelIndex
<1>5. Owners' = Owners \cup {n + 1} /\ n + 1 \notin Owners
  <2>1. \A i \in 1 .. n + 1 : i \in 1 .. n \/ i = n + 1
    OBVIOUS
  <2>2. n + 1 \notin 1 .. n /\ n + 1 \in 1 .. n + 1
        /\ \A i \in 1 .. n : i \in 1 .. n + 1
    OBVIOUS
  <2>3. \A i \in Owners' : i \in Owners \cup {n + 1}
    BY <1>4, <2>1 DEF Owners
  <2>4. \A i \in Owners : i \in Owners'
    BY <1>4, <2>2 DEF Owners
  <2>5. n + 1 \in Owners' /\ n + 1 \notin Owners
    BY <1>4, <2>2 DEF Owners
  <2> QED BY <2>3, <2>4, <2>5
<1>6. Pairs' = Pairs
  <2>1. ASSUME NEW p \in Pairs' PROVE p \in Pairs
    <3>1. PICK i \in 1 .. n + 1 : \E k \in LabelIndex(i)' : p = <<i, k>>
      BY <1>4, PairInNext
    <3>2. i # n + 1
      BY <1>4, <3>1
    <3>3. i \in 1 .. n
      BY <3>2
    <3> QED BY <1>4, <3>1, <3>3, PairIn
  <2>2. ASSUME NEW p \in Pairs PROVE p \in Pairs'
    <3>1. PICK i \in 1 .. n : \E k \in LabelIndex(i) : p = <<i, k>>
      BY <1>4, PairIn
    <3>2. i \in 1 .. n + 1
      OBVIOUS
    <3> QED BY <1>4, <3>1, <3>2, PairInNext
  <2> QED BY <2>1, <2>2
<1>7. IsFiniteSet(Owners)
  BY CountsFinite
<1>8. Cardinality(Owners') = Cardinality(Owners) + 1
  BY <1>5, <1>7, FS_AddElement
<1> QED BY <1>1, <1>3, <1>6, <1>8

\* A table more in one of the databases, which may get a buffer for them again.
LEMMA CountsOfNewTable ==
  ASSUME CatalogueOK, NEW d \in DbIndex, NEW new \in SrLabelT,
         dbCtrlList' = [dbCtrlList EXCEPT ![d].labelCtrlList = Append(@, new)]
  PROVE  /\ Len(dbCtrlList') = Len(dbCtrlList)
         /\ lostTables' = lostTables => Cardinality(Owners') = Cardinality(Owners)
         /\ Db(d).dbId \in lostTables /\ lostTables' = lostTables \ {Db(d).dbId}
              => Cardinality(Owners') = Cardinality(Owners) + 1
         /\ Cardinality(Pairs') = Cardinality(Pairs) + 1
<1>1. /\ dbCtrlList \in Seq(SrDbCtrlT) /\ Db(d) \in SrDbCtrlT
      /\ d \in 1 .. Len(dbCtrlList) /\ Len(dbCtrlList) \in Nat
  BY EntriesTyped DEF CatalogueOK, DbIndex
<1>2. PICK m \in Nat : m = Len(Db(d).labelCtrlList)
  BY EntriesTyped
<1>3. PICK db : db = [Db(d) EXCEPT !.labelCtrlList = Append(Db(d).labelCtrlList, new)]
  OBVIOUS
<1>4. /\ db \in SrDbCtrlT /\ db.dbId = Db(d).dbId
      /\ db.labelCtrlList = Append(Db(d).labelCtrlList, new)
  <2>1. Db(d).labelCtrlList \in Seq(SrLabelT)
    BY <1>1 DEF SrDbCtrlT
  <2>2. PICK labels \in Seq(SrLabelT) : labels = Append(Db(d).labelCtrlList, new)
    <3>1. Append(Db(d).labelCtrlList, new) \in Seq(SrLabelT)
      BY <2>1
    <3> QED BY <3>1
  <2> QED BY <1>1, <1>3, <2>2 DEF SrDbCtrlT
<1>5. Len(db.labelCtrlList) = m + 1
  <2>1. Db(d).labelCtrlList \in Seq(SrLabelT)
    BY <1>1 DEF SrDbCtrlT
  <2> QED BY <1>2, <1>4, <2>1
<1>6. dbCtrlList' = [dbCtrlList EXCEPT ![d] = db]
  BY <1>3 DEF Db
<1>7. /\ Len(dbCtrlList') = Len(dbCtrlList)
      /\ \A i \in 1 .. Len(dbCtrlList) :
           dbCtrlList'[i] = IF i = d THEN db ELSE dbCtrlList[i]
  BY ONLY <1>1, <1>4, <1>6, ItemReplaced
<1>8. /\ DbIndex' = DbIndex
      /\ \A i \in DbIndex : Db(i)'.dbId = Db(i).dbId
      /\ \A i \in DbIndex : i # d => LabelIndex(i)' = LabelIndex(i)
      /\ LabelIndex(d) = 1 .. m /\ LabelIndex(d)' = 1 .. m + 1
  BY <1>1, <1>2, <1>4, <1>5, <1>7 DEF DbIndex, Db, LabelIndex
<1>9. /\ lostTables' = lostTables => Owners' = Owners
      /\ Db(d).dbId \in lostTables /\ lostTables' = lostTables \ {Db(d).dbId}
           => Owners' = Owners \cup {d} /\ d \notin Owners
  <2>1. lostTables' = lostTables => Owners' = Owners
    BY <1>8 DEF Owners
  <2>2. ASSUME Db(d).dbId \in lostTables, lostTables' = lostTables \ {Db(d).dbId}
        PROVE  Owners' = Owners \cup {d} /\ d \notin Owners
    <3>1. \A i \in DbIndex : Db(i).dbId = Db(d).dbId => i = d
      BY DEF CatalogueOK, NamesUnique
    <3> QED BY <1>8, <2>2, <3>1 DEF Owners
  <2> QED BY <2>1, <2>2
<1>10. Pairs' = Pairs \cup {<<d, m + 1>>} /\ <<d, m + 1>> \notin Pairs
  <2>1. /\ m + 1 \in 1 .. m + 1 /\ m + 1 \notin 1 .. m
        /\ \A k \in 1 .. m + 1 : k \in 1 .. m \/ k = m + 1
        /\ \A k \in 1 .. m : k \in 1 .. m + 1
    OBVIOUS
  <2>2. ASSUME NEW p \in Pairs' PROVE p \in Pairs \cup {<<d, m + 1>>}
    <3>1. PICK i \in DbIndex : \E k \in LabelIndex(i)' : p = <<i, k>>
      BY <1>8, PairInNext
    <3>2. PICK k \in LabelIndex(i)' : p = <<i, k>>
      BY <3>1
    <3> QED BY <1>8, <2>1, <3>2, PairIn
  <2>3. ASSUME NEW p \in Pairs PROVE p \in Pairs'
    <3>1. PICK i \in DbIndex : \E k \in LabelIndex(i) : p = <<i, k>>
      BY PairIn
    <3>2. PICK k \in LabelIndex(i) : p = <<i, k>>
      BY <3>1
    <3>3. k \in LabelIndex(i)'
      BY <1>8, <2>1, <3>2
    <3> QED BY <1>8, <3>2, <3>3, PairInNext
  <2>4. <<d, m + 1>> \in Pairs'
    BY <1>8, <2>1, PairInNext
  <2>5. <<d, m + 1>> \notin Pairs
    BY <1>8, <2>1, PairIn
  <2> QED BY <2>2, <2>3, <2>4, <2>5
<1>11. IsFiniteSet(Pairs)
  BY CountsFinite
<1>12. Cardinality(Pairs') = Cardinality(Pairs) + 1
  BY <1>10, <1>11, FS_AddElement
<1>13. Db(d).dbId \in lostTables /\ lostTables' = lostTables \ {Db(d).dbId}
         => Cardinality(Owners') = Cardinality(Owners) + 1
  BY <1>9, CountsFinite, FS_AddElement
<1> QED BY <1>7, <1>9, <1>12, <1>13

\* A database less, with its tables: the others move up by one.
LEMMA CountsOfDrop ==
  ASSUME CatalogueOK, CatalogueOK', NEW d \in DbIndex, lostTables' = lostTables,
         dbCtrlList' = RemoveItem(dbCtrlList, d)
  PROVE  /\ Len(dbCtrlList') = Len(dbCtrlList) - 1
         /\ Cardinality(Owners') <= Cardinality(Owners)
         /\ Cardinality(Pairs') <= Cardinality(Pairs)
<1> DEFINE from(i) == IF i < d THEN i ELSE i + 1
<1>1. PICK n \in Nat : n = Len(dbCtrlList)
  BY EntriesTyped
<1>2. d \in 1 .. n /\ n - 1 \in Nat /\ DbIndex = 1 .. n
  BY <1>1 DEF DbIndex
<1>3. dbCtrlList' = [k \in 1 .. n - 1 |-> dbCtrlList[from(k)]]
  BY <1>1 DEF RemoveItem
<1>4. \A i \in 1 .. n - 1 :
        from(i) \in 1 .. n /\ \A j \in 1 .. n - 1 : from(i) = from(j) => i = j
  BY <1>2
<1> HIDE DEF from
<1>5. Len(dbCtrlList') = n - 1
  <2>1. dbCtrlList' \in Seq(SrDbCtrlT)
    BY DEF CatalogueOK
  <2>2. DOMAIN dbCtrlList' = 1 .. n - 1
    BY <1>3
  <2> QED BY <1>2, <2>1, <2>2
<1>6. /\ DbIndex' = 1 .. n - 1
      /\ \A i \in DbIndex' : Db(i)' = Db(from(i)) /\ LabelIndex(i)' = LabelIndex(from(i))
  BY <1>3, <1>5 DEF DbIndex, Db, LabelIndex
<1>7. Cardinality(Owners') <= Cardinality(Owners)
  <2> DEFINE f == [i \in Owners' |-> from(i)]
  <2>1. \A i \in Owners' : i \in 1 .. n - 1 /\ from(i) \in Owners
    BY <1>2, <1>4, <1>6 DEF Owners
  <2>2. f \in Injection(Owners', Owners)
    BY <1>4, <2>1 DEF Injection, IsInjective
  <2> HIDE DEF f
  <2> QED BY <2>2, CountsFinite, FS_Injection
<1>8. Cardinality(Pairs') <= Cardinality(Pairs)
  <2> DEFINE f == [p \in Pairs' |-> <<from(p[1]), p[2]>>]
  <2>1. \A p \in Pairs' : \E i \in 1 .. n - 1 : \E k \in LabelIndex(i)' : p = <<i, k>>
    BY <1>6, PairInNext
  <2>2. ASSUME NEW p \in Pairs'
        PROVE  /\ p[1] \in 1 .. n - 1 /\ p = <<p[1], p[2]>>
               /\ <<from(p[1]), p[2]>> \in Pairs
    <3>1. PICK i \in 1 .. n - 1 : \E k \in LabelIndex(i)' : p = <<i, k>>
      BY <2>1, <2>2
    <3>2. PICK k \in LabelIndex(i)' : p = <<i, k>>
      BY <3>1
    <3>3. p[1] = i /\ p[2] = k
      BY <3>2
    <3>4. from(i) \in DbIndex /\ k \in LabelIndex(from(i))
      BY <1>2, <1>4, <1>6, <3>2
    <3> QED BY <3>2, <3>3, <3>4, PairIn
  <2>3. ASSUME NEW p \in Pairs', NEW q \in Pairs', f[p] = f[q]
        PROVE  p = q
    <3>1. <<from(p[1]), p[2]>> = <<from(q[1]), q[2]>>
      BY <2>3
    <3>2. from(p[1]) = from(q[1]) /\ p[2] = q[2]
      BY <3>1
    <3>3. p[1] = q[1]
      BY <1>4, <2>2, <3>2
    <3> QED BY <2>2, <3>2, <3>3
  <2>4. f \in Injection(Pairs', Pairs)
    <3>1. f \in [Pairs' -> Pairs]
      BY <2>2
    <3>2. DOMAIN f = Pairs'
      OBVIOUS
    <3> HIDE DEF f
    <3> QED BY <2>3, <3>1, <3>2 DEF Injection, IsInjective
  <2> HIDE DEF f
  <2> QED BY <2>4, CountsFinite, FS_Injection
<1> QED BY <1>1, <1>5, <1>7, <1>8

\* Items out of sight: fewer databases or tables at the places there were.
LEMMA CountsOfLoss ==
  ASSUME CatalogueOK, CatalogueOK', DbIndex' \subseteq DbIndex,
         lostTables \subseteq lostTables',
         \A i \in DbIndex' : LabelIndex(i)' \subseteq LabelIndex(i) /\ Db(i)'.dbId = Db(i).dbId
  PROVE  /\ Len(dbCtrlList') <= Len(dbCtrlList)
         /\ Cardinality(Owners') <= Cardinality(Owners)
         /\ Cardinality(Pairs') <= Cardinality(Pairs)
<1>1. Len(dbCtrlList') <= Len(dbCtrlList)
  <2>1. Len(dbCtrlList) \in Nat /\ Len(dbCtrlList') \in Nat
    BY DEF CatalogueOK
  <2>2. Len(dbCtrlList') # 0 => Len(dbCtrlList') \in DbIndex'
    BY <2>1 DEF DbIndex
  <2>3. Len(dbCtrlList') # 0 => Len(dbCtrlList') \in 1 .. Len(dbCtrlList)
    BY <2>2 DEF DbIndex
  <2> QED BY <2>1, <2>3
<1>2. Owners' \in SUBSET Owners
  BY DEF Owners
<1>3. Pairs' \in SUBSET Pairs
  <2>1. ASSUME NEW p \in Pairs' PROVE p \in Pairs
    <3>1. PICK i \in DbIndex' : \E k \in LabelIndex(i)' : p = <<i, k>>
      BY PairInNext
    <3> QED BY <3>1, PairIn
  <2> QED BY <2>1
<1> QED BY <1>1, <1>2, <1>3, CountsFinite, FS_Subset

-----------------------------------------------------------------------------
(* The blocks of a request.                                                *)

\* There is a manager when there is a vector for it, and a vector of tables that
\* is lost belongs to a database there was: no later one has its id.
MemoryInv ==
  /\ g_srDbCtrlManager <=> dbsData # "none"
  /\ \A id \in lostTables : id \in Nat /\ id < g_dbGenNum

\* What the properties say of a served request.
NothingFreed ==
  \A use \in Use \ (IF NewDbUntold THEN {"dbName", "tables"} ELSE {}) :
    Reach(use)' - Reach(use) <= Balance(use)'

NothingLeft ==
  rsp'.status = GMERR_OK /\ Len(dbCtrlList') >= Len(dbCtrlList) =>
    \A use \in Use : Balance(use)' = Reach(use)' - Reach(use)

Settled ==
  /\ MemoryInv'
  /\ running /\ running' => NothingFreed
  /\ Served => NothingLeft

LEMMA IInvPartsNext == (IInv => CatalogueOK)'
<1>1. IInv => CatalogueOK
  BY IInvParts
<1> QED BY <1>1, PTL

\* What a step adds for each use: at least as many blocks as the catalogue is to
\* refer to more.
LEMMA FreedCounted ==
  ASSUME CatalogueOK, CatalogueOK',
         NEW n \in Int, Len(dbCtrlList') = Len(dbCtrlList) + n,
         NEW t \in Int, Cardinality(Owners') = Cardinality(Owners) + t,
         NEW c \in Int, Cardinality(Pairs') = Cardinality(Pairs) + c,
         Reach("manager")' - Reach("manager") <= Balance("manager")',
         Reach("dbs")' - Reach("dbs") <= Balance("dbs")',
         n <= Balance("dbName")', t <= Balance("tables")',
         \A use \in {"labelName", "properties", "page"} : c <= Balance(use)',
         \A use \in {"result", "stmt", "insertData", "retEntry"} : 0 <= Balance(use)'
  PROVE  /\ Reach("dbName")' - Reach("dbName") = n
         /\ Reach("tables")' - Reach("tables") = t
         /\ \A use \in {"labelName", "properties", "page"} : Reach(use)' - Reach(use) = c
         /\ \A use \in {"result", "stmt", "insertData", "retEntry"} :
              Reach(use)' - Reach(use) = 0
         /\ NothingFreed
<1>1. /\ \A use \in Use : Reach(use) \in Int
      /\ Reach("dbName") = Len(dbCtrlList) /\ Reach("tables") = Cardinality(Owners)
      /\ \A use \in {"labelName", "properties", "page"} : Reach(use) = Cardinality(Pairs)
      /\ \A use \in {"result", "stmt", "insertData", "retEntry"} : Reach(use) = 0
  BY ReachCounted DEF ReachesCounted
<1>2. /\ \A use \in Use : Reach(use)' \in Int
      /\ Reach("dbName")' = Len(dbCtrlList') /\ Reach("tables")' = Cardinality(Owners')
      /\ \A use \in {"labelName", "properties", "page"} : Reach(use)' = Cardinality(Pairs')
      /\ \A use \in {"result", "stmt", "insertData", "retEntry"} : Reach(use)' = 0
  BY ReachCountedNext DEF ReachesCounted
<1>3. Len(dbCtrlList) \in Int
  BY EntriesTyped
<1>4. /\ Reach("dbName")' - Reach("dbName") = n
      /\ Reach("tables")' - Reach("tables") = t
      /\ \A use \in {"labelName", "properties", "page"} : Reach(use)' - Reach(use) = c
      /\ \A use \in {"result", "stmt", "insertData", "retEntry"} : Reach(use)' - Reach(use) = 0
  <2>1. Reach("dbName") \in Int /\ Reach("tables") \in Int
        /\ \A use \in {"labelName", "properties", "page"} : Reach(use) \in Int
    BY <1>1 DEF Use
  <2>2. Reach("dbName")' - Reach("dbName") = n
    BY <1>1, <1>2, <1>3
  <2>3. Reach("tables")' - Reach("tables") = t
    BY <1>1, <1>2, <2>1
  <2>4. \A use \in {"labelName", "properties", "page"} : Reach(use)' - Reach(use) = c
    BY <1>1, <1>2, <2>1
  <2>5. \A use \in {"result", "stmt", "insertData", "retEntry"} :
          Reach(use)' - Reach(use) = 0
    BY <1>1, <1>2
  <2> QED BY <2>2, <2>3, <2>4, <2>5
<1>5. NothingFreed
  <2>1. \A use \in Use : Reach(use)' - Reach(use) <= Balance(use)'
    BY <1>4 DEF Use
  <2> QED BY <2>1 DEF NothingFreed
<1> QED BY <1>4, <1>5

\* And exactly as many when nothing may be left behind.
LEMMA Accounts ==
  ASSUME CatalogueOK, CatalogueOK', MemoryInv',
         NEW n \in Int, Len(dbCtrlList') = Len(dbCtrlList) + n,
         NEW t \in Int, Cardinality(Owners') = Cardinality(Owners) + t,
         NEW c \in Int, Cardinality(Pairs') = Cardinality(Pairs) + c,
         Reach("manager")' - Reach("manager") <= Balance("manager")',
         Reach("dbs")' - Reach("dbs") <= Balance("dbs")',
         n <= Balance("dbName")', t <= Balance("tables")',
         \A use \in {"labelName", "properties", "page"} : c <= Balance(use)',
         \A use \in {"result", "stmt", "insertData", "retEntry"} : 0 <= Balance(use)',
         rsp'.status = GMERR_OK /\ n >= 0 =>
           /\ Balance("manager")' = Reach("manager")' - Reach("manager")
           /\ Balance("dbs")' = Reach("dbs")' - Reach("dbs")
           /\ Balance("dbName")' = n /\ Balance("tables")' = t
           /\ \A use \in {"labelName", "properties", "page"} : Balance(use)' = c
           /\ \A use \in {"result", "stmt", "insertData", "retEntry"} : Balance(use)' = 0
  PROVE  Settled
<1>1. /\ Reach("dbName")' - Reach("dbName") = n
      /\ Reach("tables")' - Reach("tables") = t
      /\ \A use \in {"labelName", "properties", "page"} : Reach(use)' - Reach(use) = c
      /\ \A use \in {"result", "stmt", "insertData", "retEntry"} : Reach(use)' - Reach(use) = 0
      /\ NothingFreed
  BY FreedCounted
<1>2. NothingLeft
  <2>1. Len(dbCtrlList) \in Int
    BY EntriesTyped
  <2>2. Len(dbCtrlList') >= Len(dbCtrlList) => n >= 0
    BY <2>1
  <2> QED BY <1>1, <2>2 DEF NothingLeft, Use
<1> QED BY <1>1, <1>2 DEF Settled

\* What a request gave back it had allocated, and when it succeeded that is all.
Even == gave' \subseteq took' /\ (rsp'.status = GMERR_OK => gave' = took')

LEMMA HandledEven ==
  ASSUME NEW taken, taken \subseteq {"retEntry", "insertData"}, Handled(taken, {})
  PROVE  Even
BY DEF Handled, Uses, Even

\* A request that leaves the catalogue's counts alone and takes nothing for it.
LEMMA EvenSettled ==
  ASSUME CatalogueOK, CatalogueOK', MemoryInv, Even,
         UNCHANGED <<g_srDbCtrlManager, g_dbGenNum, memory>>,
         Len(dbCtrlList') = Len(dbCtrlList), Owners' = Owners, Pairs' = Pairs
  PROVE  Settled
<1>1. MemoryInv'
  BY DEF MemoryInv, memory
<1>2. \A use \in Use : 0 <= Balance(use)'
                         /\ (rsp'.status = GMERR_OK => Balance(use)' = 0)
  BY DEF Even, Balance
<1>3. /\ Len(dbCtrlList) \in Nat /\ Cardinality(Owners) \in Nat
      /\ Cardinality(Pairs) \in Nat
  BY EntriesTyped, CountsFinite, FS_CardinalityType
<1>4. \A use \in {"manager", "dbs"} : Reach(use)' - Reach(use) = 0
  <2>1. ReachesCounted /\ ReachesCounted'
    BY ReachCounted, ReachCountedNext
  <2>2. dbsData' = dbsData
    BY DEF memory
  <2> QED BY <2>1, <2>2 DEF ReachesCounted
<1>5. {"manager", "dbs", "dbName", "tables", "labelName", "properties", "page",
       "result", "stmt", "insertData", "retEntry"} \subseteq Use
  BY DEF Use
<1>6. /\ 0 \in Int /\ Len(dbCtrlList') = Len(dbCtrlList) + 0
      /\ Cardinality(Owners') = Cardinality(Owners) + 0
      /\ Cardinality(Pairs') = Cardinality(Pairs) + 0
  BY <1>3
<1>7. /\ Reach("manager")' - Reach("manager") <= Balance("manager")'
      /\ Reach("dbs")' - Reach("dbs") <= Balance("dbs")'
  BY <1>2, <1>4, <1>5
<1>8. /\ 0 <= Balance("dbName")' /\ 0 <= Balance("tables")'
      /\ \A use \in {"labelName", "properties", "page"} : 0 <= Balance(use)'
      /\ \A use \in {"result", "stmt", "insertData", "retEntry"} : 0 <= Balance(use)'
  BY <1>2, <1>5
<1>9. rsp'.status = GMERR_OK =>
        /\ Balance("manager")' = Reach("manager")' - Reach("manager")
        /\ Balance("dbs")' = Reach("dbs")' - Reach("dbs")
        /\ Balance("dbName")' = 0 /\ Balance("tables")' = 0
        /\ \A use \in {"labelName", "properties", "page"} : Balance(use)' = 0
        /\ \A use \in {"result", "stmt", "insertData", "retEntry"} : Balance(use)' = 0
  BY <1>2, <1>4, <1>5
<1> QED BY <1>1, <1>6, <1>7, <1>8, <1>9, Accounts

LEMMA UnchangedSettled ==
  ASSUME IInv, IInv', MemoryInv, Even,
         UNCHANGED <<g_srDbCtrlManager, Catalogue, memory>>
  PROVE  Settled
<1>1. CatalogueOK /\ CatalogueOK'
  BY IInvParts, IInvPartsNext
<1>2. Owners' = Owners /\ Pairs' = Pairs /\ Len(dbCtrlList') = Len(dbCtrlList)
  BY SameCounts DEF Catalogue, memory, DbIndex, LabelIndex, Db
<1> QED BY <1>1, <1>2, EvenSettled DEF Catalogue

LEMMA DiesSettled ==
  ASSUME MemoryInv, Dies
  PROVE  Settled
BY DEF Dies, AbortServer, memory, MemoryInv, Settled, Served, running

\* What a refusal and an answer with an id say of their status.
LEMMA StatusOf ==
  /\ \A status : Refuse(status) => rsp'.status = status
  /\ \A id, fields : rsp' = Answer(GMERR_OK, id, fields) => rsp'.status = GMERR_OK
BY DEF Refuse, Answer

\* The manager and its vector are counted when the first request makes them.
LEMMA ManagerAccount ==
  ASSUME CatalogueOK, CatalogueOK', MemoryInv, g_srDbCtrlManager \in BOOLEAN,
         NEW data \in ManagerBuffers, dbsData' = data
  PROVE  /\ ManagerUses(data) \subseteq {"manager", "dbs"}
         /\ \A use \in {"manager", "dbs"} :
              Reach(use)' - Reach(use) = IF use \in ManagerUses(data) THEN 1 ELSE 0
<1>1. ReachesCounted /\ ReachesCounted'
  BY ReachCounted, ReachCountedNext
<1>2. CASE g_srDbCtrlManager
  BY <1>1, <1>2 DEF ReachesCounted, ManagerUses, ManagerBuffers
<1>3. CASE ~ g_srDbCtrlManager
  <2>1. dbsData = "none"
    BY <1>3 DEF MemoryInv
  <2>2. data \in {"buffer", "null", "none"}
    BY <1>3 DEF ManagerBuffers
  <2> QED BY <1>1, <1>3, <2>1, <2>2 DEF ReachesCounted, ManagerUses
<1> QED BY <1>2, <1>3

LEMMA CreateDbSettled ==
  ASSUME IInv, IInv', MemoryInv, NEW dbName \in DbName, CreateDb(dbName)
  PROVE  Settled
<1> DEFINE uses == ManagerUses("buffer")
<1>1. /\ CatalogueOK /\ CatalogueOK' /\ g_srDbCtrlManager \in BOOLEAN
      /\ g_dbGenNum \in Nat
  <2>1. CatalogueOK /\ CatalogueOK' /\ g_srDbCtrlManager \in BOOLEAN
    BY IInvParts, IInvPartsNext
  <2> QED BY <2>1, CounterTyped DEF CatalogueOK
<1>2. /\ "buffer" \in ManagerBuffers /\ dbsData' = "buffer" /\ lostTables' = lostTables
      /\ DMSrCreateDb(dbName) /\ g_srDbCtrlManager' = TRUE
      /\ Handled(uses \cup IF IsDbNameExist(dbName) THEN {}
                           ELSE {"dbName", "tables", "retEntry"}, {})
  BY DEF CreateDb, DMSrCreateDb
<1>3. /\ uses \subseteq {"manager", "dbs"}
      /\ \A use \in {"manager", "dbs"} :
           Reach(use)' - Reach(use) = IF use \in uses THEN 1 ELSE 0
  BY <1>1, <1>2, ManagerAccount
<1>4. /\ Len(dbCtrlList) \in Nat /\ Cardinality(Owners) \in Nat
      /\ Cardinality(Pairs) \in Nat
  BY <1>1, EntriesTyped, CountsFinite, FS_CardinalityType
<1> HIDE DEF uses
<1>5. CASE IsDbNameExist(dbName)
  <2>1. UNCHANGED Catalogue /\ rsp'.status = NAME_EXISTED
    BY <1>2, <1>5, StatusOf DEF DMSrCreateDb
  <2>2. MemoryInv'
    BY <1>2, <2>1 DEF MemoryInv, Catalogue
  <2>3. took' = {"result", "stmt"} \cup uses /\ gave' = {"result"}
    BY <1>2, <1>5, <2>1 DEF Handled, Uses, NAME_EXISTED, GMERR_OK
  <2>4. /\ Len(dbCtrlList') = Len(dbCtrlList) + 0
        /\ Cardinality(Owners') = Cardinality(Owners) + 0
        /\ Cardinality(Pairs') = Cardinality(Pairs) + 0
    BY <1>2, <1>4, <2>1, SameCounts DEF Catalogue, DbIndex, LabelIndex, Db
  <2>5. /\ \A use \in {"manager", "dbs"} : Reach(use)' - Reach(use) <= Balance(use)'
        /\ \A use \in Use : 0 <= Balance(use)'
    BY <1>3, <2>3 DEF Balance
  <2>6. rsp'.status # GMERR_OK
    BY <2>1 DEF NAME_EXISTED, GMERR_OK
  <2> QED BY <1>1, <2>2, <2>4, <2>5, <2>6, Accounts DEF Use
<1>6. CASE ~ IsDbNameExist(dbName)
  <2>1. AppendDbCtrl(dbName) /\ rsp'.status = GMERR_OK
    BY <1>2, <1>6, StatusOf DEF DMSrCreateDb
  <2>2. MemoryInv'
    BY <1>1, <1>2, <2>1 DEF MemoryInv, AppendDbCtrl
  <2>3. /\ took' = {"result", "stmt", "dbName", "tables", "retEntry"} \cup uses
        /\ gave' = {"result", "stmt", "retEntry"}
    <3>1. Handled(uses \cup {"dbName", "tables", "retEntry"}, {})
      BY <1>2, <1>6
    <3> QED BY <1>3, <2>1, <3>1 DEF Handled, Uses
  <2>4. /\ Len(dbCtrlList') = Len(dbCtrlList) + 1
        /\ Cardinality(Owners') = Cardinality(Owners) + 1
        /\ Cardinality(Pairs') = Cardinality(Pairs) + 0
    <3>1. PICK new : new = [dbName |-> dbName, dbId |-> GenSrDbId, labelCtrlList |-> <<>>]
      OBVIOUS
    <3>2. new.labelCtrlList = <<>> /\ new.dbId \notin lostTables
      BY <1>1, <3>1 DEF MemoryInv, GenSrDbId
    <3>3. dbCtrlList' = Append(dbCtrlList, new)
      BY <2>1, <3>1 DEF AppendDbCtrl
    <3> QED BY <1>1, <1>2, <1>4, <3>2, <3>3, CountsOfNewDb
  <2>5. /\ \A use \in {"manager", "dbs"} : Balance(use)' = Reach(use)' - Reach(use)
        /\ Balance("dbName")' = 1 /\ Balance("tables")' = 1
        /\ \A use \in {"labelName", "properties", "page"} : Balance(use)' = 0
        /\ \A use \in {"result", "stmt", "insertData", "retEntry"} : Balance(use)' = 0
    BY <1>3, <2>3 DEF Balance
  <2>6. \A use \in {"manager", "dbs"} : Reach(use)' - Reach(use) <= Balance(use)'
    BY <1>3, <2>5
  <2> QED BY <1>1, <2>2, <2>4, <2>5, <2>6, Accounts
<1> QED BY <1>5, <1>6

\* A step after which the catalogue refers to no more than before.
LEMMA LossSettled ==
  ASSUME CatalogueOK, CatalogueOK', MemoryInv',
         Len(dbCtrlList') <= Len(dbCtrlList),
         Cardinality(Owners') <= Cardinality(Owners),
         Cardinality(Pairs') <= Cardinality(Pairs),
         \A use \in {"manager", "dbs"} : Reach(use)' - Reach(use) <= Balance(use)',
         \A use \in Use : 0 <= Balance(use)',
         rsp'.status # GMERR_OK \/ ~ (Len(dbCtrlList') >= Len(dbCtrlList))
  PROVE  Settled
<1>1. /\ Len(dbCtrlList) \in Int /\ Cardinality(Owners) \in Int
      /\ Cardinality(Pairs) \in Int
  BY EntriesTyped, CountsFinite, FS_CardinalityType
<1>2. /\ Len(dbCtrlList') \in Int /\ Cardinality(Owners') \in Int
      /\ Cardinality(Pairs') \in Int
  BY CountsFiniteNext, FS_CardinalityType DEF CatalogueOK
<1>0. ASSUME NEW old \in Int, NEW new \in Int
      PROVE  \E n \in Int : new = old + n
  <2>1. new - old \in Int /\ new = old + (new - old)
    OBVIOUS
  <2> QED BY <2>1
<1>3. PICK n \in Int : Len(dbCtrlList') = Len(dbCtrlList) + n
  BY <1>0, <1>1, <1>2
<1>4. PICK t \in Int : Cardinality(Owners') = Cardinality(Owners) + t
  BY <1>0, <1>1, <1>2
<1>5. PICK c \in Int : Cardinality(Pairs') = Cardinality(Pairs) + c
  BY <1>0, <1>1, <1>2
<1>6. /\ n <= 0 /\ t <= 0 /\ c <= 0
      /\ ~ (rsp'.status = GMERR_OK /\ n >= 0)
  BY <1>1, <1>3, <1>4, <1>5
<1>7. ASSUME NEW use \in Use
      PROVE  Balance(use)' \in Int
  BY DEF Balance
<1>8. \A use \in Use : n <= Balance(use)' /\ t <= Balance(use)' /\ c <= Balance(use)'
  BY <1>6, <1>7
<1> QED BY <1>3, <1>4, <1>5, <1>6, <1>8, Accounts DEF Use

\* A database that is made but leaves the catalogue corrupt.
LEMMA CorruptDbSettled ==
  ASSUME IInv, IInv', MemoryInv, NEW dbName \in DbName, CreateDbCorrupts(dbName)
  PROVE  Settled
<1>1. /\ CatalogueOK /\ CatalogueOK' /\ g_srDbCtrlManager \in BOOLEAN
      /\ g_dbGenNum \in Nat
  <2>1. CatalogueOK /\ CatalogueOK' /\ g_srDbCtrlManager \in BOOLEAN
    BY IInvParts, IInvPartsNext
  <2> QED BY <2>1, CounterTyped DEF CatalogueOK
<1>2. /\ lostTables' = lostTables /\ g_dbGenNum' = g_dbGenNum + 1 /\ corrupt' = TRUE
      /\ dbsData' = "buffer" /\ g_srDbCtrlManager' = TRUE
      /\ ManagerBuffers \cap {"buffer", "lost"} # {}
      /\ AppendDbCtrl(dbName)
  BY DEF CreateDbCorrupts, AppendDbCtrl, GetDbCtrlManager
<1>3. MemoryInv'
  BY <1>1, <1>2 DEF MemoryInv
<1>4. /\ Len(dbCtrlList') = Len(dbCtrlList) + 1
      /\ Cardinality(Owners') = Cardinality(Owners) + 1
      /\ Cardinality(Pairs') = Cardinality(Pairs)
  <2>1. PICK new : new = [dbName |-> dbName, dbId |-> GenSrDbId, labelCtrlList |-> <<>>]
    OBVIOUS
  <2>2. new.labelCtrlList = <<>> /\ new.dbId \notin lostTables
    BY <1>1, <2>1 DEF MemoryInv, GenSrDbId
  <2>3. dbCtrlList' = Append(dbCtrlList, new)
    BY <1>2, <2>1 DEF AppendDbCtrl
  <2> QED BY <1>1, <1>2, <2>2, <2>3, CountsOfNewDb
<1>5. /\ \A use \in {"manager", "dbs"} :
           Reach(use)' - Reach(use) <= IF use \in NewDbUses THEN 1 ELSE 0
      /\ NewDbUses \subseteq {"manager", "dbs", "dbName", "tables"}
      /\ {"dbName", "tables"} \subseteq NewDbUses
  <2>1. ReachesCounted /\ ReachesCounted'
    BY <1>1, ReachCounted, ReachCountedNext
  <2>2. CASE dbsData = "lost"
    BY <1>2, <2>1, <2>2 DEF ReachesCounted, NewDbUses
  <2>3. CASE dbsData # "lost"
    <3>1. NewDbUses = {"dbName", "tables"} \cup ManagerUses("buffer")
      BY <2>3 DEF NewDbUses
    <3>2. CASE g_srDbCtrlManager
      <4>1. dbsData = "buffer" /\ ManagerUses("buffer") = {}
        BY <1>2, <2>3, <3>2 DEF ManagerBuffers, ManagerUses
      <4> QED BY <1>2, <2>1, <3>1, <4>1 DEF ReachesCounted
    <3>3. CASE ~ g_srDbCtrlManager
      <4>1. dbsData = "none" /\ ManagerUses("buffer") = {"manager", "dbs"}
        BY <3>3 DEF MemoryInv, ManagerUses
      <4> QED BY <1>2, <2>1, <3>1, <4>1 DEF ReachesCounted
    <3> QED BY <3>2, <3>3
  <2> QED BY <2>2, <2>3
<1>6. CASE /\ rsp'.status = GMERR_OK
           /\ took' = {"result", "stmt", "retEntry"} \cup NewDbUses
           /\ gave' = {"result", "stmt", "retEntry"}
  <2>1. /\ \A use \in {"manager", "dbs"} : Reach(use)' - Reach(use) <= Balance(use)'
        /\ Balance("dbName")' = 1 /\ Balance("tables")' = 1
        /\ \A use \in {"labelName", "properties", "page"} : Balance(use)' = 0
        /\ \A use \in {"result", "stmt", "insertData", "retEntry"} : Balance(use)' = 0
    BY <1>5, <1>6 DEF Balance
  <2>2. 0 \in Int /\ 1 \in Int /\ Cardinality(Pairs') = Cardinality(Pairs) + 0
    BY <1>1, <1>4, CountsFinite, FS_CardinalityType
  <2>3. /\ 1 <= Balance("dbName")' /\ 1 <= Balance("tables")'
        /\ \A use \in {"labelName", "properties", "page"} : 0 <= Balance(use)'
        /\ \A use \in {"result", "stmt", "insertData", "retEntry"} : 0 <= Balance(use)'
        /\ Reach("manager")' - Reach("manager") <= Balance("manager")'
        /\ Reach("dbs")' - Reach("dbs") <= Balance("dbs")'
    BY <2>1
  <2>4. NothingFreed
    BY ONLY <1>1, <1>4, <2>2, <2>3, FreedCounted
  <2> QED BY <1>2, <1>3, <2>4 DEF Settled, Served
<1>7. CASE /\ rsp'.status = KV_MEMORY_ALLOC_FAILED
           /\ took' = {"result", "stmt"} \cup NewDbUses
           /\ gave' = {"result", "dbName", "tables"}
  <2>1. NewDbUntold
    BY <1>1, <1>4, <1>7, EntriesTyped DEF NewDbUntold
  <2>2. /\ \A use \in {"manager", "dbs"} : Reach(use)' - Reach(use) <= Balance(use)'
        /\ \A use \in {"labelName", "properties", "page"} : Balance(use)' = 0
        /\ \A use \in {"result", "stmt", "insertData", "retEntry"} : 0 <= Balance(use)'
    BY <1>5, <1>7 DEF Balance
  <2>3. ReachesCounted /\ ReachesCounted' /\ Cardinality(Pairs) \in Nat
    BY <1>1, ReachCounted, ReachCountedNext, CountsFinite, FS_CardinalityType
  <2>4. \A use \in Use \ {"dbName", "tables"} : Reach(use)' - Reach(use) <= Balance(use)'
    BY <1>4, <2>2, <2>3 DEF ReachesCounted, Use
  <2> QED BY <1>2, <1>3, <2>1, <2>4 DEF Settled, Served, NothingFreed
<1>8. /\ took' = {"result", "stmt"} \cup NewDbUses \cup
                   (IF rsp'.status = GMERR_OK THEN {"retEntry"} ELSE {})
      /\ \/ rsp'.status = GMERR_OK /\ gave' = {"result", "stmt", "retEntry"}
         \/ /\ rsp'.status = KV_MEMORY_ALLOC_FAILED
            /\ gave' = {"result", "dbName", "tables"}
  <2>1. \/ rsp'.status = GMERR_OK /\ Handled(NewDbUses \cup {"retEntry"}, {})
        \/ /\ rsp'.status = KV_MEMORY_ALLOC_FAILED
           /\ Handled(NewDbUses, {"dbName", "tables"})
    BY StatusOf DEF CreateDbCorrupts
  <2> QED BY <1>5, <2>1 DEF Handled, Uses, KV_MEMORY_ALLOC_FAILED, GMERR_OK
<1> QED BY <1>6, <1>7, <1>8 DEF KV_MEMORY_ALLOC_FAILED, GMERR_OK

\* The other requests about a database's name.
LEMMA DbRequestSettled ==
  ASSUME IInv, IInv', MemoryInv, NEW dbName \in DbName,
         \/ CreateDbEarlyFailure(dbName) \/ CreateDbCrashes(dbName)
         \/ DbsGrowthFails(dbName) \/ CreateDbCorrupts(dbName) \/ DropDb(dbName)
  PROVE  Settled
<1>1. /\ CatalogueOK /\ CatalogueOK' /\ g_srDbCtrlManager \in BOOLEAN
      /\ g_dbGenNum \in Nat
  <2>1. CatalogueOK /\ CatalogueOK' /\ g_srDbCtrlManager \in BOOLEAN
    BY IInvParts, IInvPartsNext
  <2> QED BY <2>1, CounterTyped DEF CatalogueOK
<1>2. /\ Len(dbCtrlList) \in Nat /\ Cardinality(Owners) \in Nat
      /\ Cardinality(Pairs) \in Nat
      /\ Len(dbCtrlList') \in Nat /\ Cardinality(Owners') \in Nat
      /\ Cardinality(Pairs') \in Nat
  <2>1. Len(dbCtrlList) \in Nat /\ Len(dbCtrlList') \in Nat
    BY <1>1 DEF CatalogueOK
  <2> QED BY <1>1, <2>1, CountsFinite, CountsFiniteNext, FS_CardinalityType
<1>3. ASSUME CreateDbEarlyFailure(dbName) PROVE Settled
  <2>1. PICK data \in ManagerBuffers :
          /\ GetDbCtrlManager(data)
          /\ \/ /\ Refuse(KV_MEMORY_ALLOC_FAILED)
                /\ Handled(ManagerUses(data), {})
             \/ /\ Refuse(MEMORY_ALLOC_FAILED)
                /\ Handled({"dbName"} \cup ManagerUses(data), {"dbName"})
    BY <1>3 DEF CreateDbEarlyFailure
  <2>2. UNCHANGED Catalogue /\ lostTables' = lostTables
    BY <1>3 DEF CreateDbEarlyFailure
  <2>3. dbsData' = data /\ g_srDbCtrlManager' = (data # "none")
    BY <2>1 DEF GetDbCtrlManager
  <2> DEFINE uses == ManagerUses(data)
  <2>4. /\ uses \subseteq {"manager", "dbs"}
        /\ \A use \in {"manager", "dbs"} :
             Reach(use)' - Reach(use) = IF use \in uses THEN 1 ELSE 0
    BY <1>1, <2>1, <2>3, ManagerAccount
  <2>5. rsp'.status # GMERR_OK
    BY <2>1, StatusOf DEF KV_MEMORY_ALLOC_FAILED, MEMORY_ALLOC_FAILED, GMERR_OK
  <2>6. MemoryInv'
    BY <2>2, <2>3 DEF MemoryInv, Catalogue
  <2> HIDE DEF uses
  <2>7. \/ took' = {"result", "stmt"} \cup uses /\ gave' = {"result"}
        \/ took' = {"result", "stmt", "dbName"} \cup uses /\ gave' = {"result", "dbName"}
    <3>1. \/ Handled(uses, {}) \/ Handled({"dbName"} \cup uses, {"dbName"})
      BY <2>1 DEF uses
    <3> QED BY <2>4, <2>5, <3>1 DEF Handled, Uses
  <2>8. /\ Len(dbCtrlList') = Len(dbCtrlList) + 0
        /\ Cardinality(Owners') = Cardinality(Owners) + 0
        /\ Cardinality(Pairs') = Cardinality(Pairs) + 0
    BY <1>2, <2>2, SameCounts DEF Catalogue, DbIndex, LabelIndex, Db
  <2>9. /\ \A use \in {"manager", "dbs"} : Reach(use)' - Reach(use) <= Balance(use)'
        /\ \A use \in Use : 0 <= Balance(use)'
    BY <2>4, <2>7 DEF Balance
  <2> QED BY <1>1, <2>5, <2>6, <2>8, <2>9, Accounts DEF Use
<1>4. ASSUME CreateDbCrashes(dbName) PROVE Settled
  BY <1>4, DiesSettled DEF CreateDbCrashes
<1>5. ASSUME DbsGrowthFails(dbName) PROVE Settled
  <2>1. /\ dbCtrlList' = <<>> /\ g_dbGenNum' = g_dbGenNum + 1
        /\ dbsData' = "lost" /\ DbsFull
        /\ UNCHANGED <<g_srDbCtrlManager, lostTables>>
        /\ rsp'.status = MEMORY_ALLOC_FAILED
        /\ Handled({"dbName", "tables"}, {"dbName", "tables"})
    BY <1>5, StatusOf DEF DbsGrowthFails
  <2>2. rsp'.status # GMERR_OK
    BY <2>1 DEF MEMORY_ALLOC_FAILED, GMERR_OK
  <2>3. dbsData # "none" /\ MemoryInv'
    BY <1>1, <2>1 DEF DbsFull, MemoryInv
  <2>4. /\ took' = {"result", "stmt", "dbName", "tables"}
        /\ gave' = {"result", "dbName", "tables"}
    BY <2>1, <2>2 DEF Handled, Uses
  <2>5. /\ Len(dbCtrlList') <= Len(dbCtrlList)
        /\ Cardinality(Owners') <= Cardinality(Owners)
        /\ Cardinality(Pairs') <= Cardinality(Pairs)
    <3>1. DbIndex' = {} /\ lostTables \subseteq lostTables'
      BY <2>1 DEF DbIndex
    <3> QED BY <1>1, <3>1, CountsOfLoss
  <2>6. \A use \in {"manager", "dbs"} : Reach(use)' - Reach(use) <= 0
    <3>1. ReachesCounted /\ ReachesCounted'
      BY <1>1, ReachCounted, ReachCountedNext
    <3> QED BY <2>1, <2>3, <3>1 DEF ReachesCounted
  <2>7. \A use \in Use : 0 <= Balance(use)'
    BY <2>4 DEF Balance
  <2>8. \A use \in {"manager", "dbs"} : Reach(use)' - Reach(use) <= Balance(use)'
    <3>1. \A use \in {"manager", "dbs"} : Balance(use)' = 0
      BY <2>4 DEF Balance
    <3> QED BY <2>6, <3>1
  <2> QED BY <1>1, <2>2, <2>3, <2>5, <2>7, <2>8, LossSettled
<1>6. ASSUME CreateDbCorrupts(dbName) PROVE Settled
  BY <1>6, CorruptDbSettled
<1>7. ASSUME DropDb(dbName) PROVE Settled
  <2>1. PICK data \in ManagerBuffers :
          /\ IF data = "none"
               THEN NothingDone(NAME_NOT_EXISTED)
               ELSE /\ DMSrDropDb(dbName)
                    /\ dbsData' = data
                    /\ UNCHANGED <<lostTables, corrupt>>
          /\ Handled(ManagerUses(data), {})
    BY <1>7 DEF DropDb
  <2>2. CASE data = "none"
    <3>1. NothingDone(NAME_NOT_EXISTED) /\ Handled(ManagerUses("none"), {})
      BY <2>1, <2>2
    <3>2. ManagerUses("none") = {}
      BY DEF ManagerUses
    <3>3. Handled({}, {})
      BY <3>1, <3>2
    <3>4. Even
      BY <3>3, HandledEven
    <3>5. UNCHANGED <<g_srDbCtrlManager, Catalogue, memory>>
      BY <3>1 DEF NothingDone
    <3> QED BY <3>4, <3>5, UnchangedSettled
  <2>3. CASE data # "none"
    <3> DEFINE uses == ManagerUses(data)
    <3>1. /\ DMSrDropDb(dbName) /\ dbsData' = data /\ lostTables' = lostTables
          /\ Handled(uses, {}) /\ g_srDbCtrlManager' = TRUE /\ g_dbGenNum' = g_dbGenNum
      BY <2>1, <2>3 DEF DMSrDropDb
    <3>2. /\ uses \subseteq {"manager", "dbs"}
          /\ \A use \in {"manager", "dbs"} :
               Reach(use)' - Reach(use) = IF use \in uses THEN 1 ELSE 0
      BY <1>1, <2>1, <3>1, ManagerAccount
    <3> HIDE DEF uses
    <3>3. MemoryInv'
      BY <2>3, <3>1 DEF MemoryInv
    <3>4. /\ \A use \in {"manager", "dbs"} : Reach(use)' - Reach(use) <= Balance(use)'
          /\ \A use \in Use : 0 <= Balance(use)'
      BY <3>1, <3>2 DEF Handled, Uses, Balance
    <3>5. CASE ~ IsDbNameExist(dbName)
      <4>1. UNCHANGED dbCtrlList /\ rsp'.status = NAME_NOT_EXISTED
        BY <3>1, <3>5, StatusOf DEF DMSrDropDb
      <4>2. rsp'.status # GMERR_OK
        BY <4>1 DEF NAME_NOT_EXISTED, GMERR_OK
      <4>3. /\ Len(dbCtrlList') <= Len(dbCtrlList)
            /\ Cardinality(Owners') <= Cardinality(Owners)
            /\ Cardinality(Pairs') <= Cardinality(Pairs)
        BY <1>2, <3>1, <4>1, SameCounts DEF DbIndex, LabelIndex, Db
      <4> QED BY <1>1, <1>2, <3>3, <3>4, <4>2, <4>3, LossSettled
    <3>6. CASE IsDbNameExist(dbName)
      <4>1. PICK d \in DbIndex : d = DmGetDbCtrlByName(dbName)
        BY <1>1, <3>6, DbByNameFound, EntriesTyped DEF IsDbNameExist
      <4>2. dbCtrlList' = RemoveItem(dbCtrlList, d)
        BY <3>1, <3>6, <4>1 DEF DMSrDropDb
      <4>3. /\ Len(dbCtrlList') = Len(dbCtrlList) - 1
            /\ Cardinality(Owners') <= Cardinality(Owners)
            /\ Cardinality(Pairs') <= Cardinality(Pairs)
        BY <1>1, <3>1, <4>2, CountsOfDrop
      <4>4. /\ Len(dbCtrlList') <= Len(dbCtrlList)
            /\ ~ (Len(dbCtrlList') >= Len(dbCtrlList))
        BY <1>2, <4>3
      <4> QED BY <1>1, <1>2, <3>3, <3>4, <4>3, <4>4, LossSettled
    <3> QED BY <3>5, <3>6
  <2> QED BY <2>2, <2>3
<1> QED BY <1>3, <1>4, <1>5, <1>6, <1>7

LEMMA IntervalsEqual ==
  ASSUME NEW m \in Nat, NEW n \in Nat, 1 .. m = 1 .. n
  PROVE  m = n
<1>1. CASE m < n
  <2>1. n \in 1 .. n /\ n \notin 1 .. m
    BY <1>1
  <2> QED BY <2>1
<1>2. CASE n < m
  <2>1. m \in 1 .. m /\ m \notin 1 .. n
    BY <1>2
  <2> QED BY <2>1
<1> QED BY <1>1, <1>2

\* What is added to the tables of a database, or lost with its vector.
LEMMA NewTableSettled ==
  ASSUME IInv, IInv', MemoryInv, NEW dbId \in DbId, NEW json \in Json,
         CreateTableStatus(dbId, json) = GMERR_OK, AppendLabel(dbId, json),
         UNCHANGED <<g_srDbCtrlManager, memory>>,
         \/ rsp'.status = GMERR_OK /\ Handled(TableUses \cup {"retEntry"}, {})
         \/ rsp'.status # GMERR_OK /\ Handled(TableUses, {})
  PROVE  Settled
<1>1. CatalogueOK /\ CatalogueOK' /\ g_dbGenNum \in Nat
  <2>1. CatalogueOK /\ CatalogueOK'
    BY IInvParts, IInvPartsNext
  <2> QED BY <2>1, CounterTyped DEF CatalogueOK
<1>2. PICK properties \in Properties(ParsedFields(json)) :
        dbCtrlList' =
          [dbCtrlList EXCEPT ![DmGetDbCtrlByDbId(dbId)].labelCtrlList =
             Append(@, NewLabel(dbId, json, properties))]
  BY DEF AppendLabel
<1>3. PICK d \in DbIndex : d = DmGetDbCtrlByDbId(dbId)
  BY <1>1, NewLabelTyped
<1>4. PICK new \in SrLabelT : new = NewLabel(dbId, json, properties)
  BY <1>1, NewLabelTyped
<1>5. dbsData' = dbsData /\ lostTables' = lostTables /\ g_dbGenNum' = g_dbGenNum + 1
  BY DEF memory, AppendLabel
<1>6. /\ Len(dbCtrlList') = Len(dbCtrlList)
      /\ Cardinality(Owners') = Cardinality(Owners)
      /\ Cardinality(Pairs') = Cardinality(Pairs) + 1
  <2>1. dbCtrlList' = [dbCtrlList EXCEPT ![d].labelCtrlList = Append(@, new)]
    BY <1>2, <1>3, <1>4
  <2> QED BY <1>1, <1>5, <2>1, CountsOfNewTable
<1>7. /\ Len(dbCtrlList') = Len(dbCtrlList) + 0
      /\ Cardinality(Owners') = Cardinality(Owners) + 0
  <2>1. Len(dbCtrlList) \in Nat /\ Cardinality(Owners) \in Nat
    BY <1>1, EntriesTyped, CountsFinite, FS_CardinalityType
  <2> QED BY <1>6, <2>1
<1>8. MemoryInv'
  BY <1>1, <1>5 DEF MemoryInv
<1>9. \A use \in {"manager", "dbs"} : Reach(use)' - Reach(use) = 0
  <2>1. ReachesCounted /\ ReachesCounted'
    BY <1>1, ReachCounted, ReachCountedNext
  <2> QED BY <1>5, <2>1 DEF ReachesCounted
<1>10. /\ \A use \in {"manager", "dbs", "dbName", "tables", "insertData", "result",
                      "retEntry"} : Balance(use)' = 0
       /\ \A use \in {"labelName", "properties", "page"} : Balance(use)' = 1
       /\ 0 <= Balance("stmt")' /\ (rsp'.status = GMERR_OK => Balance("stmt")' = 0)
  <2>1. \/ /\ rsp'.status = GMERR_OK
           /\ took' = {"result", "stmt", "labelName", "properties", "page", "retEntry"}
           /\ gave' = {"result", "stmt", "retEntry"}
        \/ /\ rsp'.status # GMERR_OK
           /\ took' = {"result", "stmt", "labelName", "properties", "page"}
           /\ gave' = {"result"}
    BY DEF Handled, Uses, TableUses
  <2> QED BY <2>1 DEF Balance
<1> QED BY <1>1, <1>6, <1>7, <1>8, <1>9, <1>10, Accounts

LEMMA TablesLostSettled ==
  ASSUME IInv, IInv', MemoryInv, NEW dbId \in DbId, NEW json \in Json,
         TablesGrowthFails(dbId, json)
  PROVE  Settled
<1>1. CatalogueOK /\ CatalogueOK' /\ g_dbGenNum \in Nat
  <2>1. CatalogueOK /\ CatalogueOK'
    BY IInvParts, IInvPartsNext
  <2> QED BY <2>1, CounterTyped DEF CatalogueOK
<1>2. PICK d \in DbIndex : d = DmGetDbCtrlByDbId(dbId) /\ Db(d).dbId = dbId
  BY <1>1, NewTableFound DEF TablesGrowthFails
<1>3. /\ dbCtrlList' = [dbCtrlList EXCEPT ![d].labelCtrlList = <<>>]
      /\ g_dbGenNum' = g_dbGenNum + 1 /\ lostTables' = lostTables \cup {dbId}
      /\ UNCHANGED <<g_srDbCtrlManager, dbsData>>
      /\ rsp'.status = MEMORY_ALLOC_FAILED /\ Handled(TableUses, {})
  BY <1>2, StatusOf DEF TablesGrowthFails
<1>4. rsp'.status # GMERR_OK
  BY <1>3 DEF MEMORY_ALLOC_FAILED, GMERR_OK
<1>5. MemoryInv'
  <2>1. dbId \in Nat /\ dbId < g_dbGenNum
    <3>1. dbId < g_dbGenNum
      BY <1>1, <1>2 DEF CatalogueOK, IdsIdentify
    <3> QED BY <3>1, CounterTyped
  <2> QED BY <1>1, <1>3, <2>1 DEF MemoryInv
<1>6. /\ OnlyTablesOf(d) /\ Db(d)'.labelCtrlList = <<>>
  BY <1>1, <1>3, TablesSet DEF SetTables
<1>7. /\ DbIndex' = DbIndex
      /\ \A i \in DbIndex : /\ LabelIndex(i)' \subseteq LabelIndex(i)
                            /\ Db(i)'.dbId = Db(i).dbId
  <2>1. /\ dbCtrlList \in Seq(SrDbCtrlT) /\ Db(d) \in SrDbCtrlT
        /\ d \in 1 .. Len(dbCtrlList)
    BY <1>1, EntriesTyped DEF CatalogueOK, DbIndex
  <2>2. DbIndex' = DbIndex
    BY <1>6 DEF OnlyTablesOf, DbIndex
  <2>3. LabelIndex(d)' = {}
    BY <1>6 DEF LabelIndex
  <2>4. \A i \in DbIndex : i # d => Db(i)' = Db(i)
    BY <1>3, <2>1 DEF Db, DbIndex
  <2>5. Db(d)'.dbId = Db(d).dbId
    <3>1. dbCtrlList'[d] = [Db(d) EXCEPT !.labelCtrlList = <<>>]
      BY <1>3, <2>1 DEF Db
    <3> QED BY <2>1, <3>1 DEF Db, SrDbCtrlT
  <2>6. \A i \in DbIndex : i # d => LabelIndex(i)' = LabelIndex(i)
    BY <2>4 DEF LabelIndex
  <2> QED BY <2>2, <2>3, <2>4, <2>5, <2>6
<1>8. /\ Len(dbCtrlList') <= Len(dbCtrlList)
      /\ Cardinality(Owners') <= Cardinality(Owners)
      /\ Cardinality(Pairs') <= Cardinality(Pairs)
  BY <1>1, <1>3, <1>7, CountsOfLoss
<1>9. \A use \in {"manager", "dbs"} : Reach(use)' - Reach(use) = 0
  <2>1. ReachesCounted /\ ReachesCounted'
    BY <1>1, ReachCounted, ReachCountedNext
  <2> QED BY <1>3, <2>1 DEF ReachesCounted
<1>10. \A use \in Use : 0 <= Balance(use)'
  BY <1>3, <1>4 DEF Handled, Uses, TableUses, Balance
<1>11. \A use \in {"manager", "dbs"} : Reach(use)' - Reach(use) <= Balance(use)'
  BY <1>9, <1>10 DEF Use
<1> QED BY <1>1, <1>4, <1>5, <1>8, <1>10, <1>11, LossSettled

\* A table that is made in a new buffer, in place of the lost one.
LEMMA CorruptTableSettled ==
  ASSUME IInv, IInv', MemoryInv, NEW dbId \in DbId, NEW json \in Json,
         CreateTableCorrupts(dbId, json)
  PROVE  Settled
<1>1. CatalogueOK /\ CatalogueOK' /\ g_dbGenNum \in Nat
  <2>1. CatalogueOK /\ CatalogueOK'
    BY IInvParts, IInvPartsNext
  <2> QED BY <2>1, CounterTyped DEF CatalogueOK
<1>2. /\ CreateTableStatus(dbId, json) = GMERR_OK /\ AppendLabel(dbId, json)
      /\ dbId \in lostTables /\ lostTables' = lostTables \ {dbId}
      /\ UNCHANGED <<g_srDbCtrlManager, dbsData>>
      /\ \/ /\ rsp'.status = GMERR_OK
            /\ Handled(TableUses \cup {"tables", "retEntry"}, {})
         \/ /\ rsp'.status = KV_MEMORY_ALLOC_FAILED
            /\ Handled(TableUses \cup {"tables"}, {})
  BY StatusOf DEF CreateTableCorrupts, IsNewTable
<1>3. PICK d \in DbIndex : d = DmGetDbCtrlByDbId(dbId) /\ Db(d).dbId = dbId
  BY <1>1, <1>2, NewTableFound DEF CreateTableCorrupts
<1>4. PICK properties \in Properties(ParsedFields(json)) :
        dbCtrlList' =
          [dbCtrlList EXCEPT ![DmGetDbCtrlByDbId(dbId)].labelCtrlList =
             Append(@, NewLabel(dbId, json, properties))]
  BY <1>2 DEF AppendLabel
<1>5. PICK new \in SrLabelT : new = NewLabel(dbId, json, properties)
  BY <1>1, <1>2, NewLabelTyped
<1>6. /\ Len(dbCtrlList') = Len(dbCtrlList)
      /\ Cardinality(Owners') = Cardinality(Owners) + 1
      /\ Cardinality(Pairs') = Cardinality(Pairs) + 1
  <2>1. dbCtrlList' = [dbCtrlList EXCEPT ![d].labelCtrlList = Append(@, new)]
    BY <1>3, <1>4, <1>5
  <2> QED BY <1>1, <1>2, <1>3, <2>1, CountsOfNewTable
<1>7. Len(dbCtrlList') = Len(dbCtrlList) + 0
  <2>1. Len(dbCtrlList) \in Nat
    BY <1>1, EntriesTyped
  <2> QED BY <1>6, <2>1
<1>8. MemoryInv'
  <2>1. g_dbGenNum' = g_dbGenNum + 1
    BY <1>2 DEF AppendLabel
  <2> QED BY <1>1, <1>2, <2>1 DEF MemoryInv
<1>9. \A use \in {"manager", "dbs"} : Reach(use)' - Reach(use) = 0
  <2>1. ReachesCounted /\ ReachesCounted'
    BY <1>1, ReachCounted, ReachCountedNext
  <2> QED BY <1>2, <2>1 DEF ReachesCounted
<1>10. /\ \A use \in {"manager", "dbs", "dbName", "insertData", "result", "retEntry"} :
            Balance(use)' = 0
       /\ \A use \in {"tables", "labelName", "properties", "page"} : Balance(use)' = 1
       /\ 0 <= Balance("stmt")' /\ (rsp'.status = GMERR_OK => Balance("stmt")' = 0)
  <2>1. \/ /\ rsp'.status = GMERR_OK
           /\ took' = {"result", "stmt", "labelName", "properties", "page", "tables",
                       "retEntry"}
           /\ gave' = {"result", "stmt", "retEntry"}
        \/ /\ rsp'.status # GMERR_OK
           /\ took' = {"result", "stmt", "labelName", "properties", "page", "tables"}
           /\ gave' = {"result"}
    BY <1>2 DEF Handled, Uses, TableUses, KV_MEMORY_ALLOC_FAILED, GMERR_OK
  <2> QED BY <2>1 DEF Balance
<1> QED BY <1>1, <1>6, <1>7, <1>8, <1>9, <1>10, Accounts

LEMMA TableRequestSettled ==
  ASSUME IInv, IInv', MemoryInv, NEW dbId \in DbId, NEW json \in Json,
         \/ CreateTable(dbId, json)
         \/ CreateTableEarlyFailure(dbId, json) \/ NoPage(dbId, json)
         \/ TablesGrowthFails(dbId, json) \/ CreateTableCorrupts(dbId, json)
         \/ NoTableAnswer(dbId, json)
  PROVE  Settled
<1>1. ASSUME CreateTable(dbId, json) PROVE Settled
  <2>1. DMSrCreateTable(dbId, json) /\ UNCHANGED memory
    BY <1>1 DEF CreateTable
  <2>2. CASE CreateTableStatus(dbId, json) # GMERR_OK
    <3>1. UNCHANGED <<g_srDbCtrlManager, Catalogue, memory>>
      BY <2>1, <2>2 DEF DMSrCreateTable
    <3>2. Handled({}, {})
      BY <1>1, <2>2 DEF CreateTable
    <3> QED BY <3>1, <3>2, HandledEven, UnchangedSettled
  <2>3. CASE CreateTableStatus(dbId, json) = GMERR_OK
    <3>1. /\ AppendLabel(dbId, json) /\ rsp'.status = GMERR_OK
          /\ UNCHANGED <<g_srDbCtrlManager, memory>>
      BY <2>1, <2>3, StatusOf DEF DMSrCreateTable
    <3>2. Handled(TableUses \cup {"retEntry"}, {})
      BY <1>1, <2>3 DEF CreateTable
    <3> QED BY <2>3, <3>1, <3>2, NewTableSettled
  <2> QED BY <2>2, <2>3
<1>2. ASSUME CreateTableEarlyFailure(dbId, json) PROVE Settled
  <2>1. /\ UNCHANGED <<g_srDbCtrlManager, Catalogue, memory>>
        /\ rsp'.status = KV_MEMORY_ALLOC_FAILED
    BY <1>2, StatusOf DEF CreateTableEarlyFailure
  <2>2. rsp'.status # GMERR_OK
    BY <2>1 DEF KV_MEMORY_ALLOC_FAILED, GMERR_OK
  <2>3. Handled({}, {}) \/ Handled({"labelName"}, {})
    BY <1>2 DEF CreateTableEarlyFailure
  <2>4. Even
    BY <2>2, <2>3 DEF Handled, Uses, Even
  <2> QED BY <2>1, <2>4, UnchangedSettled
<1>3. ASSUME NoPage(dbId, json) PROVE Settled
  BY <1>3, DiesSettled DEF NoPage
<1>4. ASSUME CreateTableCorrupts(dbId, json) PROVE Settled
  BY <1>4, CorruptTableSettled
<1>5. ASSUME NoTableAnswer(dbId, json) PROVE Settled
  <2>1. /\ CreateTableStatus(dbId, json) = GMERR_OK /\ AppendLabel(dbId, json)
        /\ UNCHANGED <<g_srDbCtrlManager, memory>>
        /\ rsp'.status = KV_MEMORY_ALLOC_FAILED /\ Handled(TableUses, {})
    BY <1>5, StatusOf DEF NoTableAnswer, IsNewTable
  <2>2. rsp'.status # GMERR_OK
    BY <2>1 DEF KV_MEMORY_ALLOC_FAILED, GMERR_OK
  <2> QED BY <2>1, <2>2, NewTableSettled
<1> QED BY <1>1, <1>2, <1>3, <1>4, <1>5, TablesLostSettled

\* A row more changes neither databases nor tables.
LEMMA InsertSettled ==
  ASSUME IInv, IInv', MemoryInv, NEW dbId \in DbId, NEW labelId \in TableId,
         InsertData(dbId, labelId)
  PROVE  Settled
<1> DEFINE d == DmGetDbCtrlByDbId(dbId)
           l == DmGetLabelCtrlByLabelId(d, labelId)
           heap == dbCtrlList[d].labelCtrlList[l].heapRow
<1>1. CatalogueOK /\ CatalogueOK'
  BY IInvParts, IInvPartsNext
<1>2. CASE AbortServer
  <2>1. server' = "aborted" /\ UNCHANGED <<g_srDbCtrlManager, g_dbGenNum, memory>>
    BY <1>2 DEF AbortServer, InsertData
  <2> QED BY <2>1 DEF memory, MemoryInv, Settled, Served, running
<1>3. CASE server' = "running"
  <2>1. Handled({"insertData"}, {}) /\ UNCHANGED memory
    BY <1>3 DEF InsertData
  <2>2. Even
    BY <2>1, HandledEven
  <2>3. CASE LookupFails(dbId, labelId)
    <3>1. UNCHANGED <<g_srDbCtrlManager, Catalogue, memory>>
      BY <2>1, <2>3 DEF LookupFails
    <3> QED BY <2>2, <3>1, UnchangedSettled
  <2>4. CASE DMSrInsertData(dbId, labelId) /\ ~ AbortServer
    <3>1. d \in DbIndex /\ l \in LabelIndex(d) /\ Label(d, l) \in SrLabelT
      BY <1>1, <2>4, LookupFinds DEF DMSrInsertData
    <3>2. /\ HasRoom(heap) /\ UNCHANGED <<g_srDbCtrlManager, g_dbGenNum>>
          /\ \E rowBuf \in Row(heap.rowSize) :
               dbCtrlList' = [dbCtrlList EXCEPT ![d].labelCtrlList[l].heapRow =
                                SEFixedHeapInsertRow(@, rowBuf)]
      BY <2>4 DEF DMSrInsertData
    <3>3. heap = Label(d, l).heapRow /\ heap \in FixedHeapT /\ HeapConsistent(heap)
      BY <1>1, <3>1 DEF Label, SrLabelT, CatalogueOK, PagesConsistent
    <3>4. PICK rowBuf \in Row(heap.rowSize) :
            dbCtrlList' = [dbCtrlList EXCEPT ![d].labelCtrlList[l].heapRow =
                             SEFixedHeapInsertRow(@, rowBuf)]
      BY <3>2
    <3>5. PICK new : new = SEFixedHeapInsertRow(heap, rowBuf)
      OBVIOUS
    <3>6. ReplacePage(d, l, new)
      BY <3>4, <3>5 DEF ReplacePage
    <3>7. new \in FixedHeapT
      BY <3>2, <3>3, <3>5, InsertConsistent
    <3> HIDE DEF d, l, heap
    <3>8. /\ DbIndex' = DbIndex
          /\ \A i \in DbIndex : Db(i)'.dbId = Db(i).dbId /\ LabelIndex(i)' = LabelIndex(i)
      BY <1>1, <3>1, <3>6, <3>7, PageReplaced
    <3>9. Len(dbCtrlList') = Len(dbCtrlList)
      <4>1. 1 .. Len(dbCtrlList') = 1 .. Len(dbCtrlList)
        BY <3>8 DEF DbIndex
      <4>2. Len(dbCtrlList) \in Nat /\ Len(dbCtrlList') \in Nat
        BY <1>1 DEF CatalogueOK
      <4> QED BY <4>1, <4>2, IntervalsEqual
    <3>10. Owners' = Owners /\ Pairs' = Pairs
      BY <2>1, <3>8, SameCounts DEF memory
    <3> QED BY <1>1, <2>1, <2>2, <3>2, <3>9, <3>10, EvenSettled
  <2> QED BY <1>2, <2>3, <2>4 DEF InsertData
<1>4. AbortServer \/ server' = "running"
  BY DEF InsertData, LookupFails, DMSrInsertData, ByDbId
<1> QED BY <1>2, <1>3, <1>4

LEMMA RequestSettled ==
  ASSUME IInv, IInv', MemoryInv, RTProcessMain
  PROVE  Settled
<1>1. ASSUME NEW status, NothingDone(status), Even PROVE Settled
  <2>1. UNCHANGED <<g_srDbCtrlManager, Catalogue, memory>>
    BY <1>1 DEF NothingDone
  <2> QED BY <1>1, <2>1, UnchangedSettled
<1>2. ASSUME UnknownOpCode \/ NoResultBuf \/ NoStmt \/ OtherOpCode \/ RtHandleAddTest
      PROVE  Settled
  <2>1. PICK status : NothingDone(status)
    BY <1>2 DEF UnknownOpCode, NoResultBuf, NoStmt, OtherOpCode, RtHandleAddTest
  <2>2. Even
    BY <1>2 DEF UnknownOpCode, NoResultBuf, NoStmt, OtherOpCode, RtHandleAddTest,
                Uses, Even
  <2> QED BY <1>1, <2>1, <2>2
<1>3. ASSUME AddTestTraps \/ NoManagerYet \/ NoInsertData PROVE Settled
  BY <1>3, DiesSettled DEF AddTestTraps, NoManagerYet, NoInsertData
<1>4. ASSUME RefusedName PROVE Settled
  <2>1. UNCHANGED <<g_srDbCtrlManager, Catalogue, memory>> /\ Handled({}, {})
    BY <1>4 DEF RefusedName, BadDbArgs
  <2> QED BY <2>1, HandledEven, UnchangedSettled
<1>5. ASSUME WithoutHandler PROVE Settled
  <2>1. /\ UNCHANGED <<g_srDbCtrlManager, Catalogue, memory>>
        /\ rsp'.status = INDETERMINATE
    BY <1>5, StatusOf DEF WithoutHandler, NoHandler
  <2>2. rsp'.status # GMERR_OK
    BY <2>1 DEF INDETERMINATE, GMERR_OK
  <2>3. Even
    BY <1>5, <2>2 DEF WithoutHandler, Uses, Even
  <2> QED BY <2>1, <2>3, UnchangedSettled
<1>6. ASSUME NEW dbId \in DbId, NEW labelId \in TableId, QueryTable(dbId, labelId)
      PROVE  Settled
  <2>1. UNCHANGED <<g_srDbCtrlManager, Catalogue, memory>>
    BY <1>6 DEF QueryTable, LookupFails, DMSrQueryTable
  <2>2. Handled({}, {}) \/ Handled({"retEntry"}, {})
    BY <1>6 DEF QueryTable
  <2> QED BY <2>1, <2>2, HandledEven, UnchangedSettled
<1>7. ASSUME NEW dbId \in DbId, GetDbDesc(dbId) PROVE Settled
  <2>1. CASE Dies
    BY <2>1, DiesSettled
  <2>2. CASE DMSrGetDbDesc(dbId) /\ UNCHANGED memory /\ AbortServer
    <3>1. Dies
      <4>1. server' # "running"
        BY <2>2 DEF AbortServer
      <4> QED BY <1>7, <2>1, <2>2, <4>1 DEF GetDbDesc, Dies
    <3> QED BY <3>1, DiesSettled
  <2>3. CASE DMSrGetDbDesc(dbId) /\ UNCHANGED memory /\ ~ AbortServer
    <3>1. UNCHANGED <<g_srDbCtrlManager, Catalogue, memory>> /\ server' = "running"
      BY <2>3 DEF DMSrGetDbDesc, ByDbId
    <3>2. CASE Handled({}, {})
      BY <3>1, <3>2, HandledEven, UnchangedSettled
    <3> QED BY <1>7, <2>1, <3>1, <3>2 DEF GetDbDesc
  <2> QED BY <1>7, <2>1, <2>2, <2>3 DEF GetDbDesc
<1> QED BY <1>2, <1>3, <1>4, <1>5, <1>6, <1>7, CreateDbSettled, DbRequestSettled,
           TableRequestSettled, InsertSettled DEF RTProcessMain

\* Only a server that runs has requests.
LEMMA RequestRuns ==
  ASSUME RTProcessMain
  PROVE  server = "running"
BY DEF RTProcessMain, UnknownOpCode, NoResultBuf, NoStmt, OtherOpCode, RtHandleAddTest,
       AddTestTraps, RefusedName, NoManagerYet, NoInsertData, WithoutHandler, NothingDone,
       BadDbArgs, NoHandler, CreateDb, DMSrCreateDb, CreateDbEarlyFailure,
       CreateDbCrashes, DbsGrowthFails, CreateDbCorrupts, DropDb, DMSrDropDb, CreateTable,
       DMSrCreateTable, CreateTableEarlyFailure, NoPage, TablesGrowthFails,
       CreateTableCorrupts, NoTableAnswer, IsNewTable, ByDbId, InsertData, QueryTable,
       LookupFails, DMSrInsertData, DMSrQueryTable, GetDbDesc, DMSrGetDbDesc

\* What a start that fails leaves behind.
PoolOnly ==
  ~ running /\ ~ running' => took' \ gave' \subseteq {StartUse[1], StartUse[2]}

LEMMA RtStepSettled ==
  ASSUME IInv, IInv', MemoryInv, RtNext
  PROVE  Settled /\ PoolOnly
<1>1. ASSUME RTProcessMain PROVE Settled /\ PoolOnly
  BY <1>1, RequestSettled, RequestRuns DEF PoolOnly, running
<1>2. ASSUME Stop PROVE Settled /\ PoolOnly
  <2>1. /\ server = "running" /\ server' = "stopped"
        /\ UNCHANGED <<g_srDbCtrlManager, g_dbGenNum, dbsData, lostTables>>
    BY <1>2 DEF Stop, KVCSrvStop, memory
  <2> QED BY <2>1 DEF Settled, PoolOnly, MemoryInv, Served, running
<1>3. ASSUME Start PROVE Settled /\ PoolOnly
  <2>1. /\ server # "running" /\ server' = "running"
        /\ g_srDbCtrlManager' = FALSE /\ dbsData' = "none" /\ lostTables' = {}
    BY <1>3 DEF Start, KVCSrvStart
  <2> QED BY <2>1 DEF Settled, PoolOnly, MemoryInv, Served, running
<1>4. ASSUME StartFails PROVE Settled /\ PoolOnly
  <2>1. /\ server # "running"
        /\ UNCHANGED <<g_srDbCtrlManager, g_dbGenNum, dbsData, lostTables>>
    BY <1>4 DEF StartFails, vars, memory
  <2>2. Settled
    BY <2>1 DEF Settled, MemoryInv, Served, running
  <2>3. PICK k \in DOMAIN StartUse :
          Uses({StartUse[i] : i \in 1 .. k - 1}, {StartUse[i] : i \in 3 .. k - 1})
    BY <1>4 DEF StartFails
  <2>4. k \in 1 .. 6
    BY DEF StartUse
  <2>5. ASSUME NEW block \in took' \ gave'
        PROVE  block \in {StartUse[1], StartUse[2]}
    <3>1. PICK i \in 1 .. k - 1 : block = StartUse[i]
      BY <2>3, <2>5 DEF Uses
    <3>2. i \notin 3 .. k - 1
      BY <2>3, <2>5, <3>1 DEF Uses
    <3>3. i \in {1, 2}
      BY <2>4, <3>1, <3>2
    <3> QED BY <3>1, <3>3
  <2> QED BY <2>2, <2>5 DEF PoolOnly
<1> QED BY <1>1, <1>2, <1>3, <1>4 DEF RtNext

\* The databases' buffer and the lost vectors are what the catalogue's counters say.
LEMMA RtInvariant == RtSpec => [](IInv /\ MemoryInv)
<1>1. RtInit => MemoryInv
  BY DEF RtInit, Init, MemoryInv
<1>2. IInv /\ IInv' /\ MemoryInv /\ [RtNext]_rtVars => MemoryInv'
  <2>1. ASSUME UNCHANGED rtVars, MemoryInv PROVE MemoryInv'
    BY <2>1 DEF rtVars, vars, memory, MemoryInv
  <2> QED BY <2>1, RtStepSettled DEF Settled
<1> QED BY <1>1, <1>2, FailuresKeepCatalogue, PTL DEF RtSpec

\* A request that succeeds leaves no block behind but those the catalogue refers to
\* from then on, each use by itself; and a start that fails once the pool is there
\* leaves the two blocks of the pool: for all sizes of the catalogue.
THEOREM SuccessLeavesNothing == RtSpec => NothingLeftBehind
<1> DEFINE InStep == (Served => NothingLeft) /\ PoolOnly
<1>1. IInv /\ IInv' /\ MemoryInv /\ [RtNext]_rtVars => [InStep]_rtVars
  BY RtStepSettled DEF Settled
<1>2. RtSpec => [][InStep]_rtVars
  BY <1>1, RtInvariant, PTL DEF RtSpec
<1>3. [InStep]_rtVars =>
        [/\ Served /\ rsp'.status = GMERR_OK /\ Len(dbCtrlList)' >= Len(dbCtrlList) =>
              \A use \in Use : Balance(use)' = Reach(use)' - Reach(use)
         /\ ~ running /\ ~ running' =>
              took' \ gave' \subseteq {StartUse[1], StartUse[2]}]_rtVars
  BY DEF NothingLeft, PoolOnly
<1> QED BY <1>2, <1>3, PTL DEF NothingLeftBehind

\* Nothing is given back that the catalogue goes on referring to, and nothing new
\* in it is without a block of its own, whichever allocation fails, but for the
\* answer of a new database: without it the name and the vector of tables of an
\* entry that stays are freed, and still nothing else (DMSrCreateDb).
THEOREM ReachableNeverFreed == RtSpec => NothingReachableFreed
<1>1. IInv /\ IInv' /\ MemoryInv /\ [RtNext]_rtVars =>
        [running /\ running' => NothingFreed]_rtVars
  BY RtStepSettled DEF Settled
<1>2. RtSpec => [][running /\ running' => NothingFreed]_rtVars
  BY <1>1, RtInvariant, PTL DEF RtSpec
<1> QED BY <1>2 DEF NothingReachableFreed, NothingFreed

=============================================================================
