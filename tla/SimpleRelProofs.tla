-------------------------- MODULE SimpleRelProofs --------------------------
(***************************************************************************)
(* Proofs about the simple-relation data model, for all sets of names and  *)
(* schemas, every page size, every width of the sizes, and any number of   *)
(* databases, tables and rows.                                             *)
(*                                                                         *)
(* The first part is about searches, schemas and pages.  The second shows  *)
(* that every request keeps the catalogue well formed (IInv).  The third   *)
(* looks at a vector as what it stands for, a function from ids, and takes *)
(* one handler at a time to show that the model implements the store of    *)
(* RelStore.                                                               *)
(***************************************************************************)
EXTENDS SimpleRel, SequenceTheorems, WellFoundedInduction, TLAPS

-----------------------------------------------------------------------------
(* Searches.                                                               *)

\* A set of natural numbers that is not empty has a least member, so that the
\* choice in FirstIndex is defined whenever a search has a hit.
LEMMA LeastExists ==
  ASSUME NEW S, S \subseteq Nat, S # {}
  PROVE  \E i \in S : \A j \in S : i <= j
<1>1. PICK i \in S : \A j \in S : <<j, i>> \notin OpToRel(<, Nat)
  BY NatLessThanWellFounded, WFMin
<1>2. \A j \in S : ~ (j < i)
  BY <1>1 DEF OpToRel
<1>3. \A j \in S : i <= j
  <2> TAKE j \in S
  <2>1. i \in Nat /\ j \in Nat /\ ~ (j < i)
    BY <1>2
  <2> QED BY <2>1
<1> QED BY <1>3

LEMMA LeastChosen ==
  ASSUME NEW n \in Nat, NEW S, S \subseteq 1 .. n, S # {}
  PROVE  (CHOOSE i \in S : \A j \in S : i <= j) \in S
<1>1. \E i \in S : \A j \in S : i <= j
  BY LeastExists, S \subseteq Nat
<1> QED BY <1>1

LEMMA ItemReplaced ==
  ASSUME NEW S, NEW list \in Seq(S), NEW i \in 1 .. Len(list), NEW item \in S,
         NEW new, new = [list EXCEPT ![i] = item]
  PROVE  /\ new \in Seq(S)
         /\ Len(new) = Len(list)
         /\ \A j \in 1 .. Len(list) : new[j] = IF j = i THEN item ELSE list[j]
BY ExceptSeq

\* A search by id finds a database with that id, or there is none.
LEMMA DbByDbIdFound ==
  ASSUME NEW dbId, Len(dbCtrlList) \in Nat
  PROVE  LET d == DmGetDbCtrlByDbId(dbId)
         IN  \/ d \in DbIndex /\ Db(d).dbId = dbId
             \/ d = 0 /\ \A i \in DbIndex : Db(i).dbId # dbId
<1> DEFINE hits == {i \in 1 .. Len(dbCtrlList) : dbCtrlList[i].dbId = dbId}
<1>1. CASE hits = {}
  BY <1>1 DEF DmGetDbCtrlByDbId, FirstIndex, DbIndex, Db
<1>2. CASE hits # {}
  <2>1. (CHOOSE i \in hits : \A j \in hits : i <= j) \in hits
    BY <1>2, LeastChosen, hits \subseteq 1 .. Len(dbCtrlList)
  <2> QED BY <1>2, <2>1 DEF DmGetDbCtrlByDbId, FirstIndex, DbIndex, Db
<1> QED BY <1>1, <1>2

\* So does a search by name.
LEMMA DbByNameFound ==
  ASSUME NEW dbName, Len(dbCtrlList) \in Nat
  PROVE  LET d == DmGetDbCtrlByName(dbName)
         IN  \/ d \in DbIndex /\ Db(d).dbName = dbName
             \/ d = 0 /\ \A i \in DbIndex : Db(i).dbName # dbName
<1> DEFINE hits == {i \in 1 .. Len(dbCtrlList) : dbCtrlList[i].dbName = dbName}
<1>1. CASE hits = {}
  BY <1>1 DEF DmGetDbCtrlByName, FirstIndex, DbIndex, Db
<1>2. CASE hits # {}
  <2>1. (CHOOSE i \in hits : \A j \in hits : i <= j) \in hits
    BY <1>2, LeastChosen, hits \subseteq 1 .. Len(dbCtrlList)
  <2> QED BY <1>2, <2>1 DEF DmGetDbCtrlByName, FirstIndex, DbIndex, Db
<1> QED BY <1>1, <1>2

\* And a search for a table of a database.
LEMMA LabelFound ==
  ASSUME NEW d, NEW labelId, Len(Db(d).labelCtrlList) \in Nat
  PROVE  LET l == DmGetLabelCtrlByLabelId(d, labelId)
         IN  \/ l \in LabelIndex(d) /\ Label(d, l).labelId = labelId
             \/ l = 0 /\ \A k \in LabelIndex(d) : Label(d, k).labelId # labelId
<1> DEFINE list == dbCtrlList[d].labelCtrlList
           hits == {i \in 1 .. Len(list) : list[i].labelId = labelId}
<1>1. CASE hits = {}
  BY <1>1 DEF DmGetLabelCtrlByLabelId, FirstIndex, LabelIndex, Label, Db
<1>2. CASE hits # {}
  <2>1. (CHOOSE i \in hits : \A j \in hits : i <= j) \in hits
    BY <1>2, LeastChosen, hits \subseteq 1 .. Len(list) DEF Db
  <2> QED
    BY <1>2, <2>1 DEF DmGetLabelCtrlByLabelId, FirstIndex, LabelIndex, Label, Db
<1> QED BY <1>1, <1>2

-----------------------------------------------------------------------------
(* Schemas.                                                                *)

\* A schema that SrParseCreateLabelJson accepts has a name, and all of its
\* fields have a type it knows and a size.
LEMMA AcceptedSchema ==
  ASSUME NEW json \in Json, json # NoJson, ParseStatus(json) = GMERR_OK
  PROVE  json.labelName \in LabelName /\ ParsedFields(json) \in Seq(JsonField)
<1>1. json # Malformed /\ json.fields # Malformed
  BY DEF ParseStatus, JsonStatus, GMERR_OK, JSON_LIB_ERROR
<1>2. json \in JsonLabel
  BY <1>1, JsonAssumption
<1>3. CASE json.fields = NotArray
  BY <1>2, <1>3 DEF JsonLabel, ParsedFields
<1>4. CASE json.fields # NotArray
  <2> DEFINE fs == json.fields
             hits == {i \in 1 .. Len(fs) : FieldStatus(fs[i]) # GMERR_OK}
             bad == CHOOSE i \in hits : \A j \in hits : i <= j
  <2>1. fs \in Seq({Malformed} \cup JsonField)
    BY <1>1, <1>2, <1>4 DEF JsonLabel
  <2>2. hits = {}
    <3>1. SUFFICES ASSUME hits # {} PROVE FALSE
      OBVIOUS
    <3>2. bad \in hits
      BY <2>1, <3>1, LeastChosen, hits \subseteq 1 .. Len(fs), Len(fs) \in Nat
    <3>3. bad \in 1 .. Len(fs) /\ FieldStatus(fs[bad]) # GMERR_OK
      BY <3>2
    <3> DEFINE first == FirstIndex(fs, LAMBDA f : FieldStatus(f) # GMERR_OK)
    <3>5. first = bad
      BY <3>1 DEF FirstIndex
    <3>6. ParseStatus(json) \in {FIELDS_OUTRANGE, IF first = 0 THEN GMERR_OK
                                                  ELSE FieldStatus(fs[first])}
      BY <1>1, <1>4 DEF ParseStatus, JsonStatus
    <3> HIDE DEF bad, first, hits
    <3>4. ParseStatus(json) \in {FIELDS_OUTRANGE, FieldStatus(fs[bad])}
      BY <2>1, <3>3, <3>5, <3>6
    <3> QED BY <3>3, <3>4 DEF FIELDS_OUTRANGE, GMERR_OK
  <2>3. \A i \in 1 .. Len(fs) : fs[i] # Malformed
    BY <2>2 DEF FieldStatus, JsonStatus, JSON_LIB_ERROR, GMERR_OK
  <2>4. fs \in Seq(JsonField)
    BY <2>1, <2>3
  <2> QED BY <1>2, <1>4, <2>4 DEF JsonLabel, ParsedFields
<1> QED BY <1>3, <1>4

\* The properties made of the fields are typed, and rows have a size, whatever
\* the sizes in the schema: both are computed in uint32_t.
LEMMA PropertiesTyped ==
  ASSUME NEW fields \in Seq(JsonField), NEW properties \in Properties(fields)
  PROVE  properties \in Seq(Property) /\ RowSize(properties) \in Nat
<1>1. PICK offset \in [1 .. Len(fields) -> UInt32] :
        properties = [i \in 1 .. Len(fields) |->
                        [fieldType |-> FieldType(fields[i].type),
                         fieldSize |-> fields[i].size % UINT32,
                         fldOffset |-> offset[i]]]
  BY DEF Properties
<1>0. \A n \in Int : n % UINT32 \in UInt32
  BY SimpleRelAssumption, SMTT(30) DEF UInt32
<1>2. \A i \in 1 .. Len(fields) :
        [fieldType |-> FieldType(fields[i].type),
         fieldSize |-> fields[i].size % UINT32,
         fldOffset |-> offset[i]] \in Property
  <2> TAKE i \in 1 .. Len(fields)
  <2>3. fields[i] \in JsonField
    OBVIOUS
  <2>1. fields[i].size \in Int
    BY <2>3 DEF JsonField
  <2>2. FieldType(fields[i].type) \in {0, 1} /\ offset[i] \in UInt32
    BY DEF FieldType
  <2> QED BY <1>0, <2>1, <2>2 DEF Property
<1>3. properties \in Seq(Property) /\ Len(properties) \in Nat
  BY <1>1, <1>2
<1>4. \A i \in 1 .. Len(properties) :
        properties[i].fldOffset \in Nat /\ properties[i].fieldSize \in Nat
  <2> TAKE i \in 1 .. Len(properties)
  <2>1. properties[i] \in Property
    BY <1>3
  <2>2. UInt32 \subseteq Nat
    BY SimpleRelAssumption DEF UInt32
  <2> QED BY <2>1, <2>2 DEF Property
<1>5. RowSize(properties) \in Nat
  <2> DEFINE n == Len(properties)
  <2>1. CASE n = 0
    BY <2>1 DEF RowSize
  <2>2. CASE n # 0
    <3>1. n \in 1 .. Len(properties)
      BY <1>3, <2>2
    <3>2. properties[n].fldOffset + properties[n].fieldSize \in Int
      BY <1>4, <3>1
    <3>3. RowSize(properties)
            = (properties[n].fldOffset + properties[n].fieldSize) % UINT32
      BY <2>2 DEF RowSize
    <3>4. RowSize(properties) \in UInt32
      BY <1>0, <3>2, <3>3
    <3> QED BY <3>4 DEF UInt32
  <2> QED BY <2>1, <2>2
<1> QED BY <1>3, <1>5

-----------------------------------------------------------------------------
(* Pages.                                                                  *)

LEMMA NewPage ==
  ASSUME NEW rowSize \in Nat
  PROVE  /\ SEFixedHeapInit(rowSize) \in FixedHeapT
         /\ HeapConsistent(SEFixedHeapInit(rowSize))
         /\ SEFixedHeapInit(rowSize).rowSize = rowSize
<1>1. SEFixedHeapInit(rowSize) \in FixedHeapT
  BY PageAssumption DEF SEFixedHeapInit, FixedHeapT
<1>2. HeapConsistent(SEFixedHeapInit(rowSize))
  BY PageAssumption DEF SEFixedHeapInit, HeapConsistent, PageByte
<1> QED BY <1>1, <1>2 DEF SEFixedHeapInit

\* A row that has room leaves the page consistent.
LEMMA InsertConsistent ==
  ASSUME NEW heap \in FixedHeapT, HeapConsistent(heap), HasRoom(heap),
         NEW rowBuf \in Row(heap.rowSize)
  PROVE  LET new == SEFixedHeapInsertRow(heap, rowBuf)
         IN  new \in FixedHeapT /\ HeapConsistent(new)
               /\ new.rowSize = heap.rowSize
<1> DEFINE new == SEFixedHeapInsertRow(heap, rowBuf)
<1>1. /\ heap.currPos \in Nat /\ heap.rowSize \in Nat /\ heap.rowCnt \in Nat
      /\ heap.page \in [PageByte -> Byte \cup {Garbage}]
  BY PageAssumption DEF FixedHeapT
<1>2. \A k \in PageByte :
        heap.currPos <= k /\ k < heap.currPos + heap.rowSize
          => rowBuf[k - heap.currPos] \in Byte
  BY <1>1, PageAssumption DEF Row, PageByte
<1>3. new \in FixedHeapT
  BY <1>1, <1>2, PageAssumption DEF SEFixedHeapInsertRow, FixedHeapT, HasRoom
<1>4. (heap.rowCnt + 1) * heap.rowSize = heap.rowCnt * heap.rowSize + heap.rowSize
  BY <1>1
<1>5. \A k \in PageByte :
        k < heap.currPos + heap.rowSize <=> new.page[k] # Garbage
  <2> SUFFICES ASSUME NEW k \in PageByte
               PROVE  k < heap.currPos + heap.rowSize <=> new.page[k] # Garbage
    OBVIOUS
  <2>1. k \in Nat
    BY PageAssumption DEF PageByte
  <2>2. CASE heap.currPos <= k /\ k < heap.currPos + heap.rowSize
    BY <1>2, <2>2, PageAssumption DEF SEFixedHeapInsertRow
  <2>3. CASE ~ (heap.currPos <= k /\ k < heap.currPos + heap.rowSize)
    BY <1>1, <2>1, <2>3 DEF SEFixedHeapInsertRow, HeapConsistent
  <2> QED BY <2>2, <2>3
<1>6. HeapConsistent(new)
  BY <1>1, <1>4, <1>5 DEF SEFixedHeapInsertRow, HeapConsistent, HasRoom
<1> QED BY <1>3, <1>6 DEF SEFixedHeapInsertRow

\* Rows lie one behind the other.
LEMMA RowsApart ==
  ASSUME NEW r \in Nat, NEW n \in Nat, NEW size \in Nat, r < n
  PROVE  r * size \in Nat /\ r * size + size <= n * size
<1>1. PICK d \in Nat : n = r + 1 + d
  BY n - r - 1 \in Nat
<1>2. d * size \in Nat /\ r * size \in Nat
  OBVIOUS
<1>3. n * size = r * size + size + d * size
  BY <1>1
<1> QED BY <1>2, <1>3

LEMMA RowsCounted ==
  ASSUME NEW heap, heap.rowCnt \in Nat
  PROVE  /\ Len(Rows(heap)) = heap.rowCnt
         /\ \A r \in 1 .. heap.rowCnt : Rows(heap)[r] = RowAt(heap, r)
BY DEF Rows

LEMMA RowsSame ==
  ASSUME NEW heap \in FixedHeapT
  PROVE  RowsKept(heap, heap)
<1>1. heap.rowCnt \in Nat
  BY DEF FixedHeapT
<1> QED BY <1>1, RowsCounted DEF RowsKept

\* A row that has room leaves the rows before it as they are.
LEMMA InsertKeepsRows ==
  ASSUME NEW heap \in FixedHeapT, HeapConsistent(heap), HasRoom(heap),
         NEW rowBuf,
         NEW new, new = SEFixedHeapInsertRow(heap, rowBuf)
  PROVE  RowsKept(heap, new)
<1>1. /\ heap.rowCnt \in Nat /\ heap.rowSize \in Nat /\ heap.currPos \in Nat
      /\ heap.currPos = heap.rowCnt * heap.rowSize
      /\ heap.currPos <= SE_HEAP_PAGE_SIZE /\ SE_HEAP_PAGE_SIZE \in Nat
  BY PageAssumption DEF FixedHeapT, HeapConsistent
<1>2. /\ new.rowCnt = heap.rowCnt + 1 /\ new.rowSize = heap.rowSize
      /\ \A k \in PageByte : k < heap.currPos => new.page[k] = heap.page[k]
  BY <1>1 DEF SEFixedHeapInsertRow, PageByte
<1>3. ASSUME NEW r \in 1 .. heap.rowCnt
      PROVE  RowAt(new, r) = RowAt(heap, r)
  <2> DEFINE start == (r - 1) * heap.rowSize
  <2>1. r - 1 \in Nat /\ r - 1 < heap.rowCnt
    BY <1>1
  <2>2. start \in Nat /\ start + heap.rowSize <= heap.currPos
    BY <1>1, <2>1, RowsApart
  <2> HIDE DEF start
  <2>3. \A k \in 0 .. heap.rowSize - 1 :
          start + k \in PageByte /\ start + k < heap.currPos
    BY <1>1, <2>2 DEF PageByte
  <2>4. \A k \in 0 .. heap.rowSize - 1 : new.page[start + k] = heap.page[start + k]
    BY <1>2, <2>3
  <2> QED BY <1>2, <2>4 DEF RowAt, start
<1>4. /\ Len(Rows(heap)) = heap.rowCnt /\ Len(Rows(new)) = heap.rowCnt + 1
      /\ \A r \in 1 .. heap.rowCnt :
           Rows(heap)[r] = RowAt(heap, r) /\ Rows(new)[r] = RowAt(new, r)
  BY <1>1, <1>2, RowsCounted
<1> QED BY <1>1, <1>3, <1>4 DEF RowsKept

-----------------------------------------------------------------------------
(* The catalogue.                                                          *)

\* The properties that the runs check, and that the counter has stayed inside
\* its bound, are inductive together.
IInv ==
  /\ TypeOK
  /\ g_dbGenNum \in DbId
  /\ NamesUnique
  /\ IdsIdentify
  /\ PagesConsistent

\* What of IInv speaks of the catalogue.
CatalogueOK ==
  /\ dbCtrlList \in Seq(SrDbCtrlT)
  /\ g_dbGenNum \in DbId
  /\ NamesUnique
  /\ IdsIdentify
  /\ PagesConsistent

LEMMA CounterTyped ==
  /\ DbId \subseteq Nat \ {0}
  /\ TableId \subseteq Nat
  /\ g_dbGenNum \in DbId => GenSrDbId \in DbId /\ GenSrTableId \in TableId
BY SimpleRelAssumption DEF DbId, TableId, GenSrDbId, GenSrTableId

\* The entries of a well-formed catalogue.
LEMMA EntriesTyped ==
  ASSUME CatalogueOK
  PROVE  /\ Len(dbCtrlList) \in Nat
         /\ \A i \in DbIndex :
              /\ Db(i) \in SrDbCtrlT
              /\ Len(Db(i).labelCtrlList) \in Nat
              /\ \A k \in LabelIndex(i) :
                   Label(i, k) \in SrLabelT
<1>1. Len(dbCtrlList) \in Nat /\ \A i \in DbIndex : Db(i) \in SrDbCtrlT
  BY DEF CatalogueOK, DbIndex, Db
<1>2. \A i \in DbIndex : Db(i).labelCtrlList \in Seq(SrLabelT)
  BY <1>1 DEF SrDbCtrlT
<1> QED BY <1>1, <1>2 DEF LabelIndex, Label, Db

\* After a step every table is new, or has the rows it had and maybe more.
RowsCarried ==
  \A j \in DbIndex' : \A l \in LabelIndex(j)' :
    \/ Label(j, l)'.labelId = GenSrTableId
    \/ \E i \in DbIndex : \E k \in LabelIndex(i) :
         /\ Label(i, k).labelId = Label(j, l)'.labelId
         /\ RowsKept(Label(i, k).heapRow, Label(j, l)'.heapRow)

\* A table that is in the catalogue as it was.
IsOld(j, l) ==
  \E i \in DbIndex : \E k \in LabelIndex(i) : Label(j, l)' = Label(i, k)

LEMMA OldRows ==
  ASSUME CatalogueOK,
         \A j \in DbIndex' : \A l \in LabelIndex(j)' :
           IsOld(j, l) \/ Label(j, l)'.labelId = GenSrTableId
  PROVE  RowsCarried
<1> SUFFICES ASSUME NEW j \in DbIndex', NEW l \in LabelIndex(j)', IsOld(j, l)
             PROVE  \E i \in DbIndex : \E k \in LabelIndex(i) :
                      /\ Label(i, k).labelId = Label(j, l)'.labelId
                      /\ RowsKept(Label(i, k).heapRow, Label(j, l)'.heapRow)
  BY DEF RowsCarried
<1>1. PICK i \in DbIndex : \E k \in LabelIndex(i) : Label(j, l)' = Label(i, k)
  BY DEF IsOld
<1>2. PICK k \in LabelIndex(i) : Label(j, l)' = Label(i, k)
  BY <1>1
<1>3. Label(i, k).heapRow \in FixedHeapT
  BY EntriesTyped DEF SrLabelT
<1> QED BY <1>2, <1>3, RowsSame

\* Ids identify tables, so this is what RowsStay says of the step.
LEMMA CarriedInStep ==
  ASSUME CatalogueOK, RowsCarried
  PROVE  RowsStayInStep
<1> SUFFICES ASSUME NEW i \in DbIndex, NEW k \in LabelIndex(i),
                    NEW j \in DbIndex', NEW l \in LabelIndex(j)',
                    Label(i, k).labelId = Label(j, l)'.labelId
             PROVE  RowsKept(Label(i, k).heapRow, Label(j, l)'.heapRow)
  BY DEF RowsStayInStep
<1>1. Label(i, k).labelId # GenSrTableId
  <2>1. Label(i, k).labelId \in Nat /\ Label(i, k).labelId < TABLE_ID_DIFF + g_dbGenNum
    BY EntriesTyped, CounterTyped DEF CatalogueOK, IdsIdentify, SrLabelT
  <2>2. GenSrTableId \in Nat
    BY CounterTyped DEF CatalogueOK
  <2> QED BY <2>1, <2>2 DEF GenSrTableId
<1>2. PICK i0 \in DbIndex : \E k0 \in LabelIndex(i0) :
        /\ Label(i0, k0).labelId = Label(j, l)'.labelId
        /\ RowsKept(Label(i0, k0).heapRow, Label(j, l)'.heapRow)
  BY <1>1 DEF RowsCarried
<1>3. PICK k0 \in LabelIndex(i0) :
        /\ Label(i0, k0).labelId = Label(j, l)'.labelId
        /\ RowsKept(Label(i0, k0).heapRow, Label(j, l)'.heapRow)
  BY <1>2
<1>4. i0 = i /\ k0 = k
  BY <1>3 DEF CatalogueOK, IdsIdentify
<1> QED BY <1>3, <1>4

LEMMA SameCatalogue ==
  ASSUME CatalogueOK, UNCHANGED Catalogue
  PROVE  CatalogueOK' /\ RowsCarried
<1>1. CatalogueOK'
  <2>1. NamesUnique' /\ IdsIdentify'
    BY DEF CatalogueOK, Catalogue, NamesUnique, IdsIdentify, DbIndex, LabelIndex, Db, Label
  <2>2. PagesConsistent'
    BY DEF CatalogueOK, Catalogue, PagesConsistent, DbIndex, LabelIndex, Db, Label
  <2> QED BY <2>1, <2>2 DEF CatalogueOK, Catalogue
<1>2. \A j \in DbIndex' : \A l \in LabelIndex(j)' : IsOld(j, l)
  BY DEF Catalogue, DbIndex, LabelIndex, Db, Label, IsOld
<1> QED BY <1>1, <1>2, OldRows

\* A database that is new in name and id keeps the catalogue well formed.
LEMMA AddDb ==
  ASSUME CatalogueOK,
         NEW dbName \in DbName, ~ IsDbNameExist(dbName),
         g_dbGenNum < MaxGenNum,
         g_dbGenNum' = g_dbGenNum + 1,
         dbCtrlList' = Append(dbCtrlList, [dbName |-> dbName,
                                           dbId |-> GenSrDbId,
                                           labelCtrlList |-> <<>>])
  PROVE  CatalogueOK' /\ RowsCarried
<1> DEFINE new == [dbName |-> dbName, dbId |-> GenSrDbId,
                   labelCtrlList |-> <<>>]
<1>1. Len(dbCtrlList) \in Nat /\ dbCtrlList \in Seq(SrDbCtrlT)
  BY EntriesTyped DEF CatalogueOK
<1>2. PICK n \in Nat : n = Len(dbCtrlList)
  BY <1>1
<1>3. new \in SrDbCtrlT
  BY CounterTyped DEF SrDbCtrlT, CatalogueOK
<1>4. /\ dbCtrlList' \in Seq(SrDbCtrlT)
      /\ DbIndex = 1 .. n /\ DbIndex' = 1 .. n + 1
      /\ \A i \in 1 .. n : Db(i)' = Db(i)
      /\ Db(n + 1)' = new
  BY <1>1, <1>2, <1>3 DEF DbIndex, Db
<1>5. \A i \in 1 .. n :
        /\ LabelIndex(i)' = LabelIndex(i)
        /\ \A k \in LabelIndex(i) : Label(i, k)' = Label(i, k)
  BY <1>4 DEF LabelIndex, Label, Db
<1>6. LabelIndex(n + 1)' = {}
  <2>1. Db(n + 1)'.labelCtrlList = <<>>
    BY <1>4
  <2> QED BY <2>1 DEF LabelIndex
<1>7. \A i \in 1 .. n : Db(i).dbName # dbName /\ Db(i).dbId # GenSrDbId
  <2>1. \A i \in 1 .. n : Db(i).dbName # dbName
    BY <1>1, <1>4, DbByNameFound DEF IsDbNameExist, DbIndex
  <2>2. \A i \in 1 .. n : Db(i).dbId < g_dbGenNum /\ Db(i).dbId \in Nat
    BY <1>4, EntriesTyped, CounterTyped DEF CatalogueOK, IdsIdentify, SrDbCtrlT
  <2> QED BY <2>1, <2>2, CounterTyped DEF GenSrDbId, CatalogueOK
<1>8. g_dbGenNum' \in DbId
  BY SimpleRelAssumption DEF CatalogueOK, DbId
<1>9. NamesUnique'
  BY <1>4, <1>5, <1>6, <1>7 DEF CatalogueOK, NamesUnique
<1>10. IdsIdentify'
  <2>1. \A i \in DbIndex' : Db(i)'.dbId < g_dbGenNum'
    BY <1>4, EntriesTyped, CounterTyped
       DEF CatalogueOK, IdsIdentify, SrDbCtrlT, GenSrDbId
  <2>2. \A i \in DbIndex' : \A k \in LabelIndex(i)' :
          /\ i \in 1 .. n /\ k \in LabelIndex(i)
          /\ Db(i)' = Db(i) /\ Label(i, k)' = Label(i, k)
    BY <1>4, <1>5, <1>6
  <2>3. \A i \in DbIndex' : \A k \in LabelIndex(i)' :
          /\ Label(i, k)'.dbId = Db(i)'.dbId
          /\ Label(i, k)'.labelId < TABLE_ID_DIFF + g_dbGenNum'
    <3> TAKE i \in DbIndex'
    <3> TAKE k \in LabelIndex(i)'
    <3>1. /\ Label(i, k).dbId = Db(i).dbId
          /\ Label(i, k).labelId < TABLE_ID_DIFF + g_dbGenNum
          /\ Label(i, k) \in SrLabelT
      BY <1>4, <2>2, EntriesTyped DEF CatalogueOK, IdsIdentify
    <3>2. Label(i, k).labelId \in Nat /\ g_dbGenNum \in Nat
      BY <3>1, CounterTyped DEF SrLabelT, CatalogueOK
    <3> QED BY <2>2, <3>1, <3>2, SimpleRelAssumption
  <2> QED BY <1>4, <2>1, <2>2, <2>3 DEF CatalogueOK, IdsIdentify
<1>11. PagesConsistent'
  BY <1>4, <1>5, <1>6 DEF CatalogueOK, PagesConsistent
<1>12. \A j \in DbIndex' : \A l \in LabelIndex(j)' : IsOld(j, l)
  <2>1. \A j \in 1 .. n + 1 : j \in 1 .. n \/ j = n + 1
    OBVIOUS
  <2> QED BY <1>4, <1>5, <1>6, <2>1 DEF IsOld
<1> QED BY <1>4, <1>8, <1>9, <1>10, <1>11, <1>12, OldRows DEF CatalogueOK

\* Taking a database out moves others up, but brings no two together.
LEMMA RemoveDb ==
  ASSUME CatalogueOK,
         NEW d \in DbIndex,
         g_dbGenNum' = g_dbGenNum,
         dbCtrlList' = RemoveItem(dbCtrlList, d)
  PROVE  CatalogueOK' /\ RowsCarried
<1> DEFINE from(i) == IF i < d THEN i ELSE i + 1
<1>1. dbCtrlList \in Seq(SrDbCtrlT)
  BY DEF CatalogueOK
<1>2. PICK n \in Nat : n = Len(dbCtrlList)
  BY <1>1
<1>3. d \in 1 .. n /\ n - 1 \in Nat /\ DbIndex = 1 .. n
  BY <1>2 DEF DbIndex
<1>4. dbCtrlList' = [k \in 1 .. n - 1 |-> dbCtrlList[from(k)]]
  BY <1>2 DEF RemoveItem
<1>5. \A i \in 1 .. n - 1 :
        from(i) \in 1 .. n /\ \A j \in 1 .. n - 1 : from(i) = from(j) => i = j
  BY <1>3
<1>6. \A i \in 1 .. n - 1 : dbCtrlList[from(i)] \in SrDbCtrlT
  BY <1>1, <1>2, <1>5
<1> HIDE DEF from
<1>7. dbCtrlList' \in Seq(SrDbCtrlT) /\ Len(dbCtrlList') = n - 1
  BY <1>3, <1>4, <1>6
<1>8. DbIndex' = 1 .. n - 1 /\ \A i \in DbIndex' : Db(i)' = Db(from(i))
  BY <1>4, <1>7 DEF DbIndex, Db
<1>9. \A i \in DbIndex' :
        /\ LabelIndex(i)' = LabelIndex(from(i))
        /\ \A k \in LabelIndex(i)' : Label(i, k)' = Label(from(i), k)
  BY <1>8 DEF LabelIndex, Label, Db
<1>10. NamesUnique'
  BY <1>3, <1>5, <1>8, <1>9 DEF CatalogueOK, NamesUnique
<1>11. IdsIdentify'
  <2>1. \A i \in DbIndex' :
          /\ Db(i)'.dbId < g_dbGenNum'
          /\ \A k \in LabelIndex(i)' :
               /\ Label(i, k)'.dbId = Db(i)'.dbId
               /\ Label(i, k)'.labelId < TABLE_ID_DIFF + g_dbGenNum'
    BY <1>3, <1>5, <1>8, <1>9 DEF CatalogueOK, IdsIdentify
  <2>2. \A i \in DbIndex' : \A j \in DbIndex' :
          \A k \in LabelIndex(i)' : \A l \in LabelIndex(j)' :
            Label(i, k)'.labelId = Label(j, l)'.labelId => i = j /\ k = l
    <3> TAKE i \in DbIndex'
    <3> TAKE j \in DbIndex'
    <3> TAKE k \in LabelIndex(i)'
    <3> TAKE l \in LabelIndex(j)'
    <3>1. /\ from(i) \in DbIndex /\ from(j) \in DbIndex
          /\ k \in LabelIndex(from(i)) /\ l \in LabelIndex(from(j))
          /\ from(i) = from(j) => i = j
      BY <1>3, <1>5, <1>8, <1>9
    <3> QED BY <1>9, <3>1 DEF CatalogueOK, IdsIdentify
  <2> QED BY <2>1, <2>2 DEF IdsIdentify
<1>12. PagesConsistent'
  BY <1>3, <1>5, <1>8, <1>9 DEF CatalogueOK, PagesConsistent
<1>13. \A j \in DbIndex' : \A l \in LabelIndex(j)' : IsOld(j, l)
  BY <1>3, <1>5, <1>8, <1>9 DEF IsOld
<1> QED BY <1>7, <1>10, <1>11, <1>12, <1>13, OldRows DEF CatalogueOK

\* A table that is new in name and id keeps the catalogue well formed.
LEMMA AddLabel ==
  ASSUME CatalogueOK,
         NEW d \in DbIndex,
         NEW new \in SrLabelT,
         ~ IsLabelNameExist(d, new.labelName),
         new.dbId = Db(d).dbId,
         new.labelId = GenSrTableId,
         HeapConsistent(new.heapRow),
         new.heapRow.rowSize = RowSize(new.properties),
         g_dbGenNum < MaxGenNum,
         g_dbGenNum' = g_dbGenNum + 1,
         dbCtrlList' =
           [dbCtrlList EXCEPT ![d].labelCtrlList = Append(@, new)]
  PROVE  CatalogueOK' /\ RowsCarried
<1>1. dbCtrlList \in Seq(SrDbCtrlT) /\ Len(dbCtrlList) \in Nat
  BY EntriesTyped DEF CatalogueOK
<1>2. Db(d) \in SrDbCtrlT /\ Db(d).labelCtrlList \in Seq(SrLabelT)
  BY EntriesTyped DEF SrDbCtrlT
<1>3. PICK m \in Nat : m = Len(Db(d).labelCtrlList)
  BY <1>2
<1>0. PICK db : db = [Db(d) EXCEPT !.labelCtrlList = Append(@, new)]
  OBVIOUS
<1>4. /\ db \in SrDbCtrlT
      /\ db.dbName = Db(d).dbName /\ db.dbId = Db(d).dbId
      /\ db.labelCtrlList = Append(Db(d).labelCtrlList, new)
  BY <1>0, <1>2 DEF SrDbCtrlT
<1>5. dbCtrlList' = [dbCtrlList EXCEPT ![d] = db]
  BY <1>0 DEF Db
<1>6. /\ dbCtrlList' \in Seq(SrDbCtrlT)
      /\ DbIndex' = DbIndex
      /\ Db(d)' = db
      /\ \A i \in DbIndex : i # d => Db(i)' = Db(i)
  <2>1. d \in 1 .. Len(dbCtrlList)
    BY DEF DbIndex
  <2>2. /\ dbCtrlList' \in Seq(SrDbCtrlT)
        /\ Len(dbCtrlList') = Len(dbCtrlList)
        /\ \A i \in 1 .. Len(dbCtrlList) :
             dbCtrlList'[i] = IF i = d THEN db ELSE dbCtrlList[i]
    BY ONLY <1>1, <1>4, <1>5, <2>1, ItemReplaced
  <2> QED BY <2>1, <2>2 DEF DbIndex, Db
<1>7. \A i \in DbIndex :
        Db(i)'.dbName = Db(i).dbName /\ Db(i)'.dbId = Db(i).dbId
  BY <1>4, <1>6
<1>8. \A i \in DbIndex : i # d =>
        /\ LabelIndex(i)' = LabelIndex(i)
        /\ \A k \in LabelIndex(i) : Label(i, k)' = Label(i, k)
  BY <1>6 DEF LabelIndex, Label, Db
<1>9. /\ LabelIndex(d) = 1 .. m /\ LabelIndex(d)' = 1 .. m + 1
      /\ \A k \in 1 .. m : Label(d, k)' = Label(d, k)
      /\ Label(d, m + 1)' = new
  <2>1. /\ Len(db.labelCtrlList) = m + 1
        /\ \A k \in 1 .. m : db.labelCtrlList[k] = Db(d).labelCtrlList[k]
        /\ db.labelCtrlList[m + 1] = new
    BY <1>2, <1>3, <1>4
  <2>2. dbCtrlList'[d] = db
    BY <1>6 DEF Db
  <2> QED BY <1>3, <1>6, <2>1, <2>2 DEF LabelIndex, Label, Db
<1>10. \A i \in DbIndex : \A k \in LabelIndex(i) :
         Label(i, k).labelId \in Nat /\ Label(i, k).labelId < GenSrTableId
  BY EntriesTyped, CounterTyped
     DEF CatalogueOK, IdsIdentify, SrLabelT, GenSrTableId
<1>11. \A i \in DbIndex' : \A k \in LabelIndex(i)' :
         \/ i = d /\ k = m + 1 /\ Label(i, k)' = new
         \/ k \in LabelIndex(i) /\ Label(i, k)' = Label(i, k)
  <2> TAKE i \in DbIndex'
  <2>1. CASE i = d
    <3>1. \A k \in 1 .. m + 1 : k \in 1 .. m \/ k = m + 1
      OBVIOUS
    <3> QED BY <1>9, <2>1, <3>1
  <2>2. CASE i # d
    BY <1>6, <1>8, <2>2
  <2> QED BY <2>1, <2>2
<1>12. \A k \in LabelIndex(d) : Label(d, k).labelName # new.labelName
  BY DEF IsLabelNameExist, LabelIndex, Label, Db
<1>13. /\ g_dbGenNum \in Nat /\ g_dbGenNum' \in DbId
       /\ GenSrTableId < TABLE_ID_DIFF + g_dbGenNum'
  BY SimpleRelAssumption DEF CatalogueOK, DbId, GenSrTableId
<1>14. NamesUnique'
  <2>1. \A i \in DbIndex' : \A j \in DbIndex' :
          Db(i)'.dbName = Db(j)'.dbName \/ Db(i)'.dbId = Db(j)'.dbId => i = j
    BY <1>6, <1>7 DEF CatalogueOK, NamesUnique
  <2>2. \A i \in DbIndex' : \A k \in LabelIndex(i)' : \A l \in LabelIndex(i)' :
          Label(i, k)'.labelName = Label(i, l)'.labelName => k = l
    BY <1>6, <1>11, <1>12 DEF CatalogueOK, NamesUnique
  <2> QED BY <2>1, <2>2 DEF NamesUnique
<1>15. IdsIdentify'
  <2>1. \A i \in DbIndex' : Db(i)'.dbId < g_dbGenNum'
    BY <1>6, <1>7, <1>13, EntriesTyped, CounterTyped
       DEF CatalogueOK, IdsIdentify, SrDbCtrlT
  <2>2. \A i \in DbIndex' : \A k \in LabelIndex(i)' :
          /\ Label(i, k)'.dbId = Db(i)'.dbId
          /\ Label(i, k)'.labelId < TABLE_ID_DIFF + g_dbGenNum'
    <3> TAKE i \in DbIndex'
    <3> TAKE k \in LabelIndex(i)'
    <3>1. CASE i = d /\ k = m + 1 /\ Label(i, k)' = new
      BY <1>7, <1>13, <3>1
    <3>2. CASE k \in LabelIndex(i) /\ Label(i, k)' = Label(i, k)
      <4>1. i \in DbIndex /\ Label(i, k).labelId \in Nat
            /\ Label(i, k).labelId < GenSrTableId
        BY <1>6, <1>10, <3>2
      <4>2. GenSrTableId \in Nat /\ g_dbGenNum' \in Nat
        BY <1>13, CounterTyped DEF CatalogueOK
      <4> QED
        BY <1>7, <1>13, <3>2, <4>1, <4>2, SimpleRelAssumption
           DEF CatalogueOK, IdsIdentify
    <3> QED BY <1>11, <3>1, <3>2
  <2>3. \A i \in DbIndex' : \A j \in DbIndex' :
          \A k \in LabelIndex(i)' : \A l \in LabelIndex(j)' :
            Label(i, k)'.labelId = Label(j, l)'.labelId => i = j /\ k = l
    <3> TAKE i \in DbIndex'
    <3> TAKE j \in DbIndex'
    <3> TAKE k \in LabelIndex(i)'
    <3> TAKE l \in LabelIndex(j)'
    <3>1. CASE k \in LabelIndex(i) /\ Label(i, k)' = Label(i, k)
      <4>1. CASE l \in LabelIndex(j) /\ Label(j, l)' = Label(j, l)
        BY <1>6, <3>1, <4>1 DEF CatalogueOK, IdsIdentify
      <4>2. CASE Label(j, l)' = new
        <5>1. Label(i, k).labelId < GenSrTableId /\ Label(i, k).labelId \in Nat
          BY <1>6, <1>10, <3>1
        <5>2. GenSrTableId \in Nat
          BY CounterTyped DEF CatalogueOK
        <5> QED BY <3>1, <4>2, <5>1, <5>2
      <4> QED BY <1>11, <4>1, <4>2
    <3>2. CASE i = d /\ k = m + 1 /\ Label(i, k)' = new
      <4>1. CASE l \in LabelIndex(j) /\ Label(j, l)' = Label(j, l)
        <5>1. Label(j, l).labelId < GenSrTableId /\ Label(j, l).labelId \in Nat
          BY <1>6, <1>10, <4>1
        <5>2. GenSrTableId \in Nat
          BY CounterTyped DEF CatalogueOK
        <5> QED BY <3>2, <4>1, <5>1, <5>2
      <4>2. CASE j = d /\ l = m + 1
        BY <3>2, <4>2
      <4> QED BY <1>11, <4>1, <4>2
    <3> QED BY <1>11, <3>1, <3>2
  <2> QED BY <2>1, <2>2, <2>3 DEF IdsIdentify
<1>16. PagesConsistent'
  <2> SUFFICES ASSUME NEW i \in DbIndex', NEW k \in LabelIndex(i)'
               PROVE  /\ HeapConsistent(Label(i, k)'.heapRow)
                      /\ Label(i, k)'.heapRow.rowSize
                           = RowSize(Label(i, k)'.properties)
    BY DEF PagesConsistent, HeapConsistent, RowSize
  <2>1. CASE Label(i, k)' = new
    BY <2>1
  <2>2. CASE k \in LabelIndex(i) /\ Label(i, k)' = Label(i, k)
    BY <1>6, <2>2 DEF CatalogueOK, PagesConsistent
  <2> QED BY <1>11, <2>1, <2>2
<1>17. \A i \in DbIndex' : \A k \in LabelIndex(i)' :
         IsOld(i, k) \/ Label(i, k)'.labelId = GenSrTableId
  BY <1>6, <1>11 DEF IsOld
<1> QED BY <1>6, <1>13, <1>14, <1>15, <1>16, <1>17, OldRows DEF CatalogueOK

\* A step that puts another page into one table, and what it leaves as it was.
ReplacePage(d, l, heap) ==
  dbCtrlList' = [dbCtrlList EXCEPT ![d].labelCtrlList[l].heapRow = heap]

LEMMA PageReplaced ==
  ASSUME CatalogueOK,
         NEW d \in DbIndex,
         NEW l \in LabelIndex(d),
         NEW heap \in FixedHeapT,
         ReplacePage(d, l, heap)
  PROVE  /\ dbCtrlList' \in Seq(SrDbCtrlT)
         /\ DbIndex' = DbIndex
         /\ \A i \in DbIndex :
              /\ Db(i)'.dbName = Db(i).dbName /\ Db(i)'.dbId = Db(i).dbId
              /\ LabelIndex(i)' = LabelIndex(i)
         /\ \A i \in DbIndex : \A k \in LabelIndex(i) :
              IF i = d /\ k = l
                THEN Label(i, k)' = [Label(i, k) EXCEPT !.heapRow = heap]
                ELSE Label(i, k)' = Label(i, k)
<1>1. dbCtrlList \in Seq(SrDbCtrlT) /\ Len(dbCtrlList) \in Nat
  BY EntriesTyped DEF CatalogueOK
<1>2. Db(d) \in SrDbCtrlT /\ Db(d).labelCtrlList \in Seq(SrLabelT)
  BY EntriesTyped DEF SrDbCtrlT
<1>3. PICK label : label = [Label(d, l) EXCEPT !.heapRow = heap]
  OBVIOUS
<1>4. label \in SrLabelT
  BY <1>3, EntriesTyped DEF SrLabelT
<1>5. PICK list : list = [Db(d).labelCtrlList EXCEPT ![l] = label]
  OBVIOUS
<1>6. /\ list \in Seq(SrLabelT)
      /\ Len(list) = Len(Db(d).labelCtrlList)
      /\ \A k \in LabelIndex(d) :
           list[k] = IF k = l THEN label ELSE Db(d).labelCtrlList[k]
  <2>1. l \in 1 .. Len(Db(d).labelCtrlList)
    BY DEF LabelIndex
  <2> QED BY ONLY <1>2, <1>4, <1>5, <2>1, ItemReplaced DEF LabelIndex
<1>7. PICK db : db = [Db(d) EXCEPT !.labelCtrlList = list]
  OBVIOUS
<1>8. /\ db \in SrDbCtrlT
      /\ db.dbName = Db(d).dbName /\ db.dbId = Db(d).dbId
      /\ db.labelCtrlList = list
  BY <1>2, <1>6, <1>7 DEF SrDbCtrlT
<1>9. dbCtrlList' = [dbCtrlList EXCEPT ![d] = db]
  BY <1>3, <1>5, <1>7 DEF ReplacePage, Db, Label
<1>10. /\ dbCtrlList' \in Seq(SrDbCtrlT)
       /\ DbIndex' = DbIndex
       /\ \A i \in DbIndex : Db(i)' = IF i = d THEN db ELSE Db(i)
  <2>1. d \in 1 .. Len(dbCtrlList)
    BY DEF DbIndex
  <2>2. /\ dbCtrlList' \in Seq(SrDbCtrlT)
        /\ Len(dbCtrlList') = Len(dbCtrlList)
        /\ \A i \in 1 .. Len(dbCtrlList) :
             dbCtrlList'[i] = IF i = d THEN db ELSE dbCtrlList[i]
    BY ONLY <1>1, <1>8, <1>9, <2>1, ItemReplaced
  <2> QED BY <2>2 DEF DbIndex, Db
<1>11. \A i \in DbIndex :
         /\ Db(i)'.dbName = Db(i).dbName /\ Db(i)'.dbId = Db(i).dbId
         /\ LabelIndex(i)' = LabelIndex(i)
  BY <1>6, <1>8, <1>10 DEF LabelIndex
<1>12. \A i \in DbIndex : \A k \in LabelIndex(i) :
         IF i = d /\ k = l
           THEN Label(i, k)' = [Label(i, k) EXCEPT !.heapRow = heap]
           ELSE Label(i, k)' = Label(i, k)
  <2> TAKE i \in DbIndex
  <2> TAKE k \in LabelIndex(i)
  <2>1. Label(i, k)' = Db(i)'.labelCtrlList[k]
    BY DEF Label, Db
  <2>2. CASE i = d
    BY <1>3, <1>6, <1>8, <1>10, <2>1, <2>2 DEF Label, Db
  <2>3. CASE i # d
    BY <1>10, <2>1, <2>3 DEF Label, Db
  <2> QED BY <2>2, <2>3
<1> QED BY <1>10, <1>11, <1>12

\* A row that has room keeps the catalogue well formed.
LEMMA AddRow ==
  ASSUME CatalogueOK,
         NEW d \in DbIndex,
         NEW l \in LabelIndex(d),
         NEW heap \in FixedHeapT,
         HeapConsistent(heap),
         heap.rowSize = Label(d, l).heapRow.rowSize,
         RowsKept(Label(d, l).heapRow, heap),
         g_dbGenNum' = g_dbGenNum,
         ReplacePage(d, l, heap)
  PROVE  CatalogueOK' /\ RowsCarried
<1>1. /\ dbCtrlList' \in Seq(SrDbCtrlT)
      /\ DbIndex' = DbIndex
      /\ \A i \in DbIndex :
           /\ Db(i)'.dbName = Db(i).dbName /\ Db(i)'.dbId = Db(i).dbId
           /\ LabelIndex(i)' = LabelIndex(i)
      /\ \A i \in DbIndex : \A k \in LabelIndex(i) :
           IF i = d /\ k = l
             THEN Label(i, k)' = [Label(i, k) EXCEPT !.heapRow = heap]
             ELSE Label(i, k)' = Label(i, k)
  BY PageReplaced
<1>2. \A i \in DbIndex : \A k \in LabelIndex(i) :
        /\ Label(i, k)'.labelName = Label(i, k).labelName
        /\ Label(i, k)'.labelId = Label(i, k).labelId
        /\ Label(i, k)'.dbId = Label(i, k).dbId
        /\ Label(i, k)'.properties = Label(i, k).properties
        /\ Label(i, k)'.heapRow = IF i = d /\ k = l THEN heap
                                                  ELSE Label(i, k).heapRow
  BY <1>1, EntriesTyped DEF SrLabelT
<1>3. NamesUnique'
  BY <1>1, <1>2 DEF CatalogueOK, NamesUnique
<1>4. IdsIdentify'
  BY <1>1, <1>2 DEF CatalogueOK, IdsIdentify
<1>5. PagesConsistent'
  <2> SUFFICES ASSUME NEW i \in DbIndex', NEW k \in LabelIndex(i)'
               PROVE  /\ HeapConsistent(Label(i, k)'.heapRow)
                      /\ Label(i, k)'.heapRow.rowSize
                           = RowSize(Label(i, k)'.properties)
    BY DEF PagesConsistent, HeapConsistent, RowSize
  <2> QED BY <1>1, <1>2 DEF CatalogueOK, PagesConsistent
<1>6. RowsCarried
  <2> SUFFICES ASSUME NEW j \in DbIndex, NEW l0 \in LabelIndex(j)
               PROVE  /\ Label(j, l0).labelId = Label(j, l0)'.labelId
                      /\ RowsKept(Label(j, l0).heapRow, Label(j, l0)'.heapRow)
    BY <1>1 DEF RowsCarried
  <2>1. CASE j = d /\ l0 = l
    BY <1>2, <2>1
  <2>2. CASE ~ (j = d /\ l0 = l)
    <3>1. Label(j, l0).heapRow \in FixedHeapT
      BY EntriesTyped DEF SrLabelT
    <3> QED BY <1>2, <2>2, <3>1, RowsSame
  <2> QED BY <2>1, <2>2
<1> QED BY <1>1, <1>3, <1>4, <1>5, <1>6 DEF CatalogueOK

-----------------------------------------------------------------------------
(* The invariant.                                                          *)

RspTyped == rsp \in [status : Status, id : Id \cup {NoId}, fields : Seq(Property)]

LEMMA IInvParts ==
  IInv <=> /\ server \in {"running", "aborted", "stopped"}
           /\ g_srDbCtrlManager \in BOOLEAN
           /\ RspTyped
           /\ CatalogueOK
BY CounterTyped DEF IInv, TypeOK, RspTyped, CatalogueOK

LEMMA RefusalTyped ==
  ASSUME NEW status \in Status, Refuse(status)
  PROVE  RspTyped'
BY DEF Refuse, Answer, RspTyped

LEMMA IdAnswerTyped ==
  ASSUME NEW id \in Id, rsp' = Answer(GMERR_OK, id, <<>>)
  PROVE  RspTyped'
BY DEF Answer, RspTyped, Status

LEMMA EmptyCatalogue ==
  ASSUME dbCtrlList = <<>>, g_dbGenNum = FirstGenNum
  PROVE  CatalogueOK
<1>1. dbCtrlList \in Seq(SrDbCtrlT) /\ DbIndex = {}
  BY DEF DbIndex
<1> QED BY <1>1, SimpleRelAssumption
        DEF CatalogueOK, DbId, NamesUnique, IdsIdentify, PagesConsistent

LEMMA InitEstablishes == Init => IInv
<1> SUFFICES ASSUME Init PROVE IInv
  OBVIOUS
<1>1. CatalogueOK
  BY EmptyCatalogue DEF Init
<1>2. RspTyped
  BY DEF Init, Answer, RspTyped, Status
<1> QED BY <1>1, <1>2, IInvParts DEF Init

\* One lemma per request that changes the catalogue.
LEMMA CreateDbKeeps ==
  ASSUME IInv, NEW dbName \in DbName, DMSrCreateDb(dbName)
  PROVE  CatalogueOK' /\ RspTyped' /\ RowsCarried
<1>1. CatalogueOK
  BY IInvParts
<1>2. CASE IsDbNameExist(dbName)
  <2>1. CatalogueOK' /\ RowsCarried
    BY <1>1, <1>2, SameCatalogue DEF DMSrCreateDb, AppendDbCtrl
  <2>2. Refuse(NAME_EXISTED)
    BY <1>2 DEF DMSrCreateDb, AppendDbCtrl
  <2> QED BY <2>1, <2>2, RefusalTyped DEF Status
<1>3. CASE ~ IsDbNameExist(dbName)
  <2>1. CatalogueOK' /\ RowsCarried
    BY <1>1, <1>3, AddDb DEF DMSrCreateDb, AppendDbCtrl
  <2>2. GenSrDbId \in Id /\ rsp' = Answer(GMERR_OK, GenSrDbId, <<>>)
    BY <1>1, <1>3, CounterTyped DEF DMSrCreateDb, AppendDbCtrl, CatalogueOK, Id
  <2> QED BY <2>1, <2>2, IdAnswerTyped
<1> QED BY <1>2, <1>3

LEMMA DropDbKeeps ==
  ASSUME IInv, NEW dbName \in DbName, DMSrDropDb(dbName)
  PROVE  CatalogueOK' /\ RspTyped' /\ RowsCarried
<1>1. CatalogueOK /\ Len(dbCtrlList) \in Nat
  BY IInvParts, EntriesTyped
<1>2. CASE ~ IsDbNameExist(dbName)
  <2>1. CatalogueOK' /\ RowsCarried
    BY <1>1, <1>2, SameCatalogue DEF DMSrDropDb, Catalogue
  <2>2. Refuse(NAME_NOT_EXISTED)
    BY <1>2 DEF DMSrDropDb
  <2> QED BY <2>1, <2>2, RefusalTyped DEF Status
<1>3. CASE IsDbNameExist(dbName)
  <2>1. PICK d \in DbIndex : d = DmGetDbCtrlByName(dbName)
    BY <1>1, <1>3, DbByNameFound DEF IsDbNameExist
  <2>2. dbCtrlList' = RemoveItem(dbCtrlList, d) /\ g_dbGenNum' = g_dbGenNum
    BY <1>3, <2>1 DEF DMSrDropDb
  <2>3. CatalogueOK' /\ RowsCarried
    BY <1>1, <2>2, RemoveDb
  <2>4. Refuse(GMERR_OK)
    BY <1>3 DEF DMSrDropDb
  <2> QED BY <2>3, <2>4, RefusalTyped DEF Status
<1> QED BY <1>2, <1>3

\* The table that an accepted schema makes.
LEMMA NewLabelTyped ==
  ASSUME CatalogueOK, NEW dbId, NEW json \in Json,
         CreateTableStatus(dbId, json) = GMERR_OK,
         NEW properties \in Properties(ParsedFields(json))
  PROVE  LET d == DmGetDbCtrlByDbId(dbId)
             new == NewLabel(dbId, json, properties)
         IN  /\ d \in DbIndex
             /\ new \in SrLabelT
             /\ ~ IsLabelNameExist(d, new.labelName)
             /\ new.dbId = Db(d).dbId
             /\ new.labelId = GenSrTableId
             /\ HeapConsistent(new.heapRow)
             /\ new.heapRow.rowSize = RowSize(new.properties)
<1> DEFINE d == DmGetDbCtrlByDbId(dbId)
           new == NewLabel(dbId, json, properties)
<1>1. /\ d # 0 /\ json # NoJson /\ ParseStatus(json) = GMERR_OK
      /\ ~ IsLabelNameExist(d, json.labelName)
  BY DEF CreateTableStatus, DB_ID_NOT_EXISTED, LABEL_JSON_NULL,
         LABEL_NAME_EXISTED, GMERR_OK
<1>2. d \in DbIndex /\ Db(d).dbId = dbId
  BY <1>1, DbByDbIdFound, EntriesTyped
<1>3. json.labelName \in LabelName /\ ParsedFields(json) \in Seq(JsonField)
  BY <1>1, AcceptedSchema
<1>4. properties \in Seq(Property) /\ RowSize(properties) \in Nat
  BY <1>3, PropertiesTyped
<1>5. LET heap == SEFixedHeapInit(RowSize(properties))
      IN  heap \in FixedHeapT /\ HeapConsistent(heap)
            /\ heap.rowSize = RowSize(properties)
  BY <1>4, NewPage
<1>6. dbId \in DbId /\ GenSrTableId \in TableId
  BY <1>2, EntriesTyped, CounterTyped DEF CatalogueOK, SrDbCtrlT
<1> QED BY <1>1, <1>2, <1>3, <1>4, <1>5, <1>6 DEF NewLabel, SrLabelT

LEMMA ParseStatusTyped ==
  ASSUME NEW json PROVE ParseStatus(json) \in Status
BY DEF ParseStatus, FieldStatus, JsonStatus, Status, BadSchemaStatus

LEMMA CreateTableKeeps ==
  ASSUME IInv, NEW dbId \in DbId, NEW json \in Json, DMSrCreateTable(dbId, json)
  PROVE  CatalogueOK' /\ RspTyped' /\ RowsCarried
<1>1. CatalogueOK
  BY IInvParts
<1>2. CASE CreateTableStatus(dbId, json) # GMERR_OK
  <2>1. CatalogueOK' /\ RowsCarried
    BY <1>1, <1>2, SameCatalogue DEF DMSrCreateTable, AppendLabel
  <2>2. CreateTableStatus(dbId, json) \in Status
    BY ParseStatusTyped DEF CreateTableStatus, Status, BadSchemaStatus
  <2> QED BY <1>2, <2>1, <2>2, RefusalTyped DEF DMSrCreateTable, AppendLabel
<1>3. CASE CreateTableStatus(dbId, json) = GMERR_OK
  <2>1. PICK properties \in Properties(ParsedFields(json)) :
          dbCtrlList' =
            [dbCtrlList EXCEPT ![DmGetDbCtrlByDbId(dbId)].labelCtrlList =
               Append(@, NewLabel(dbId, json, properties))]
    BY <1>3 DEF DMSrCreateTable, AppendLabel
  <2>2. CatalogueOK' /\ RowsCarried
    BY <1>1, <1>3, <2>1, NewLabelTyped, AddLabel DEF DMSrCreateTable, AppendLabel
  <2>3. GenSrTableId \in Id /\ rsp' = Answer(GMERR_OK, GenSrTableId, <<>>)
    BY <1>1, <1>3, CounterTyped DEF DMSrCreateTable, AppendLabel, CatalogueOK, Id
  <2> QED BY <2>2, <2>3, IdAnswerTyped
<1> QED BY <1>2, <1>3

\* A lookup that succeeds has found a table.
LEMMA LookupFinds ==
  ASSUME CatalogueOK, NEW dbId, NEW labelId,
         LookupStatus(dbId, labelId) = GMERR_OK
  PROVE  LET d == DmGetDbCtrlByDbId(dbId)
             l == DmGetLabelCtrlByLabelId(d, labelId)
         IN  d \in DbIndex /\ l \in LabelIndex(d) /\ Label(d, l) \in SrLabelT
<1> DEFINE d == DmGetDbCtrlByDbId(dbId)
           l == DmGetLabelCtrlByLabelId(d, labelId)
<1>1. d # 0 /\ l # 0
  BY DEF LookupStatus, DB_ID_NOT_EXISTED, LABEL_ID_NOT_EXISTED, GMERR_OK
<1>2. d \in DbIndex
  BY <1>1, DbByDbIdFound, EntriesTyped
<1>3. l \in LabelIndex(d)
  BY <1>1, <1>2, LabelFound, EntriesTyped
<1> QED BY <1>2, <1>3, EntriesTyped

LEMMA InsertDataKeeps ==
  ASSUME IInv, NEW dbId \in DbId, NEW labelId \in TableId,
         DMSrInsertData(dbId, labelId)
  PROVE  CatalogueOK' /\ RspTyped' /\ RowsCarried
<1> DEFINE d == DmGetDbCtrlByDbId(dbId)
           l == DmGetLabelCtrlByLabelId(d, labelId)
           heap == dbCtrlList[d].labelCtrlList[l].heapRow
<1>1. CatalogueOK /\ RspTyped
  BY IInvParts
<1>2. d \in DbIndex /\ l \in LabelIndex(d) /\ Label(d, l) \in SrLabelT
  BY <1>1, LookupFinds DEF DMSrInsertData
<1>3. heap = Label(d, l).heapRow /\ heap \in FixedHeapT /\ HeapConsistent(heap)
  BY <1>1, <1>2 DEF Label, SrLabelT, CatalogueOK, PagesConsistent
<1>4. CASE ~ HasRoom(heap)
  <2>1. AbortServer
    BY <1>4 DEF DMSrInsertData
  <2> QED BY <1>1, <2>1, SameCatalogue DEF AbortServer, Catalogue, RspTyped
<1>5. CASE HasRoom(heap)
  <2>1. PICK rowBuf \in Row(heap.rowSize) :
          dbCtrlList' = [dbCtrlList EXCEPT ![d].labelCtrlList[l].heapRow =
                           SEFixedHeapInsertRow(@, rowBuf)]
    BY <1>5 DEF DMSrInsertData
  <2>2. PICK new : new = SEFixedHeapInsertRow(heap, rowBuf)
    OBVIOUS
  <2>3. ReplacePage(d, l, new)
    BY <2>1, <2>2 DEF ReplacePage
  <2>4. /\ new \in FixedHeapT /\ HeapConsistent(new) /\ new.rowSize = heap.rowSize
        /\ RowsKept(heap, new)
    BY <1>3, <1>5, <2>2, InsertConsistent, InsertKeepsRows
  <2>5. g_dbGenNum' = g_dbGenNum /\ Refuse(GMERR_OK)
    BY <1>5 DEF DMSrInsertData
  <2>6. CatalogueOK' /\ RowsCarried
    BY <1>1, <1>2, <1>3, <2>3, <2>4, <2>5, AddRow
  <2> QED BY <2>5, <2>6, RefusalTyped DEF Status
<1> QED BY <1>4, <1>5

LEMMA QueryTableKeeps ==
  ASSUME IInv, NEW dbId \in DbId, NEW labelId \in TableId,
         DMSrQueryTable(dbId, labelId)
  PROVE  CatalogueOK' /\ RspTyped' /\ RowsCarried
<1> DEFINE d == DmGetDbCtrlByDbId(dbId)
           l == DmGetLabelCtrlByLabelId(d, labelId)
<1>1. CatalogueOK
  BY IInvParts
<1>2. Label(d, l) \in SrLabelT
  BY <1>1, LookupFinds DEF DMSrQueryTable
<1>3. rsp' = Answer(GMERR_OK, NoId, Label(d, l).properties)
  BY DEF DMSrQueryTable, Label
<1>4. RspTyped'
  BY <1>2, <1>3 DEF Answer, RspTyped, SrLabelT, Status
<1> QED BY <1>1, <1>4, SameCatalogue DEF DMSrQueryTable

LEMMA LookupFailsKeeps ==
  ASSUME IInv, NEW dbId \in DbId, NEW labelId \in TableId, LookupFails(dbId, labelId)
  PROVE  CatalogueOK' /\ RspTyped' /\ RowsCarried
<1>1. LookupStatus(dbId, labelId) \in Status
  BY DEF LookupStatus, Status
<1> QED BY <1>1, IInvParts, SameCatalogue, RefusalTyped DEF LookupFails

LEMMA StepKeeps ==
  ASSUME IInv, [Next]_vars
  PROVE  IInv' /\ (server = "running" => RowsCarried)
<1>1. /\ server \in {"running", "aborted", "stopped"}
      /\ g_srDbCtrlManager \in BOOLEAN /\ RspTyped /\ CatalogueOK
  BY IInvParts
<1> DEFINE ServerTyped == /\ server' \in {"running", "aborted", "stopped"}
                          /\ g_srDbCtrlManager' \in BOOLEAN
           Kept == /\ ServerTyped /\ CatalogueOK' /\ RspTyped'
                   /\ server = "running" => RowsCarried
<1>2. ASSUME NEW dbName \in DbName, DMSrCreateDb(dbName) PROVE Kept
  <2>1. ServerTyped
    BY <1>1, <1>2 DEF DMSrCreateDb, AppendDbCtrl
  <2> QED BY <1>2, <2>1, CreateDbKeeps
<1>3. ASSUME NEW dbName \in DbName, DMSrDropDb(dbName) PROVE Kept
  <2>1. ServerTyped
    BY <1>1, <1>3 DEF DMSrDropDb
  <2> QED BY <1>3, <2>1, DropDbKeeps
<1>4. ASSUME NEW status \in BadNameStatus, BadDbArgs(status) PROVE Kept
  <2>1. CatalogueOK' /\ RowsCarried
    BY <1>1, <1>4, SameCatalogue DEF BadDbArgs
  <2>2. RspTyped'
    BY <1>4, RefusalTyped DEF BadDbArgs, Status
  <2> QED BY <1>1, <1>4, <2>1, <2>2 DEF BadDbArgs
<1>5. ASSUME NoManager PROVE Kept
  <2>1. CatalogueOK' /\ RowsCarried
    BY <1>1, <1>5, SameCatalogue DEF NoManager, AbortServer, Catalogue
  <2> QED BY <1>1, <1>5, <2>1 DEF NoManager, AbortServer, RspTyped
<1>6. ASSUME NoHandler PROVE Kept
  <2>1. CatalogueOK' /\ RowsCarried
    BY <1>1, <1>6, SameCatalogue DEF NoHandler
  <2>2. RspTyped'
    BY <1>6, RefusalTyped DEF NoHandler, Status
  <2> QED BY <1>1, <1>6, <2>1, <2>2 DEF NoHandler
<1>7. ASSUME NEW dbId \in DbId, NEW json \in Json, DMSrCreateTable(dbId, json)
      PROVE  Kept
  <2>1. ServerTyped
    BY <1>1, <1>7 DEF DMSrCreateTable, AppendLabel
  <2> QED BY <1>7, <2>1, CreateTableKeeps
<1>8. ASSUME NEW dbId \in DbId, NEW labelId \in TableId, LookupFails(dbId, labelId)
      PROVE  Kept
  <2>1. ServerTyped
    BY <1>1, <1>8 DEF LookupFails
  <2> QED BY <1>8, <2>1, LookupFailsKeeps
<1>9. ASSUME NEW dbId \in DbId, NEW labelId \in TableId, DMSrInsertData(dbId, labelId)
      PROVE  Kept
  <2>1. ServerTyped
    BY <1>1, <1>9 DEF DMSrInsertData, AbortServer
  <2> QED BY <1>9, <2>1, InsertDataKeeps
<1>10. ASSUME NEW dbId \in DbId, NEW labelId \in TableId, DMSrQueryTable(dbId, labelId)
       PROVE  Kept
  <2>1. ServerTyped
    BY <1>1, <1>10 DEF DMSrQueryTable
  <2> QED BY <1>10, <2>1, QueryTableKeeps
<1>11. ASSUME NEW dbId \in DbId, DMSrGetDbDesc(dbId) PROVE Kept
  <2>1. CatalogueOK' /\ RowsCarried
    BY <1>1, <1>11, SameCatalogue DEF DMSrGetDbDesc, AbortServer, Catalogue
  <2>2. CASE AbortServer
    BY <1>1, <2>1, <2>2 DEF AbortServer, RspTyped
  <2>3. CASE ~ AbortServer
    <3>1. PICK status \in {DB_ID_NOT_EXISTED, GMERR_OK} : Refuse(status)
      BY <1>11, <2>3 DEF DMSrGetDbDesc
    <3>2. RspTyped'
      BY <3>1, RefusalTyped DEF Status
    <3> QED BY <1>1, <1>11, <2>1, <2>3, <3>2 DEF DMSrGetDbDesc
  <2> QED BY <2>2, <2>3
<1>12. ASSUME KVCSrvStop PROVE Kept
  <2>1. CatalogueOK' /\ RowsCarried
    BY <1>1, <1>12, SameCatalogue DEF KVCSrvStop, Catalogue
  <2> QED BY <1>1, <1>12, <2>1 DEF KVCSrvStop, RspTyped
<1>13. ASSUME KVCSrvStart PROVE Kept
  <2>1. CatalogueOK'
    <3>1. dbCtrlList' = <<>> /\ g_dbGenNum' = FirstGenNum
      BY <1>13 DEF KVCSrvStart
    <3>2. dbCtrlList' \in Seq(SrDbCtrlT) /\ DbIndex' = {}
      BY <3>1 DEF DbIndex
    <3> QED BY <3>1, <3>2, SimpleRelAssumption
            DEF CatalogueOK, DbId, NamesUnique, IdsIdentify, PagesConsistent
  <2>2. RspTyped'
    BY <1>13, RefusalTyped DEF KVCSrvStart, Status
  <2> QED BY <1>13, <2>1, <2>2 DEF KVCSrvStart
<1>14. ASSUME UNCHANGED vars PROVE Kept
  <2>1. CatalogueOK' /\ RowsCarried
    BY <1>1, <1>14, SameCatalogue DEF vars, Catalogue
  <2> QED BY <1>1, <1>14, <2>1 DEF vars, RspTyped
<1>15. Kept
  BY <1>2, <1>3, <1>4, <1>5, <1>6, <1>7, <1>8, <1>9, <1>10, <1>11, <1>12,
     <1>13, <1>14 DEF Next
<1> QED BY <1>15, CounterTyped DEF IInv, TypeOK, RspTyped, CatalogueOK

\* Every reachable state satisfies the invariant.
THEOREM CatalogueInvariant == Spec => []IInv
BY InitEstablishes, StepKeeps, PTL DEF Spec

\* Every reachable state is well typed: sizes and offsets stay in uint32_t and
\* positions inside their page, whatever schemas ask for.
THEOREM TypeCorrect == Spec => []TypeOK
<1>1. IInv => TypeOK
  BY DEF IInv
<1> QED BY <1>1, CatalogueInvariant, PTL

\* No two databases ever share a name or an id, and no two tables of one
\* database a name, so the searches by name have at most one hit.
THEOREM NamesStayUnique == Spec => []NamesUnique
<1>1. IInv => NamesUnique
  BY DEF IInv
<1> QED BY <1>1, CatalogueInvariant, PTL

\* Ids always identify: a table id belongs to one table of one database, and
\* the next id to be generated is not in use.
THEOREM IdsStayUnique == Spec => []IdsIdentify
<1>1. IInv => IdsIdentify
  BY DEF IInv
<1> QED BY <1>1, CatalogueInvariant, PTL

\* The counters of every page agree with its bytes, always.
THEOREM PagesStayConsistent == Spec => []PagesConsistent
<1>1. IInv => PagesConsistent
  BY DEF IInv
<1> QED BY <1>1, CatalogueInvariant, PTL

\* What is in a table stays in it: rows are only added, behind those there are,
\* and none is written over, for every row size, page and order of requests.
THEOREM RowsAlwaysStay == Spec => RowsStay
<1>1. IInv /\ [Next]_vars => RowsStayInStep
  <2> SUFFICES ASSUME IInv, [Next]_vars, server = "running" PROVE RowsStayInStep
    BY DEF RowsStayInStep
  <2>1. RowsCarried /\ CatalogueOK
    BY StepKeeps, IInvParts
  <2> QED BY <2>1, CarriedInStep
<1> QED BY <1>1, CatalogueInvariant, PTL DEF Spec, RowsStay

-----------------------------------------------------------------------------
(* Vectors as functions from ids.                                          *)

\* A function is known by its domain and its values.
IsFcn(f) == f = [x \in DOMAIN f |-> f[x]]

TableOf(label) ==
  [name |-> label.labelName, fields |-> label.properties, rows |-> Rows(label.heapRow)]

TablesOf(list) ==
  [t \in {list[k].labelId : k \in 1 .. Len(list)} |->
     TableOf(list[FirstIndex(list, LAMBDA l : l.labelId = t)])]

DbOf(db) == [name |-> db.dbName, tables |-> TablesOf(db.labelCtrlList)]

StoreOf(list) ==
  [d \in {list[i].dbId : i \in 1 .. Len(list)} |->
     DbOf(list[FirstIndex(list, LAMBDA db : db.dbId = d)])]

LabelsDiffer(list) ==
  \A k, l \in 1 .. Len(list) : list[k].labelId = list[l].labelId => k = l

DbsDiffer(list) ==
  \A i, j \in 1 .. Len(list) : list[i].dbId = list[j].dbId => i = j

LEMMA StoreIs ==
  /\ StoreNow = StoreOf(dbCtrlList)
  /\ StoreNow' = StoreOf(dbCtrlList')
<1>1. StoreNow = StoreOf(dbCtrlList)
  BY DEF StoreNow, Tables, Label, LabelIndex, Db, DbIndex, DmGetDbCtrlByDbId,
         DmGetLabelCtrlByLabelId, StoreOf, DbOf, TablesOf, TableOf
<1>2. (StoreNow = StoreOf(dbCtrlList))'
  BY <1>1, PTL
<1> QED BY <1>1, <1>2

\* The values, by index.
LEMMA TablesEntries ==
  ASSUME NEW list, Len(list) \in Nat, LabelsDiffer(list)
  PROVE  /\ IsFcn(TablesOf(list))
         /\ DOMAIN TablesOf(list) = {list[k].labelId : k \in 1 .. Len(list)}
         /\ \A k \in 1 .. Len(list) : TablesOf(list)[list[k].labelId] = TableOf(list[k])
<1>1. ASSUME NEW k \in 1 .. Len(list)
      PROVE  FirstIndex(list, LAMBDA l : l.labelId = list[k].labelId) = k
  <2> DEFINE hits == {i \in 1 .. Len(list) : list[i].labelId = list[k].labelId}
  <2>1. hits = {k}
    BY DEF LabelsDiffer
  <2>2. (CHOOSE i \in hits : \A j \in hits : i <= j) \in hits
    BY <2>1, LeastChosen, hits \subseteq 1 .. Len(list)
  <2> QED BY <2>1, <2>2 DEF FirstIndex
<1> QED BY <1>1 DEF TablesOf, IsFcn

LEMMA StoreEntries ==
  ASSUME NEW list, Len(list) \in Nat, DbsDiffer(list)
  PROVE  /\ IsFcn(StoreOf(list))
         /\ DOMAIN StoreOf(list) = {list[i].dbId : i \in 1 .. Len(list)}
         /\ \A i \in 1 .. Len(list) : StoreOf(list)[list[i].dbId] = DbOf(list[i])
<1>1. ASSUME NEW k \in 1 .. Len(list)
      PROVE  FirstIndex(list, LAMBDA db : db.dbId = list[k].dbId) = k
  <2> DEFINE hits == {i \in 1 .. Len(list) : list[i].dbId = list[k].dbId}
  <2>1. hits = {k}
    BY DEF DbsDiffer
  <2>2. (CHOOSE i \in hits : \A j \in hits : i <= j) \in hits
    BY <2>1, LeastChosen, hits \subseteq 1 .. Len(list)
  <2> QED BY <2>1, <2>2 DEF FirstIndex
<1> QED BY <1>1 DEF StoreOf, IsFcn

\* And the other way round.
LEMMA TablesFromEntries ==
  ASSUME NEW list, Len(list) \in Nat, LabelsDiffer(list),
         NEW f, IsFcn(f), DOMAIN f = {list[k].labelId : k \in 1 .. Len(list)},
         \A k \in 1 .. Len(list) : f[list[k].labelId] = TableOf(list[k])
  PROVE  TablesOf(list) = f
<1>1. DOMAIN f = DOMAIN TablesOf(list) /\ IsFcn(TablesOf(list))
  BY TablesEntries
<1>2. ASSUME NEW t \in DOMAIN f PROVE f[t] = TablesOf(list)[t]
  <2>1. PICK k \in 1 .. Len(list) : t = list[k].labelId
    OBVIOUS
  <2>2. TablesOf(list)[list[k].labelId] = TableOf(list[k])
    BY TablesEntries
  <2> QED BY <2>1, <2>2
<1> QED BY <1>1, <1>2 DEF IsFcn

LEMMA StoreFromEntries ==
  ASSUME NEW list, Len(list) \in Nat, DbsDiffer(list),
         NEW f, IsFcn(f), DOMAIN f = {list[i].dbId : i \in 1 .. Len(list)},
         \A i \in 1 .. Len(list) : f[list[i].dbId] = DbOf(list[i])
  PROVE  StoreOf(list) = f
<1>1. DOMAIN f = DOMAIN StoreOf(list) /\ IsFcn(StoreOf(list))
  BY StoreEntries
<1>2. ASSUME NEW d \in DOMAIN f PROVE f[d] = StoreOf(list)[d]
  <2>1. PICK i \in 1 .. Len(list) : d = list[i].dbId
    OBVIOUS
  <2>2. StoreOf(list)[list[i].dbId] = DbOf(list[i])
    BY StoreEntries
  <2> QED BY <2>1, <2>2
<1> QED BY <1>1, <1>2 DEF IsFcn

LEMMA EmptyStore ==
  /\ StoreOf(<<>>) = [d \in {} |-> d]
  /\ TablesOf(<<>>) = [d \in {} |-> d]
BY DEF StoreOf, TablesOf

\* An item behind the last is a value more.
LEMMA TablesAppend ==
  ASSUME NEW S, NEW list \in Seq(S), NEW label \in S, LabelsDiffer(list),
         \A k \in 1 .. Len(list) : list[k].labelId # label.labelId
  PROVE  TablesOf(Append(list, label))
           = Store!Extend(TablesOf(list), label.labelId, TableOf(label))
<1>0. PICK n \in Nat : n = Len(list)
  OBVIOUS
<1>1. PICK new : new = Append(list, label) /\ n = Len(list)
  BY <1>0
<1>2. /\ Len(new) = n + 1 /\ new[n + 1] = label
      /\ \A k \in 1 .. n : new[k] = list[k]
  BY <1>1
<1>3. LabelsDiffer(new)
  BY <1>1, <1>2 DEF LabelsDiffer
<1>4. PICK f : f = Store!Extend(TablesOf(list), label.labelId, TableOf(label))
  OBVIOUS
<1>5. PICK old : old = TablesOf(list)
  OBVIOUS
<1>6. /\ DOMAIN old = {list[k].labelId : k \in 1 .. n}
      /\ \A k \in 1 .. n : old[list[k].labelId] = TableOf(list[k])
  BY <1>1, <1>5, TablesEntries
<1>7. /\ IsFcn(f) /\ DOMAIN f = DOMAIN old \cup {label.labelId}
      /\ f[label.labelId] = TableOf(label)
      /\ \A t \in DOMAIN old : t # label.labelId => f[t] = old[t]
  BY <1>4, <1>5 DEF Store!Extend, IsFcn
<1>8. DOMAIN f = {new[k].labelId : k \in 1 .. n + 1}
  <2>1. 1 .. n + 1 = (1 .. n) \cup {n + 1}
    OBVIOUS
  <2>2. \A k \in 1 .. n : new[k].labelId = list[k].labelId
    BY <1>2
  <2>3. new[n + 1].labelId = label.labelId
    BY <1>2
  <2> QED BY SMTT(30), <1>6, <1>7, <2>1, <2>2, <2>3
<1>9. ASSUME NEW k \in 1 .. n + 1 PROVE f[new[k].labelId] = TableOf(new[k])
  <2>1. CASE k = n + 1
    BY <1>2, <1>7, <2>1
  <2>2. CASE k \in 1 .. n
    <3>1. new[k] = list[k] /\ list[k].labelId # label.labelId
      BY <1>1, <1>2, <2>2
    <3>2. list[k].labelId \in DOMAIN old /\ old[list[k].labelId] = TableOf(list[k])
      BY <1>6, <2>2
    <3>3. f[list[k].labelId] = old[list[k].labelId]
      BY <1>7, <3>1, <3>2
    <3> QED BY <3>1, <3>2, <3>3
  <2> QED BY <2>1, <2>2
<1>10. TablesOf(new) = f
  BY <1>2, <1>3, <1>7, <1>8, <1>9, TablesFromEntries
<1> QED BY <1>1, <1>4, <1>10

LEMMA StoreAppend ==
  ASSUME NEW S, NEW list \in Seq(S), NEW db \in S, DbsDiffer(list),
         \A i \in 1 .. Len(list) : list[i].dbId # db.dbId
  PROVE  StoreOf(Append(list, db)) = Store!Extend(StoreOf(list), db.dbId, DbOf(db))
<1>0. PICK n \in Nat : n = Len(list)
  OBVIOUS
<1>1. PICK new : new = Append(list, db) /\ n = Len(list)
  BY <1>0
<1>2. /\ Len(new) = n + 1 /\ new[n + 1] = db
      /\ \A k \in 1 .. n : new[k] = list[k]
  BY <1>1
<1>3. DbsDiffer(new)
  BY <1>1, <1>2 DEF DbsDiffer
<1>4. PICK f : f = Store!Extend(StoreOf(list), db.dbId, DbOf(db))
  OBVIOUS
<1>5. PICK old : old = StoreOf(list)
  OBVIOUS
<1>6. /\ DOMAIN old = {list[k].dbId : k \in 1 .. n}
      /\ \A k \in 1 .. n : old[list[k].dbId] = DbOf(list[k])
  BY <1>1, <1>5, StoreEntries
<1>7. /\ IsFcn(f) /\ DOMAIN f = DOMAIN old \cup {db.dbId}
      /\ f[db.dbId] = DbOf(db)
      /\ \A t \in DOMAIN old : t # db.dbId => f[t] = old[t]
  BY <1>4, <1>5 DEF Store!Extend, IsFcn
<1>8. DOMAIN f = {new[k].dbId : k \in 1 .. n + 1}
  <2>1. 1 .. n + 1 = (1 .. n) \cup {n + 1}
    OBVIOUS
  <2>2. \A k \in 1 .. n : new[k].dbId = list[k].dbId
    BY <1>2
  <2>3. new[n + 1].dbId = db.dbId
    BY <1>2
  <2> QED BY SMTT(30), <1>6, <1>7, <2>1, <2>2, <2>3
<1>9. ASSUME NEW k \in 1 .. n + 1 PROVE f[new[k].dbId] = DbOf(new[k])
  <2>1. CASE k = n + 1
    BY <1>2, <1>7, <2>1
  <2>2. CASE k \in 1 .. n
    <3>1. new[k] = list[k] /\ list[k].dbId # db.dbId
      BY <1>1, <1>2, <2>2
    <3>2. list[k].dbId \in DOMAIN old /\ old[list[k].dbId] = DbOf(list[k])
      BY <1>6, <2>2
    <3>3. f[list[k].dbId] = old[list[k].dbId]
      BY <1>7, <3>1, <3>2
    <3> QED BY <3>1, <3>2, <3>3
  <2> QED BY <2>1, <2>2
<1>10. StoreOf(new) = f
  BY <1>2, <1>3, <1>7, <1>8, <1>9, StoreFromEntries
<1> QED BY <1>1, <1>4, <1>10

\* Removing an item removes its value, and nothing else.
LEMMA StoreRemove ==
  ASSUME NEW S, NEW list \in Seq(S), DbsDiffer(list), NEW d \in 1 .. Len(list)
  PROVE  StoreOf(RemoveItem(list, d))
           = Store!Restrict(StoreOf(list), DOMAIN StoreOf(list) \ {list[d].dbId})
<1> DEFINE from(i) == IF i < d THEN i ELSE i + 1
<1>0. PICK n \in Nat : n = Len(list)
  OBVIOUS
<1>1. d \in 1 .. n /\ n - 1 \in Nat
  BY <1>0
<1>2. PICK new : new = RemoveItem(list, d)
  OBVIOUS
<1>3. new = [k \in 1 .. n - 1 |-> list[from(k)]]
  BY <1>0, <1>2 DEF RemoveItem
<1>4. /\ \A i \in 1 .. n - 1 :
           /\ from(i) \in (1 .. n) \ {d}
           /\ \A j \in 1 .. n - 1 : from(i) = from(j) => i = j
      /\ \A j \in (1 .. n) \ {d} : \E i \in 1 .. n - 1 : from(i) = j
  <2>1. ASSUME NEW j \in (1 .. n) \ {d} PROVE \E i \in 1 .. n - 1 : from(i) = j
    <3>1. CASE j < d
      <4>1. j \in 1 .. n - 1 /\ from(j) = j
        BY <1>1, <3>1
      <4> QED BY <4>1
    <3>2. CASE d < j
      <4>1. j - 1 \in 1 .. n - 1 /\ from(j - 1) = j
        BY <1>1, <3>2
      <4> QED BY <4>1
    <3> QED BY <1>1, <3>1, <3>2
  <2> QED BY <1>1, <2>1
<1> HIDE DEF from
<1>5. new \in Seq(S) /\ Len(new) = n - 1
  BY <1>0, <1>1, <1>3, <1>4
<1>6. \A i \in 1 .. n - 1 : new[i] = list[from(i)]
  BY <1>3
<1>7. DbsDiffer(new)
  <2>1. ASSUME NEW i \in 1 .. n - 1, NEW j \in 1 .. n - 1, new[i].dbId = new[j].dbId
        PROVE  i = j
    <3>1. list[from(i)].dbId = list[from(j)].dbId
      BY <1>6, <2>1
    <3>2. from(i) \in 1 .. n /\ from(j) \in 1 .. n
      BY <1>4
    <3>3. from(i) = from(j)
      BY <1>0, <3>1, <3>2 DEF DbsDiffer
    <3> QED BY <1>4, <3>3
  <2> QED BY <1>5, <2>1 DEF DbsDiffer
<1>8. PICK old : old = StoreOf(list)
  OBVIOUS
<1>9. /\ DOMAIN old = {list[k].dbId : k \in 1 .. n}
      /\ \A k \in 1 .. n : old[list[k].dbId] = DbOf(list[k])
  BY <1>0, <1>8, StoreEntries
<1>10. PICK f : f = Store!Restrict(old, DOMAIN old \ {list[d].dbId})
  OBVIOUS
<1>11. /\ IsFcn(f) /\ DOMAIN f = DOMAIN old \ {list[d].dbId}
       /\ \A t \in DOMAIN f : f[t] = old[t]
  BY <1>10 DEF Store!Restrict, IsFcn
<1>12. \A k \in 1 .. n : list[k].dbId = list[d].dbId => k = d
  BY <1>0, <1>1 DEF DbsDiffer
<1>13. DOMAIN f = {new[i].dbId : i \in 1 .. n - 1}
  <2>1. ASSUME NEW i \in 1 .. n - 1 PROVE new[i].dbId \in DOMAIN f
    BY <1>4, <1>6, <1>9, <1>11, <1>12
  <2>2. ASSUME NEW t \in DOMAIN f PROVE \E i \in 1 .. n - 1 : t = new[i].dbId
    <3>1. PICK k \in 1 .. n : t = list[k].dbId /\ k # d
      BY <1>9, <1>11
    <3>2. PICK i \in 1 .. n - 1 : from(i) = k
      BY <1>4, <3>1
    <3> QED BY <1>6, <3>1, <3>2
  <2> QED BY <2>1, <2>2
<1>14. ASSUME NEW i \in 1 .. n - 1 PROVE f[new[i].dbId] = DbOf(new[i])
  <2>1. new[i] = list[from(i)] /\ from(i) \in 1 .. n
    BY <1>4, <1>6
  <2>2. new[i].dbId \in DOMAIN f
    BY <1>13
  <2> QED BY <1>9, <1>11, <2>1, <2>2
<1>15. StoreOf(new) = f
  <2>1. /\ Len(new) \in Nat /\ IsFcn(f) /\ DOMAIN f = {new[i].dbId : i \in 1 .. Len(new)}
        /\ \A i \in 1 .. Len(new) : f[new[i].dbId] = DbOf(new[i])
    BY <1>1, <1>5, <1>11, <1>13, <1>14
  <2> QED BY <1>7, <2>1, StoreFromEntries
<1> QED BY <1>2, <1>8, <1>10, <1>15

\* A database or a table that keeps its id changes one value.
LEMMA StoreReplace ==
  ASSUME NEW list, NEW n \in Nat, n = Len(list), DbsDiffer(list), NEW d \in 1 .. n,
         NEW new, Len(new) = n, \A i \in 1 .. n : i # d => new[i] = list[i],
         new[d].dbId = list[d].dbId, new[d].dbName = list[d].dbName
  PROVE  StoreOf(new)
           = [StoreOf(list) EXCEPT ![list[d].dbId].tables = TablesOf(new[d].labelCtrlList)]
<1>1. \A i \in 1 .. n : new[i].dbId = list[i].dbId
  OBVIOUS
<1>2. DbsDiffer(new)
  BY <1>1 DEF DbsDiffer
<1>3. PICK old : old = StoreOf(list)
  OBVIOUS
<1>4. /\ DOMAIN old = {list[k].dbId : k \in 1 .. n}
      /\ \A k \in 1 .. n : old[list[k].dbId] = DbOf(list[k])
  BY <1>3, StoreEntries
<1>5. PICK id, tables : id = list[d].dbId /\ tables = TablesOf(new[d].labelCtrlList)
  OBVIOUS
<1>6. PICK f : f = [old EXCEPT ![id].tables = tables]
  OBVIOUS
<1>7. f = [old EXCEPT ![id] = DbOf(new[d])]
  <2>1. old[id] = [name |-> list[d].dbName, tables |-> TablesOf(list[d].labelCtrlList)]
    BY <1>4, <1>5 DEF DbOf
  <2>2. [old[id] EXCEPT !.tables = tables] = DbOf(new[d])
    BY <1>5, <2>1 DEF DbOf
  <2> QED BY <1>6, <2>2
<1>8. /\ IsFcn(f) /\ DOMAIN f = DOMAIN old
      /\ id \in DOMAIN old /\ f[id] = DbOf(new[d])
      /\ \A t \in DOMAIN old : t # id => f[t] = old[t]
  BY <1>4, <1>5, <1>7 DEF IsFcn
<1>9. DOMAIN f = {new[i].dbId : i \in 1 .. n}
  BY SMTT(30), <1>1, <1>4, <1>8
<1>10. ASSUME NEW i \in 1 .. n PROVE f[new[i].dbId] = DbOf(new[i])
  <2>1. CASE i = d
    BY <1>1, <1>5, <1>8, <2>1
  <2>2. CASE i # d
    <3>1. list[i].dbId # id /\ new[i] = list[i] /\ list[i].dbId \in DOMAIN old
      BY <1>4, <1>5, <2>2 DEF DbsDiffer
    <3>2. f[list[i].dbId] = old[list[i].dbId]
      BY <1>8, <3>1
    <3>3. old[list[i].dbId] = DbOf(list[i])
      BY <1>4
    <3> QED BY <3>1, <3>2, <3>3
  <2> QED BY <2>1, <2>2
<1>11. StoreOf(new) = f
  BY <1>2, <1>8, <1>9, <1>10, StoreFromEntries
<1> QED BY <1>3, <1>5, <1>6, <1>11

LEMMA TablesReplace ==
  ASSUME NEW list, NEW n \in Nat, n = Len(list), LabelsDiffer(list), NEW l \in 1 .. n,
         NEW new, Len(new) = n, \A k \in 1 .. n : k # l => new[k] = list[k],
         new[l].labelId = list[l].labelId, new[l].labelName = list[l].labelName,
         new[l].properties = list[l].properties
  PROVE  TablesOf(new)
           = [TablesOf(list) EXCEPT ![list[l].labelId].rows = Rows(new[l].heapRow)]
<1>1. \A k \in 1 .. n : new[k].labelId = list[k].labelId
  OBVIOUS
<1>2. LabelsDiffer(new)
  BY <1>1 DEF LabelsDiffer
<1>3. PICK old : old = TablesOf(list)
  OBVIOUS
<1>4. /\ DOMAIN old = {list[k].labelId : k \in 1 .. n}
      /\ \A k \in 1 .. n : old[list[k].labelId] = TableOf(list[k])
  BY <1>3, TablesEntries
<1>5. PICK id, rows : id = list[l].labelId /\ rows = Rows(new[l].heapRow)
  OBVIOUS
<1>6. PICK f : f = [old EXCEPT ![id].rows = rows]
  OBVIOUS
<1>7. f = [old EXCEPT ![id] = TableOf(new[l])]
  <2>1. old[id] = [name |-> list[l].labelName, fields |-> list[l].properties,
                   rows |-> Rows(list[l].heapRow)]
    BY <1>4, <1>5 DEF TableOf
  <2>2. [old[id] EXCEPT !.rows = rows] = TableOf(new[l])
    BY <1>5, <2>1 DEF TableOf
  <2> QED BY <1>6, <2>2
<1>8. /\ IsFcn(f) /\ DOMAIN f = DOMAIN old
      /\ id \in DOMAIN old /\ f[id] = TableOf(new[l])
      /\ \A t \in DOMAIN old : t # id => f[t] = old[t]
  BY <1>4, <1>5, <1>7 DEF IsFcn
<1>9. DOMAIN f = {new[k].labelId : k \in 1 .. n}
  BY <1>1, <1>4, <1>8
<1>10. ASSUME NEW k \in 1 .. n PROVE f[new[k].labelId] = TableOf(new[k])
  <2>1. CASE k = l
    BY <1>1, <1>5, <1>8, <2>1
  <2>2. CASE k # l
    <3>1. list[k].labelId # id /\ new[k] = list[k] /\ list[k].labelId \in DOMAIN old
      BY <1>4, <1>5, <2>2 DEF LabelsDiffer
    <3>2. f[list[k].labelId] = old[list[k].labelId]
      BY <1>8, <3>1
    <3>3. old[list[k].labelId] = TableOf(list[k])
      BY <1>4
    <3> QED BY <3>1, <3>2, <3>3
  <2> QED BY <2>1, <2>2
<1>11. TablesOf(new) = f
  BY <1>2, <1>8, <1>9, <1>10, TablesFromEntries
<1> QED BY <1>3, <1>5, <1>6, <1>11

\* Another list of tables for one database, and another page for one table.
WithLabels(list, d, labels) == [list EXCEPT ![d].labelCtrlList = labels]

WithPage(list, l, heap) == [list EXCEPT ![l].heapRow = heap]

WithTables(store, id, tables) == [store EXCEPT ![id].tables = tables]

WithRows(tables, id, rows) == [tables EXCEPT ![id].rows = rows]

LEMMA StoreWithLabels ==
  ASSUME NEW list \in Seq(SrDbCtrlT), DbsDiffer(list), NEW d \in 1 .. Len(list),
         NEW labels \in Seq(SrLabelT),
         NEW new, new = WithLabels(list, d, labels)
  PROVE  StoreOf(new) = WithTables(StoreOf(list), list[d].dbId, TablesOf(labels))
<1>1. PICK n \in Nat : n = Len(list)
  OBVIOUS
<1>2. PICK item : item = [list[d] EXCEPT !.labelCtrlList = labels]
  OBVIOUS
<1>3. /\ item \in SrDbCtrlT
      /\ item.dbId = list[d].dbId /\ item.dbName = list[d].dbName
      /\ item.labelCtrlList = labels
  <2>1. list[d] \in SrDbCtrlT
    OBVIOUS
  <2> QED BY <1>2, <2>1 DEF SrDbCtrlT
<1>4. new = [list EXCEPT ![d] = item]
  BY <1>2 DEF WithLabels
<1>5. Len(new) = Len(list)
      /\ \A i \in 1 .. Len(list) : new[i] = IF i = d THEN item ELSE list[i]
  BY ONLY list \in Seq(SrDbCtrlT), d \in 1 .. Len(list), <1>3, <1>4, ItemReplaced
<1>6. /\ d \in 1 .. n /\ Len(new) = n
      /\ \A i \in 1 .. n : i # d => new[i] = list[i]
      /\ new[d] = item
  BY <1>1, <1>5
<1>7. /\ n \in Nat /\ n = Len(list) /\ d \in 1 .. n /\ Len(new) = n
      /\ new[d].dbId = list[d].dbId /\ new[d].dbName = list[d].dbName
      /\ new[d].labelCtrlList = labels
  BY <1>1, <1>3, <1>6
<1>8. StoreOf(new)
        = [StoreOf(list) EXCEPT ![list[d].dbId].tables = TablesOf(new[d].labelCtrlList)]
  BY ONLY DbsDiffer(list), <1>6, <1>7, StoreReplace
<1> QED BY <1>7, <1>8 DEF WithTables

LEMMA TablesWithPage ==
  ASSUME NEW list \in Seq(SrLabelT), LabelsDiffer(list), NEW l \in 1 .. Len(list),
         NEW heap \in FixedHeapT,
         NEW new, new = WithPage(list, l, heap)
  PROVE  /\ new \in Seq(SrLabelT)
         /\ TablesOf(new) = WithRows(TablesOf(list), list[l].labelId, Rows(heap))
<1>1. PICK n \in Nat : n = Len(list)
  OBVIOUS
<1>2. PICK item : item = [list[l] EXCEPT !.heapRow = heap]
  OBVIOUS
<1>3. /\ item \in SrLabelT
      /\ item.labelId = list[l].labelId /\ item.labelName = list[l].labelName
      /\ item.properties = list[l].properties /\ item.heapRow = heap
  <2>1. list[l] \in SrLabelT
    OBVIOUS
  <2> QED BY <1>2, <2>1 DEF SrLabelT
<1>4. new = [list EXCEPT ![l] = item]
  BY <1>2 DEF WithPage
<1>5. /\ new \in Seq(SrLabelT) /\ Len(new) = Len(list)
      /\ \A k \in 1 .. Len(list) : new[k] = IF k = l THEN item ELSE list[k]
  BY ONLY list \in Seq(SrLabelT), l \in 1 .. Len(list), <1>3, <1>4, ItemReplaced
<1>6. /\ l \in 1 .. n /\ Len(new) = n
      /\ \A k \in 1 .. n : k # l => new[k] = list[k]
      /\ new[l] = item
  BY <1>1, <1>5
<1>7. /\ n \in Nat /\ n = Len(list) /\ l \in 1 .. n /\ Len(new) = n
      /\ new[l].labelId = list[l].labelId /\ new[l].labelName = list[l].labelName
      /\ new[l].properties = list[l].properties /\ new[l].heapRow = heap
  BY <1>1, <1>3, <1>6
<1>8. TablesOf(new) = [TablesOf(list) EXCEPT ![list[l].labelId].rows = Rows(new[l].heapRow)]
  BY ONLY LabelsDiffer(list), <1>6, <1>7, TablesReplace
<1> QED BY <1>5, <1>7, <1>8 DEF WithRows

\* The rows of a page after one more has been put behind them.
LEMMA RowAppended ==
  ASSUME NEW heap \in FixedHeapT, HeapConsistent(heap), HasRoom(heap),
         NEW rowBuf \in Row(heap.rowSize),
         NEW new, new = SEFixedHeapInsertRow(heap, rowBuf)
  PROVE  Rows(new) = Append(Rows(heap), rowBuf)
<1>1. /\ heap.rowCnt \in Nat /\ heap.rowSize \in Nat /\ heap.currPos \in Nat
      /\ heap.page \in [PageByte -> Byte \cup {Garbage}]
      /\ heap.currPos = heap.rowCnt * heap.rowSize
      /\ heap.currPos + heap.rowSize <= SE_HEAP_PAGE_SIZE /\ SE_HEAP_PAGE_SIZE \in Nat
  BY PageAssumption DEF FixedHeapT, HeapConsistent, HasRoom
<1>2. PICK n, size : n = heap.rowCnt /\ size = heap.rowSize /\ n \in Nat /\ size \in Nat
  BY <1>1
<1>3. /\ new.rowCnt = n + 1 /\ new.rowSize = size
      /\ new.page = [k \in PageByte |->
           IF heap.currPos <= k /\ k < heap.currPos + size
             THEN rowBuf[k - heap.currPos] ELSE heap.page[k]]
  BY <1>2 DEF SEFixedHeapInsertRow
<1>4. RowAt(new, n + 1) = rowBuf
  <2>0. PICK i : i = n + 1
    OBVIOUS
  <2>1. (i - 1) * size = heap.currPos
    <3>1. i - 1 = n
      BY <1>2, <2>0
    <3> QED BY <1>1, <1>2, <3>1
  <2>2. ASSUME NEW k \in 0 .. size - 1 PROVE new.page[heap.currPos + k] = rowBuf[k]
    <3>1. PICK p \in Nat : p = heap.currPos /\ p + size <= SE_HEAP_PAGE_SIZE
      BY <1>1, <1>2
    <3>2. k \in Nat /\ k < size
      BY <1>2
    <3>3. p + k \in PageByte /\ p <= p + k /\ p + k < p + size /\ (p + k) - p = k
      BY ONLY <1>2, <3>1, <3>2, PageAssumption DEF PageByte
    <3> QED BY <1>3, <3>1, <3>3
  <2>3. rowBuf = [k \in 0 .. size - 1 |-> rowBuf[k]]
    BY <1>2 DEF Row
  <2>4. RowAt(new, i) = [k \in 0 .. size - 1 |-> new.page[(i - 1) * size + k]]
    BY <1>3 DEF RowAt
  <2>5. RowAt(new, i) = [k \in 0 .. size - 1 |-> new.page[heap.currPos + k]]
    BY ONLY <2>1, <2>4
  <2> QED BY <2>0, <2>2, <2>3, <2>5
<1>5. RowsKept(heap, new)
  BY InsertKeepsRows
<1>6. /\ Len(Rows(heap)) = n /\ Len(Rows(new)) = n + 1
      /\ \A r \in 1 .. n : Rows(new)[r] = Rows(heap)[r]
      /\ Rows(new)[n + 1] = rowBuf
  BY <1>2, <1>3, <1>4, <1>5, RowsCounted DEF RowsKept
<1> DEFINE S == {rowBuf} \cup {RowAt(heap, r) : r \in 1 .. n} \cup {RowAt(new, r) : r \in 1 .. n + 1}
<1>7. Rows(heap) \in Seq(S) /\ Rows(new) \in Seq(S) /\ rowBuf \in S
  BY SMTT(30), <1>2, <1>3 DEF Rows
<1> HIDE DEF S
<1>8. PICK t : t = Append(Rows(heap), rowBuf)
  OBVIOUS
<1>9. /\ t \in Seq(S) /\ Len(t) = n + 1
      /\ \A r \in 1 .. n : t[r] = Rows(heap)[r]
      /\ t[n + 1] = rowBuf
  BY <1>2, <1>6, <1>7, <1>8, AppendProperties
<1>10. Rows(new) = t
  <2>1. 1 .. n + 1 = (1 .. n) \cup {n + 1}
    BY <1>2
  <2>2. Len(Rows(new)) = Len(t) /\ \A r \in 1 .. Len(t) : Rows(new)[r] = t[r]
    BY <1>6, <1>9, <2>1
  <2> QED BY <1>7, <1>9, <2>2, SeqEqual
<1> QED BY <1>8, <1>10

-----------------------------------------------------------------------------
(* What a well-formed catalogue stands for, seen from outside.             *)

LEMMA StoreKnown ==
  ASSUME CatalogueOK
  PROVE  /\ DbsDiffer(dbCtrlList)
         /\ IsFcn(StoreNow)
         /\ DOMAIN StoreNow = {Db(i).dbId : i \in DbIndex}
         /\ \A i \in DbIndex :
              /\ StoreNow[Db(i).dbId].name = Db(i).dbName
              /\ StoreNow[Db(i).dbId].tables = TablesOf(Db(i).labelCtrlList)
<1>1. DbsDiffer(dbCtrlList)
  BY DEF CatalogueOK, NamesUnique, DbsDiffer, DbIndex, Db
<1>2. Len(dbCtrlList) \in Nat
  BY EntriesTyped
<1>3. /\ IsFcn(StoreNow)
      /\ DOMAIN StoreNow = {Db(i).dbId : i \in DbIndex}
      /\ \A i \in DbIndex : StoreNow[Db(i).dbId] = DbOf(Db(i))
  BY <1>1, <1>2, StoreEntries, StoreIs DEF Db, DbIndex
<1>4. \A i \in DbIndex :
        /\ DbOf(Db(i)).name = Db(i).dbName
        /\ DbOf(Db(i)).tables = TablesOf(Db(i).labelCtrlList)
  BY DEF DbOf
<1> QED BY <1>1, <1>3, <1>4

LEMMA TablesKnown ==
  ASSUME CatalogueOK, NEW d \in DbIndex
  PROVE  LET tables == TablesOf(Db(d).labelCtrlList)
         IN  /\ LabelsDiffer(Db(d).labelCtrlList)
             /\ IsFcn(tables)
             /\ DOMAIN tables = {Label(d, k).labelId : k \in LabelIndex(d)}
             /\ \A k \in LabelIndex(d) :
                  tables[Label(d, k).labelId] = TableOf(Label(d, k))
<1>1. LabelsDiffer(Db(d).labelCtrlList)
  BY DEF CatalogueOK, IdsIdentify, LabelsDiffer, LabelIndex, Label, Db
<1>2. Len(Db(d).labelCtrlList) \in Nat
  BY EntriesTyped
<1> QED BY <1>1, <1>2, TablesEntries DEF Label, LabelIndex, Db

\* What the searches find is what the store has under these names and ids.
LEMMA NamesAgree ==
  ASSUME CatalogueOK, server = "running", NEW dbName
  PROVE  IsDbNameExist(dbName) <=> Store!NameInUse(dbName)
<1>1. IsDbNameExist(dbName) <=> \E i \in DbIndex : Db(i).dbName = dbName
  BY DbByNameFound, EntriesTyped DEF IsDbNameExist, DbIndex
<1>2. Store!NameInUse(dbName) <=> \E d \in DOMAIN StoreNow : StoreNow[d].name = dbName
  BY DEF Store!NameInUse, running
<1> QED BY <1>1, <1>2, StoreKnown

LEMMA TableNamesAgree ==
  ASSUME CatalogueOK, server = "running", NEW d \in DbIndex, NEW labelName
  PROVE  IsLabelNameExist(d, labelName) <=> Store!TableNameInUse(Db(d).dbId, labelName)
<1>1. IsLabelNameExist(d, labelName)
        <=> \E k \in LabelIndex(d) : Label(d, k).labelName = labelName
  BY DEF IsLabelNameExist, LabelIndex, Label, Db
<1>2. Store!TableNameInUse(Db(d).dbId, labelName)
        <=> \E t \in DOMAIN StoreNow[Db(d).dbId].tables :
              StoreNow[Db(d).dbId].tables[t].name = labelName
  BY DEF Store!TableNameInUse, running
<1>3. StoreNow[Db(d).dbId].tables = TablesOf(Db(d).labelCtrlList)
  BY StoreKnown
<1>4. \A k \in LabelIndex(d) : TableOf(Label(d, k)).name = Label(d, k).labelName
  BY DEF TableOf
<1> DEFINE tables == TablesOf(Db(d).labelCtrlList)
<1>5. Store!TableNameInUse(Db(d).dbId, labelName)
        <=> \E t \in DOMAIN tables : tables[t].name = labelName
  BY <1>2, <1>3
<1>6. /\ DOMAIN tables = {Label(d, k).labelId : k \in LabelIndex(d)}
      /\ \A k \in LabelIndex(d) : tables[Label(d, k).labelId] = TableOf(Label(d, k))
  BY TablesKnown
<1> HIDE DEF tables
<1> QED BY <1>1, <1>4, <1>5, <1>6

LEMMA IdsAgree ==
  ASSUME CatalogueOK, server = "running", NEW dbId
  PROVE  LET d == DmGetDbCtrlByDbId(dbId)
         IN  /\ d = 0 <=> dbId \notin DOMAIN StoreNow
             /\ d # 0 => d \in DbIndex /\ Db(d).dbId = dbId
<1>1. 0 \notin DbIndex
  BY EntriesTyped DEF DbIndex
<1> QED BY <1>1, DbByDbIdFound, EntriesTyped, StoreKnown

LEMMA TableIdsAgree ==
  ASSUME CatalogueOK, server = "running", NEW d \in DbIndex, NEW labelId
  PROVE  LET l == DmGetLabelCtrlByLabelId(d, labelId)
         IN  /\ l = 0 <=> labelId \notin DOMAIN StoreNow[Db(d).dbId].tables
             /\ l # 0 => /\ l \in LabelIndex(d) /\ Label(d, l).labelId = labelId
                         /\ StoreNow[Db(d).dbId].tables[labelId] = TableOf(Label(d, l))
<1>1. StoreNow[Db(d).dbId].tables = TablesOf(Db(d).labelCtrlList)
  BY StoreKnown
<1>2. Len(Db(d).labelCtrlList) \in Nat /\ 0 \notin LabelIndex(d)
  BY EntriesTyped DEF LabelIndex
<1> DEFINE tables == TablesOf(Db(d).labelCtrlList)
           l == DmGetLabelCtrlByLabelId(d, labelId)
<1>3. /\ DOMAIN tables = {Label(d, k).labelId : k \in LabelIndex(d)}
      /\ \A k \in LabelIndex(d) : tables[Label(d, k).labelId] = TableOf(Label(d, k))
  BY TablesKnown
<1>4. \/ l \in LabelIndex(d) /\ Label(d, l).labelId = labelId
      \/ l = 0 /\ \A k \in LabelIndex(d) : Label(d, k).labelId # labelId
  BY <1>2, LabelFound
<1>5. StoreNow[Db(d).dbId].tables = tables
  BY <1>1
<1> HIDE DEF tables, l
<1>6. l = 0 <=> labelId \notin DOMAIN tables
  BY <1>2, <1>3, <1>4
<1>7. l # 0 => /\ l \in LabelIndex(d) /\ Label(d, l).labelId = labelId
               /\ tables[labelId] = TableOf(Label(d, l))
  BY <1>3, <1>4
<1> QED BY <1>5, <1>6, <1>7 DEF l

-----------------------------------------------------------------------------
(* Requests that leave the catalogue as it is.                             *)

\* Both modules write answers alike.
LEMMA SameWords ==
  /\ \A status, id, fields : Store!Answer(status, id, fields) = Answer(status, id, fields)
  /\ Store!NoId = NoId
  /\ Store!GMERR_OK = GMERR_OK
  /\ Store!INDETERMINATE = INDETERMINATE
  /\ Store!NAME_EXISTED = NAME_EXISTED
  /\ Store!NAME_NOT_EXISTED = NAME_NOT_EXISTED
  /\ Store!DB_ID_NOT_EXISTED = DB_ID_NOT_EXISTED
  /\ Store!LABEL_ID_NOT_EXISTED = LABEL_ID_NOT_EXISTED
  /\ Store!LABEL_NAME_EXISTED = LABEL_NAME_EXISTED
  /\ Store!BadNameStatus = BadNameStatus
  /\ Store!BadSchemaStatus = BadSchemaStatus
<1>1. \A status, id, fields : Store!Answer(status, id, fields) = Answer(status, id, fields)
  BY DEF Answer, Store!Answer
<1>2. Store!NoId = NoId /\ Store!GMERR_OK = GMERR_OK /\ Store!INDETERMINATE = INDETERMINATE
  BY DEF NoId, Store!NoId, GMERR_OK, Store!GMERR_OK, INDETERMINATE, Store!INDETERMINATE
<1>3. /\ Store!NAME_EXISTED = NAME_EXISTED
      /\ Store!NAME_NOT_EXISTED = NAME_NOT_EXISTED
      /\ Store!DB_ID_NOT_EXISTED = DB_ID_NOT_EXISTED
      /\ Store!LABEL_ID_NOT_EXISTED = LABEL_ID_NOT_EXISTED
      /\ Store!LABEL_NAME_EXISTED = LABEL_NAME_EXISTED
  BY DEF NAME_EXISTED, Store!NAME_EXISTED, NAME_NOT_EXISTED, Store!NAME_NOT_EXISTED,
         DB_ID_NOT_EXISTED, Store!DB_ID_NOT_EXISTED, LABEL_ID_NOT_EXISTED,
         Store!LABEL_ID_NOT_EXISTED, LABEL_NAME_EXISTED, Store!LABEL_NAME_EXISTED
<1>4. Store!BadNameStatus = BadNameStatus
  BY DEF BadNameStatus, Store!BadNameStatus, NAME_NULL, Store!NAME_NULL,
         NAME_TOO_LONG, Store!NAME_TOO_LONG
<1>5. Store!BadSchemaStatus = BadSchemaStatus
  BY DEF BadSchemaStatus, Store!BadSchemaStatus, LABEL_JSON_NULL,
         Store!LABEL_JSON_NULL, FIELDS_OUTRANGE, Store!FIELDS_OUTRANGE,
         JSON_LIB_ERROR, Store!JSON_LIB_ERROR, NOT_SUPPORT, Store!NOT_SUPPORT
<1> QED BY <1>1, <1>2, <1>3, <1>4, <1>5

LEMMA RunningStore ==
  ASSUME server = "running"
  PROVE  (IF running THEN StoreNow ELSE [d \in {} |-> d]) = StoreNow
BY DEF running

LEMMA RefusalRefuses ==
  ASSUME UNCHANGED <<server, Catalogue>>, NEW status, Refuse(status)
  PROVE  Store!Refuse(status)
<1>1. dbCtrlList' = dbCtrlList /\ g_dbGenNum' = g_dbGenNum /\ running' = running
  BY DEF Catalogue, running
<1>2. StoreNow' = StoreNow
  BY <1>1, StoreIs
<1>3. Store!Say(status)
  BY SameWords DEF Refuse, Store!Say
<1> QED BY <1>1, <1>2, <1>3 DEF Store!Refuse

LEMMA LookupRefusal ==
  ASSUME IInv, NEW dbId, NEW labelId, LookupFails(dbId, labelId)
  PROVE  Store!UnknownDb(dbId) \/ Store!UnknownTable(dbId, labelId)
<1>1. CatalogueOK /\ server = "running"
  BY IInvParts DEF LookupFails, ByDbId
<1>2. Store!Refuse(LookupStatus(dbId, labelId))
  BY RefusalRefuses DEF LookupFails
<1> DEFINE d == DmGetDbCtrlByDbId(dbId)
<1>3. CASE d = 0
  <2>1. dbId \notin DOMAIN StoreNow
    BY <1>1, <1>3, IdsAgree
  <2>2. LookupStatus(dbId, labelId) = DB_ID_NOT_EXISTED
    BY <1>3 DEF LookupStatus
  <2> QED BY <1>1, <1>2, <2>1, <2>2, SameWords DEF Store!UnknownDb, running
<1>4. CASE d # 0
  <2>1. d \in DbIndex /\ Db(d).dbId = dbId /\ dbId \in DOMAIN StoreNow
    BY <1>1, <1>4, IdsAgree
  <2>2. /\ DmGetLabelCtrlByLabelId(d, labelId) = 0
        /\ LookupStatus(dbId, labelId) = LABEL_ID_NOT_EXISTED
    BY <1>4 DEF LookupStatus, LookupFails
  <2>3. labelId \notin DOMAIN StoreNow[dbId].tables
    BY <1>1, <2>1, <2>2, TableIdsAgree
  <2> QED BY <1>1, <1>2, <2>1, <2>2, <2>3, SameWords DEF Store!UnknownTable, running
<1> QED BY <1>3, <1>4

LEMMA CrashIsCrash ==
  ASSUME server = "running", AbortServer
  PROVE  Store!Crash
<1>1. server' = "aborted" /\ ~ running' /\ rsp' = rsp
  BY DEF AbortServer, running
<1>2. (running /\ g_srDbCtrlManager)' = FALSE
  BY <1>1
<1> QED BY <1>1, <1>2 DEF Store!Crash, Store!Lose, Store!EmptyFcn

\* Reading the page of a table leaves it only when its rows are unreadable.
LEMMA LeavesUnreadable ==
  ASSUME NEW label \in SrLabelT, HeapConsistent(label.heapRow),
         label.heapRow.rowSize = RowSize(label.properties), TraceLeavesPage(label)
  PROVE  UnreadableRows(label.properties, Rows(label.heapRow))
<1>1. PICK heap, size, cnt :
        heap = label.heapRow /\ size = heap.rowSize /\ cnt = heap.rowCnt
  OBVIOUS
<1>2. /\ heap \in FixedHeapT /\ size \in Nat /\ cnt \in Nat /\ heap.currPos \in Nat
      /\ heap.currPos = cnt * size /\ heap.currPos <= SE_HEAP_PAGE_SIZE
      /\ SE_HEAP_PAGE_SIZE \in Nat /\ size = RowSize(label.properties)
  BY <1>1, PageAssumption DEF SrLabelT, FixedHeapT, HeapConsistent
<1>3. Len(Rows(heap)) = cnt /\ \A r \in 1 .. cnt : Rows(heap)[r] = RowAt(heap, r)
  BY <1>1, <1>2, RowsCounted
<1>4. PICK i \in 1 .. cnt, j \in 1 .. Len(label.properties) :
        LET at == (i - 1) * size + label.properties[j].fldOffset IN
          IF label.properties[j].fieldType = FieldType("string")
            THEN \A k \in PageByte : at <= k => heap.page[k] # NUL
            ELSE at + INT_SIZE > SE_HEAP_PAGE_SIZE
  BY <1>1 DEF TraceLeavesPage
<1>5. PICK start, at :
        /\ start = (i - 1) * size
        /\ at = start + label.properties[j].fldOffset
        /\ IF label.properties[j].fieldType = FieldType("string")
             THEN \A k \in PageByte : at <= k => heap.page[k] # NUL
             ELSE at + INT_SIZE > SE_HEAP_PAGE_SIZE
  BY <1>4
<1>6. ASSUME NEW r \in 1 .. cnt, NEW k \in 0 .. size - 1, NEW rowStart,
             rowStart = (r - 1) * size, at <= rowStart + k,
             label.properties[j].fieldType = FieldType("string")
      PROVE  Rows(heap)[r][k] # NUL
  <2>1. r - 1 \in Nat /\ r - 1 < cnt
    BY <1>2
  <2>2. rowStart \in Nat /\ rowStart + size <= cnt * size
    BY <1>2, <1>6, <2>1, RowsApart
  <2>3. rowStart + k \in PageByte
    BY <1>2, <2>2 DEF PageByte
  <2>4. Rows(heap)[r] = [q \in 0 .. heap.rowSize - 1 |-> heap.page[(r - 1) * heap.rowSize + q]]
    BY <1>3 DEF RowAt
  <2>5. Rows(heap)[r] = [q \in 0 .. size - 1 |-> heap.page[rowStart + q]]
    BY <1>1, <1>6, <2>4
  <2> QED BY <1>5, <1>6, <2>3, <2>5
<1>7. \A r \in 1 .. cnt, k \in 0 .. size - 1 :
        label.properties[j].fieldType = FieldType("string")
          => (at <= (r - 1) * size + k => Rows(heap)[r][k] # NUL)
  BY <1>6
<1>8. i \in 1 .. Len(Rows(heap)) /\ at = (i - 1) * size + label.properties[j].fldOffset
  BY <1>3, <1>4, <1>5
<1> QED BY <1>1, <1>2, <1>3, <1>4, <1>5, <1>7, <1>8 DEF UnreadableRows

\* A description of a known database is answered, or the server dies of a table
\* that is unreadable.
LEMMA DescriptionDescribes ==
  ASSUME IInv, NEW dbId, DMSrGetDbDesc(dbId)
  PROVE  /\ ~ AbortServer => UNCHANGED <<server, g_srDbCtrlManager>>
         /\ ~ AbortServer /\ dbId \notin DOMAIN StoreNow => Store!UnknownDb(dbId)
         /\ ~ AbortServer /\ dbId \in DOMAIN StoreNow => Store!DescribeDb(dbId)
         /\ AbortServer => dbId \in DOMAIN StoreNow /\ Store!DescriptionCrashes(dbId)
<1>1. CatalogueOK /\ server = "running"
  BY IInvParts DEF DMSrGetDbDesc, ByDbId
<1>2. PICK d : d = DmGetDbCtrlByDbId(dbId)
  OBVIOUS
<1>3. /\ d = 0 <=> dbId \notin DOMAIN StoreNow
      /\ d # 0 => d \in DbIndex /\ Db(d).dbId = dbId
  BY <1>1, <1>2, IdsAgree
<1>4. ASSUME ~ AbortServer
      PROVE  /\ UNCHANGED <<server, g_srDbCtrlManager, Catalogue>>
             /\ Refuse(IF d = 0 THEN DB_ID_NOT_EXISTED ELSE GMERR_OK)
  BY <1>2, <1>4 DEF DMSrGetDbDesc
<1>5. ASSUME ~ AbortServer, d = 0
      PROVE  Store!UnknownDb(dbId)
  <2>1. Store!Refuse(DB_ID_NOT_EXISTED)
    BY <1>4, <1>5, RefusalRefuses
  <2> QED BY <1>1, <1>3, <1>5, <2>1, SameWords DEF Store!UnknownDb, running
<1>6. ASSUME ~ AbortServer, d # 0
      PROVE  Store!DescribeDb(dbId)
  <2>1. Store!Refuse(GMERR_OK)
    BY <1>4, <1>6, RefusalRefuses
  <2> QED BY <2>1, SameWords DEF Store!DescribeDb
<1>7. ASSUME AbortServer
      PROVE  dbId \in DOMAIN StoreNow /\ Store!DescriptionCrashes(dbId)
  <2>1. server' = "aborted"
    BY <1>7 DEF AbortServer
  <2>2. /\ d # 0
        /\ \E l \in 1 .. Len(dbCtrlList[d].labelCtrlList) :
             TraceLeavesPage(dbCtrlList[d].labelCtrlList[l])
    BY <1>1, <1>2, <2>1 DEF DMSrGetDbDesc
  <2>3. PICK l \in LabelIndex(d) : TraceLeavesPage(Label(d, l))
    BY <2>2 DEF LabelIndex, Label, Db
  <2>4. d \in DbIndex /\ Db(d).dbId = dbId /\ dbId \in DOMAIN StoreNow
    BY <1>3, <2>2
  <2>5. /\ Label(d, l) \in SrLabelT /\ HeapConsistent(Label(d, l).heapRow)
        /\ Label(d, l).heapRow.rowSize = RowSize(Label(d, l).properties)
    BY <1>1, <2>3, <2>4, EntriesTyped DEF CatalogueOK, PagesConsistent
  <2>6. UnreadableRows(Label(d, l).properties, Rows(Label(d, l).heapRow))
    BY <2>3, <2>5, LeavesUnreadable
  <2>7. /\ Label(d, l).labelId \in DOMAIN StoreNow[dbId].tables
        /\ StoreNow[dbId].tables[Label(d, l).labelId] = TableOf(Label(d, l))
    BY <1>1, <2>3, <2>4, StoreKnown, TablesKnown
  <2>8. \E t \in DOMAIN StoreNow[dbId].tables :
          UnreadableRows(StoreNow[dbId].tables[t].fields, StoreNow[dbId].tables[t].rows)
    BY <2>6, <2>7 DEF TableOf
  <2>9. Store!Undescribable(dbId)
    BY <1>1, <2>8, RunningStore DEF Store!Undescribable
  <2> QED BY <1>1, <1>7, <2>4, <2>9, CrashIsCrash DEF Store!DescriptionCrashes
<1> QED BY <1>3, <1>4, <1>5, <1>6, <1>7

\* A request that finds its table finds the one the store has.
LEMMA LookupAgrees ==
  ASSUME CatalogueOK, server = "running", NEW dbId, NEW labelId,
         LookupStatus(dbId, labelId) = GMERR_OK
  PROVE  LET d == DmGetDbCtrlByDbId(dbId)
             l == DmGetLabelCtrlByLabelId(d, labelId)
         IN  /\ d \in DbIndex /\ Db(d).dbId = dbId
             /\ l \in LabelIndex(d) /\ Label(d, l).labelId = labelId
             /\ dbId \in DOMAIN StoreNow
             /\ labelId \in DOMAIN StoreNow[dbId].tables
             /\ StoreNow[dbId].tables[labelId] = TableOf(Label(d, l))
<1> DEFINE d == DmGetDbCtrlByDbId(dbId)
           l == DmGetLabelCtrlByLabelId(d, labelId)
<1>1. d # 0 /\ l # 0
  BY DEF LookupStatus, DB_ID_NOT_EXISTED, LABEL_ID_NOT_EXISTED, GMERR_OK
<1>2. d \in DbIndex /\ Db(d).dbId = dbId /\ dbId \in DOMAIN StoreNow
  BY <1>1, IdsAgree
<1> QED BY <1>1, <1>2, TableIdsAgree

LEMMA QueryQueries ==
  ASSUME IInv, NEW dbId, NEW labelId, DMSrQueryTable(dbId, labelId)
  PROVE  /\ Store!QueryTable(dbId, labelId)
         /\ dbId \in DOMAIN StoreNow
         /\ labelId \in DOMAIN StoreNow[dbId].tables
<1>1. CatalogueOK /\ server = "running"
  BY IInvParts DEF DMSrQueryTable, ByDbId
<1> DEFINE d == DmGetDbCtrlByDbId(dbId)
           l == DmGetLabelCtrlByLabelId(d, labelId)
<1>2. /\ dbId \in DOMAIN StoreNow /\ labelId \in DOMAIN StoreNow[dbId].tables
      /\ StoreNow[dbId].tables[labelId] = TableOf(Label(d, l))
  BY <1>1, LookupAgrees DEF DMSrQueryTable
<1>3. rsp' = Answer(GMERR_OK, NoId, StoreNow[dbId].tables[labelId].fields)
  BY <1>2 DEF DMSrQueryTable, TableOf, Label
<1>4. dbCtrlList' = dbCtrlList /\ g_dbGenNum' = g_dbGenNum /\ running' = running
  BY DEF DMSrQueryTable, Catalogue, running
<1>5. StoreNow' = StoreNow
  BY <1>4, StoreIs
<1> QED BY <1>1, <1>2, <1>3, <1>4, <1>5, RunningStore, SameWords DEF Store!QueryTable

-----------------------------------------------------------------------------
(* Requests that change the catalogue.                                     *)

\* Ids that have been given out stay given out, the next one is free, and it
\* counts as given out in the next state.
LEMMA NumberTaken ==
  ASSUME CatalogueOK, g_dbGenNum' = g_dbGenNum + 1
  PROVE  /\ GenSrDbId \in DbId \ {id \in DbId : id < g_dbGenNum}
         /\ {id \in DbId : id < g_dbGenNum} \cup {GenSrDbId}
              \subseteq {id \in DbId : id < g_dbGenNum'}
         /\ GenSrTableId \in TableId \ {id \in TableId : id < TABLE_ID_DIFF + g_dbGenNum}
         /\ {id \in TableId : id < TABLE_ID_DIFF + g_dbGenNum} \cup {GenSrTableId}
              \subseteq {id \in TableId : id < TABLE_ID_DIFF + g_dbGenNum'}
<1>1. PICK m \in Nat : m = g_dbGenNum
  BY CounterTyped DEF CatalogueOK
<1>2. DbId \subseteq Nat /\ TableId \subseteq Nat /\ TABLE_ID_DIFF \in Nat
  BY CounterTyped, SimpleRelAssumption
<1>3. GenSrDbId = m /\ m \in DbId /\ GenSrTableId = TABLE_ID_DIFF + m
      /\ TABLE_ID_DIFF + m \in TableId
  BY <1>1, CounterTyped DEF CatalogueOK, GenSrDbId, GenSrTableId
<1>4. ~ (m < m) /\ m < m + 1 /\ \A id \in Nat : id < m => id < m + 1
  OBVIOUS
<1>5. LET o == TABLE_ID_DIFF
      IN  /\ ~ (o + m < o + m) /\ o + m < o + (m + 1)
          /\ \A id \in Nat : id < o + m => id < o + (m + 1)
  BY <1>2
<1>6. g_dbGenNum' = m + 1
  BY <1>1
<1>7. GenSrDbId \in DbId \ {id \in DbId : id < g_dbGenNum}
  BY <1>1, <1>3, <1>4
<1>8. {id \in DbId : id < g_dbGenNum} \cup {GenSrDbId} \subseteq {id \in DbId : id < g_dbGenNum'}
  BY <1>1, <1>2, <1>3, <1>4, <1>6
<1>9. GenSrTableId \in TableId \ {id \in TableId : id < TABLE_ID_DIFF + g_dbGenNum}
  BY <1>1, <1>3, <1>5
<1>10. {id \in TableId : id < TABLE_ID_DIFF + g_dbGenNum} \cup {GenSrTableId}
         \subseteq {id \in TableId : id < TABLE_ID_DIFF + g_dbGenNum'}
  BY <1>1, <1>2, <1>3, <1>5, <1>6
<1> QED BY <1>7, <1>8, <1>9, <1>10

LEMMA CreateDbCreates ==
  ASSUME IInv, NEW dbName \in DbName, DMSrCreateDb(dbName)
  PROVE  Store!CreateDb(dbName)
<1>1. CatalogueOK /\ server = "running" /\ server' = "running"
  BY IInvParts DEF DMSrCreateDb
<1>2. (running /\ g_srDbCtrlManager)' = TRUE
  BY <1>1 DEF DMSrCreateDb, running
<1>3. CASE IsDbNameExist(dbName)
  <2>1. Refuse(NAME_EXISTED) /\ UNCHANGED <<server, Catalogue>>
    BY <1>3 DEF DMSrCreateDb
  <2>2. Store!Refuse(NAME_EXISTED)
    BY <2>1, RefusalRefuses
  <2> QED BY <1>1, <1>2, <1>3, <2>2, NamesAgree, SameWords DEF Store!CreateDb
<1>4. CASE ~ IsDbNameExist(dbName)
  <2> DEFINE new == [dbName |-> dbName, dbId |-> GenSrDbId, labelCtrlList |-> <<>>]
             made == [name |-> dbName, tables |-> Store!EmptyFcn]
  <2>1. /\ g_dbGenNum' = g_dbGenNum + 1
        /\ dbCtrlList' = Append(dbCtrlList, new)
        /\ rsp' = Answer(GMERR_OK, GenSrDbId, <<>>)
    BY <1>4 DEF DMSrCreateDb, AppendDbCtrl
  <2>2. dbCtrlList \in Seq(SrDbCtrlT) /\ new \in SrDbCtrlT
    BY <1>1, CounterTyped, EmptySeq DEF CatalogueOK, SrDbCtrlT
  <2>3. \A i \in 1 .. Len(dbCtrlList) : dbCtrlList[i].dbId # new.dbId
    BY <1>1, EntriesTyped, CounterTyped
       DEF CatalogueOK, IdsIdentify, DbIndex, Db, GenSrDbId, SrDbCtrlT
  <2>4. DbOf(new) = made
    BY EmptyStore DEF DbOf, Store!EmptyFcn
  <2> HIDE DEF new, made
  <2>5. StoreNow' = Store!Extend(StoreNow, new.dbId, made)
    BY <1>1, <2>1, <2>2, <2>3, <2>4, StoreAppend, StoreKnown, StoreIs
  <2>6. new.dbId = GenSrDbId
    BY DEF new
  <2>7. ~ Store!NameInUse(dbName)
    BY <1>1, <1>4, NamesAgree
  <2> QED
    BY <1>1, <1>2, <2>1, <2>5, <2>6, <2>7, NumberTaken, SameWords
       DEF Store!CreateDb, running, made
<1> QED BY <1>3, <1>4

LEMMA DropDbDrops ==
  ASSUME IInv, NEW dbName \in DbName, DMSrDropDb(dbName)
  PROVE  Store!DropDb(dbName)
<1>1. CatalogueOK /\ server = "running" /\ server' = "running"
  BY IInvParts DEF DMSrDropDb
<1>2. (running /\ g_srDbCtrlManager)' = TRUE
  BY <1>1 DEF DMSrDropDb, running
<1>3. CASE ~ IsDbNameExist(dbName)
  <2>1. Refuse(NAME_NOT_EXISTED) /\ UNCHANGED <<server, Catalogue>>
    BY <1>3 DEF DMSrDropDb, Catalogue
  <2>2. Store!Refuse(NAME_NOT_EXISTED)
    BY <2>1, RefusalRefuses
  <2> QED BY <1>1, <1>2, <1>3, <2>2, NamesAgree, SameWords DEF Store!DropDb
<1>4. CASE IsDbNameExist(dbName)
  <2>1. PICK d \in DbIndex : d = DmGetDbCtrlByName(dbName) /\ Db(d).dbName = dbName
    BY <1>1, <1>4, DbByNameFound, EntriesTyped DEF IsDbNameExist
  <2>2. dbCtrlList' = RemoveItem(dbCtrlList, d) /\ g_dbGenNum' = g_dbGenNum
        /\ Refuse(GMERR_OK)
    BY <1>4, <2>1 DEF DMSrDropDb
  <2>3. StoreNow' = Store!Restrict(StoreNow, DOMAIN StoreNow \ {Db(d).dbId})
    BY <1>1, <2>2, StoreRemove, StoreKnown, StoreIs DEF CatalogueOK, DbIndex, Db
  <2>4. Db(d).dbId \in DOMAIN StoreNow /\ StoreNow[Db(d).dbId].name = dbName
    BY <1>1, <2>1, StoreKnown
  <2> QED BY <1>1, <1>2, <2>2, <2>3, <2>4, SameWords
          DEF Store!DropDb, Store!Say, Refuse, running
<1> QED BY <1>3, <1>4

LEMMA BadSchemas ==
  ASSUME NEW json, ParseStatus(json) # GMERR_OK
  PROVE  ParseStatus(json) \in BadSchemaStatus
BY DEF ParseStatus, FieldStatus, JsonStatus, BadSchemaStatus

\* What DMSrCreateTable does is what the store does for the same database,
\* name and fields.
CreatesOrRefuses(dbId, json) ==
  \/ Store!UnknownDb(dbId)
  \/ dbId \in DOMAIN StoreNow /\ Store!CreateTableRefused(dbId)
  \/ /\ dbId \in DOMAIN StoreNow
     /\ json.labelName \in LabelName /\ json # NoJson /\ ParseStatus(json) = GMERR_OK
     /\ \E fields \in Properties(ParsedFields(json)) :
          Store!CreateTable(dbId, json.labelName, fields)

LEMMA CreateTableCreates ==
  ASSUME IInv, NEW dbId \in DbId, NEW json \in Json, DMSrCreateTable(dbId, json)
  PROVE  CreatesOrRefuses(dbId, json)
<1> DEFINE d == DmGetDbCtrlByDbId(dbId)
<1>1. /\ CatalogueOK /\ server = "running" /\ server' = "running"
      /\ d = 0 <=> dbId \notin DOMAIN StoreNow
      /\ d # 0 => d \in DbIndex /\ Db(d).dbId = dbId
  BY IInvParts, IdsAgree DEF DMSrCreateTable, ByDbId
<1>2. CASE CreateTableStatus(dbId, json) # GMERR_OK
  <2>1. Refuse(CreateTableStatus(dbId, json)) /\ UNCHANGED <<server, Catalogue>>
    BY <1>2 DEF DMSrCreateTable
  <2>2. Store!Refuse(CreateTableStatus(dbId, json))
    BY <2>1, RefusalRefuses
  <2>3. CASE d = 0
    <3>1. CreateTableStatus(dbId, json) = DB_ID_NOT_EXISTED
      BY <2>3 DEF CreateTableStatus
    <3> QED BY <1>1, <2>2, <2>3, <3>1, SameWords
            DEF Store!UnknownDb, running, CreatesOrRefuses
  <2>4. CASE d # 0 /\ (json = NoJson \/ ParseStatus(json) # GMERR_OK)
    <3>1. CreateTableStatus(dbId, json) \in BadSchemaStatus
      BY <2>4, BadSchemas DEF CreateTableStatus, BadSchemaStatus
    <3> QED BY <1>1, <2>2, <2>4, <3>1, SameWords
            DEF Store!CreateTableRefused, CreatesOrRefuses
  <2>5. CASE d # 0 /\ json # NoJson /\ ParseStatus(json) = GMERR_OK
    <3>1. /\ CreateTableStatus(dbId, json) = LABEL_NAME_EXISTED
          /\ IsLabelNameExist(d, json.labelName)
      BY <1>2, <2>5 DEF CreateTableStatus
    <3>2. json.labelName \in LabelName
      BY <2>5, AcceptedSchema
    <3>3. Store!TableNameInUse(dbId, json.labelName)
      BY <1>1, <2>5, <3>1, TableNamesAgree
    <3> QED BY <1>1, <2>2, <2>5, <3>1, <3>2, <3>3, SameWords
            DEF Store!CreateTableRefused, CreatesOrRefuses
  <2> QED BY <2>3, <2>4, <2>5
<1>3. CASE CreateTableStatus(dbId, json) = GMERR_OK
  <2>1. /\ d # 0 /\ json # NoJson /\ ParseStatus(json) = GMERR_OK
        /\ ~ IsLabelNameExist(d, json.labelName)
    BY <1>3 DEF CreateTableStatus, DB_ID_NOT_EXISTED, LABEL_JSON_NULL,
                LABEL_NAME_EXISTED, GMERR_OK
  <2>2. PICK properties \in Properties(ParsedFields(json)) :
          dbCtrlList' =
            [dbCtrlList EXCEPT ![d].labelCtrlList =
               Append(@, NewLabel(dbId, json, properties))]
    BY <1>3 DEF DMSrCreateTable, AppendLabel
  <2>3. g_dbGenNum' = g_dbGenNum + 1 /\ rsp' = Answer(GMERR_OK, GenSrTableId, <<>>)
    BY <1>3 DEF DMSrCreateTable, AppendLabel
  <2>4. PICK new : new = NewLabel(dbId, json, properties)
    OBVIOUS
  <2>5. new \in SrLabelT /\ new.labelId = GenSrTableId /\ new.dbId = dbId
    BY <1>1, <1>3, <2>1, <2>4, NewLabelTyped
  <2>6. PICK i, list : i = d /\ list = Db(d).labelCtrlList
    OBVIOUS
  <2>7. /\ i \in 1 .. Len(dbCtrlList) /\ dbCtrlList[i].dbId = dbId
        /\ list \in Seq(SrLabelT) /\ LabelsDiffer(list)
        /\ dbCtrlList \in Seq(SrDbCtrlT) /\ DbsDiffer(dbCtrlList)
        /\ dbCtrlList[i].labelCtrlList = list
    <3>1. list \in Seq(SrLabelT)
      BY <1>1, <2>1, <2>6, EntriesTyped DEF SrDbCtrlT
    <3> QED BY <1>1, <2>1, <2>6, <3>1, StoreKnown, TablesKnown
            DEF CatalogueOK, DbIndex, Db
  <2>8. Append(list, new) \in Seq(SrLabelT)
    BY <2>5, <2>7
  <2>9. dbCtrlList' = WithLabels(dbCtrlList, i, Append(list, new))
    BY <2>2, <2>4, <2>6, <2>7 DEF WithLabels
  <2>10. \A k \in 1 .. Len(list) : list[k].labelId # new.labelId
    <3> TAKE k \in 1 .. Len(list)
    <3>1. d \in DbIndex /\ k \in LabelIndex(d) /\ Label(d, k) = list[k]
      BY <1>1, <2>1, <2>6 DEF LabelIndex, Label, Db
    <3>2. Label(d, k).labelId \in Nat
      BY <1>1, <3>1, EntriesTyped, CounterTyped DEF SrLabelT
    <3>3. Label(d, k).labelId < GenSrTableId
      BY <1>1, <3>1 DEF CatalogueOK, IdsIdentify, GenSrTableId
    <3>4. GenSrTableId \in Nat
      BY <1>1, CounterTyped DEF CatalogueOK
    <3> QED BY <2>5, <3>1, <3>2, <3>3, <3>4
  <2>11. TableOf(new) = [name |-> json.labelName, fields |-> properties, rows |-> <<>>]
    BY <2>4 DEF TableOf, NewLabel, SEFixedHeapInit, Rows
  <2>12. TablesOf(Append(list, new))
           = Store!Extend(TablesOf(list), GenSrTableId,
                          [name |-> json.labelName, fields |-> properties, rows |-> <<>>])
    BY <2>5, <2>7, <2>10, <2>11, TablesAppend
  <2>13. StoreNow[dbId].tables = TablesOf(list)
    BY <1>1, <2>1, <2>6, StoreKnown
  <2>14. StoreNow' = WithTables(StoreNow, dbId, TablesOf(Append(list, new)))
    BY <2>7, <2>8, <2>9, StoreWithLabels, StoreIs
  <2>15. StoreNow' =
           [StoreNow EXCEPT ![dbId].tables =
              Store!Extend(@, GenSrTableId,
                [name |-> json.labelName, fields |-> properties, rows |-> <<>>])]
    BY <2>12, <2>13, <2>14 DEF WithTables
  <2>16. ~ Store!TableNameInUse(dbId, json.labelName)
    BY <1>1, <2>1, TableNamesAgree
  <2>17. Store!CreateTable(dbId, json.labelName, properties)
    BY <1>1, <2>3, <2>15, <2>16, NumberTaken, SameWords
       DEF Store!CreateTable, running
  <2>18. json.labelName \in LabelName
    BY <2>1, AcceptedSchema
  <2> QED BY <1>1, <2>1, <2>17, <2>18 DEF CreatesOrRefuses
<1> QED BY <1>2, <1>3

\* A table is full for the store when its page has no room for a row.
LEMMA FullIsNoRoom ==
  ASSUME CatalogueOK, server = "running", NEW d \in DbIndex, NEW l \in LabelIndex(d)
  PROVE  /\ Store!Full(Db(d).dbId, Label(d, l).labelId) <=> ~ HasRoom(Label(d, l).heapRow)
         /\ Label(d, l).heapRow \in FixedHeapT
         /\ HeapConsistent(Label(d, l).heapRow)
         /\ Label(d, l).heapRow.rowSize = RowSize(Label(d, l).properties)
<1>1. PICK heap : heap = Label(d, l).heapRow
  OBVIOUS
<1>2. /\ heap \in FixedHeapT /\ HeapConsistent(heap)
      /\ heap.rowSize = RowSize(Label(d, l).properties)
  BY <1>1, EntriesTyped DEF SrLabelT, CatalogueOK, PagesConsistent
<1>3. PICK n, size, pos \in Nat :
        n = heap.rowCnt /\ size = heap.rowSize /\ pos = heap.currPos
  BY <1>2, PageAssumption DEF FixedHeapT
<1>4. pos = n * size /\ Len(Rows(heap)) = n
  BY <1>2, <1>3, RowsCounted DEF HeapConsistent
<1>5. StoreNow[Db(d).dbId].tables[Label(d, l).labelId] = TableOf(Label(d, l))
  BY StoreKnown, TablesKnown
<1>6. Store!Full(Db(d).dbId, Label(d, l).labelId)
        <=> (n + 1) * size > SE_HEAP_PAGE_SIZE
  <2>1. /\ TableOf(Label(d, l)).rows = Rows(heap)
        /\ TableOf(Label(d, l)).fields = Label(d, l).properties
    BY <1>1 DEF TableOf
  <2>2. Store!Full(Db(d).dbId, Label(d, l).labelId)
          <=> (Len(TableOf(Label(d, l)).rows) + 1) * RowSize(TableOf(Label(d, l)).fields)
                > SE_HEAP_PAGE_SIZE
    BY <1>5, RunningStore DEF Store!Full
  <2> QED BY <1>2, <1>3, <1>4, <2>1, <2>2
<1>7. (n + 1) * size = n * size + size
  BY <1>3
<1>8. HasRoom(heap) <=> pos + size <= SE_HEAP_PAGE_SIZE
  BY <1>3 DEF HasRoom
<1>9. pos + size > SE_HEAP_PAGE_SIZE <=> ~ (pos + size <= SE_HEAP_PAGE_SIZE)
  BY <1>3, PageAssumption
<1> QED BY <1>1, <1>2, <1>4, <1>6, <1>7, <1>8, <1>9

LEMMA InsertInserts ==
  ASSUME IInv, NEW dbId \in DbId, NEW labelId \in TableId,
         DMSrInsertData(dbId, labelId)
  PROVE  /\ dbId \in DOMAIN StoreNow
         /\ labelId \in DOMAIN StoreNow[dbId].tables
         /\ \/ Store!InsertData(dbId, labelId) /\ server' = server
               /\ (running /\ g_srDbCtrlManager)' = (running /\ g_srDbCtrlManager)
            \/ Store!Overflow(dbId, labelId)
<1>1. CatalogueOK /\ server = "running" /\ LookupStatus(dbId, labelId) = GMERR_OK
  BY IInvParts DEF DMSrInsertData, ByDbId
<1>2. PICK d, l, heap : /\ d = DmGetDbCtrlByDbId(dbId)
                        /\ l = DmGetLabelCtrlByLabelId(d, labelId)
                        /\ heap = dbCtrlList[d].labelCtrlList[l].heapRow
  OBVIOUS
<1>3. /\ d \in DbIndex /\ Db(d).dbId = dbId
      /\ l \in LabelIndex(d) /\ Label(d, l).labelId = labelId
      /\ dbId \in DOMAIN StoreNow
      /\ labelId \in DOMAIN StoreNow[dbId].tables
      /\ StoreNow[dbId].tables[labelId] = TableOf(Label(d, l))
  BY <1>1, <1>2, LookupAgrees
<1>4. heap = Label(d, l).heapRow
  BY <1>2 DEF Label
<1>5. /\ Store!Full(dbId, labelId) <=> ~ HasRoom(heap)
      /\ heap \in FixedHeapT /\ HeapConsistent(heap)
      /\ heap.rowSize = RowSize(Label(d, l).properties)
  BY <1>1, <1>3, <1>4, FullIsNoRoom
<1>6. CASE ~ HasRoom(heap)
  <2>1. AbortServer
    BY <1>2, <1>6 DEF DMSrInsertData
  <2> QED BY <1>1, <1>3, <1>5, <1>6, <2>1, CrashIsCrash DEF Store!Overflow
<1>7. CASE HasRoom(heap)
  <2>1. PICK rowBuf \in Row(heap.rowSize) :
          dbCtrlList' = [dbCtrlList EXCEPT ![d].labelCtrlList[l].heapRow =
                           SEFixedHeapInsertRow(@, rowBuf)]
    BY <1>2, <1>7 DEF DMSrInsertData
  <2>2. UNCHANGED <<server, g_srDbCtrlManager, g_dbGenNum>> /\ Refuse(GMERR_OK)
    BY <1>2, <1>7 DEF DMSrInsertData
  <2>3. PICK new : new = SEFixedHeapInsertRow(heap, rowBuf)
    OBVIOUS
  <2>4. new \in FixedHeapT /\ Rows(new) = Append(Rows(heap), rowBuf)
    BY <1>5, <1>7, <2>3, InsertConsistent, RowAppended
  <2>5. PICK list, labels : list = Db(d).labelCtrlList /\ labels = WithPage(list, l, new)
    OBVIOUS
  <2>6. /\ d \in 1 .. Len(dbCtrlList) /\ dbCtrlList[d].dbId = dbId
        /\ list \in Seq(SrLabelT) /\ LabelsDiffer(list)
        /\ l \in 1 .. Len(list) /\ list[l].labelId = labelId
        /\ dbCtrlList \in Seq(SrDbCtrlT) /\ DbsDiffer(dbCtrlList)
        /\ dbCtrlList[d].labelCtrlList = list
    <3>1. list \in Seq(SrLabelT)
      BY <1>1, <1>3, <2>5, EntriesTyped DEF SrDbCtrlT
    <3> QED BY <1>1, <1>3, <2>5, <3>1, StoreKnown, TablesKnown
            DEF CatalogueOK, DbIndex, LabelIndex, Label, Db
  <2>7. dbCtrlList' = WithLabels(dbCtrlList, d, labels)
    BY <1>2, <2>1, <2>3, <2>5, <2>6 DEF WithLabels, WithPage
  <2>8. /\ labels \in Seq(SrLabelT)
        /\ TablesOf(labels) = WithRows(TablesOf(list), labelId, Rows(new))
    BY <2>4, <2>5, <2>6, TablesWithPage
  <2>9. StoreNow' = WithTables(StoreNow, dbId, TablesOf(labels))
    BY <2>6, <2>7, <2>8, StoreWithLabels, StoreIs
  <2>10. /\ StoreNow[dbId].tables = TablesOf(list)
         /\ TablesOf(list)[labelId].rows = Rows(heap)
    BY <1>1, <1>3, <1>4, <2>5, StoreKnown DEF TableOf
  <2>11. StoreNow' = [StoreNow EXCEPT ![dbId].tables[labelId].rows = Append(@, rowBuf)]
    BY <2>4, <2>8, <2>9, <2>10 DEF WithTables, WithRows
  <2>12. rowBuf \in Row(RowSize(StoreNow[dbId].tables[labelId].fields))
    BY <1>3, <1>5 DEF TableOf
  <2>13. Store!InsertData(dbId, labelId)
    BY <1>1, <1>5, <1>7, <2>2, <2>11, <2>12, SameWords
       DEF Store!InsertData, Store!Say, Refuse, running
  <2>14. (running /\ g_srDbCtrlManager)' = (running /\ g_srDbCtrlManager)
    BY <2>2 DEF running
  <2> QED BY <1>3, <2>2, <2>13, <2>14
<1> QED BY <1>6, <1>7

-----------------------------------------------------------------------------
(* Every step is a step of the store.                                      *)

LEMMA EmptyCatalogueStore ==
  /\ dbCtrlList = <<>> => StoreNow = [d \in {} |-> d]
  /\ dbCtrlList' = <<>> => StoreNow' = [d \in {} |-> d]
BY EmptyStore, StoreIs

LEMMA NothingUsedYet ==
  /\ {id \in DbId : id < FirstGenNum} = {}
  /\ {id \in TableId : id < TABLE_ID_DIFF + FirstGenNum} = {}
BY SimpleRelAssumption DEF DbId, TableId

LEMMA InitIsInit == Init => Store!Init
<1> SUFFICES ASSUME Init PROVE Store!Init
  OBVIOUS
<1>1. (running /\ g_srDbCtrlManager) = FALSE
  BY DEF Init
<1>2. running /\ StoreNow = [d \in {} |-> d]
  BY EmptyCatalogueStore DEF Init, running
<1> QED BY <1>1, <1>2, NothingUsedYet, SameWords DEF Init, Store!Init, Store!EmptyFcn

\* A request by id that stays in the running server.
StoreById ==
  \/ \E d \in DbId : \/ Store!UnknownDb(d)
                     \/ \E t \in TableId : Store!UnknownTable(d, t)
  \/ \E d \in DOMAIN StoreNow :
       \/ Store!DescribeDb(d)
       \/ Store!CreateTableRefused(d)
       \/ \E name \in LabelName, fields \in TableFields :
            Store!CreateTable(d, name, fields)
       \/ \E t \in DOMAIN StoreNow[d].tables :
            Store!QueryTable(d, t) \/ Store!InsertData(d, t)

LEMMA ByIdIsNext ==
  ASSUME ByDbId, UNCHANGED <<server, g_srDbCtrlManager>>, StoreById
  PROVE  Store!Next
<1>1. server = "running" /\ running /\ g_srDbCtrlManager /\ server' = server
  BY DEF ByDbId, running
<1>2. (running /\ g_srDbCtrlManager)' = (running /\ g_srDbCtrlManager)
  BY DEF running
<1>3. Store!ById
  BY <1>1, <1>2, RunningStore DEF StoreById, Store!ById
<1> QED BY <1>1, <1>3 DEF Store!Next, Store!Request

LEMMA IgnoredIsNext ==
  ASSUME server = "running", NEW status \in BadNameStatus \cup {INDETERMINATE},
         Refuse(status), UNCHANGED <<server, g_srDbCtrlManager, Catalogue>>
  PROVE  Store!Next
<1>1. Store!Refuse(status)
  BY RefusalRefuses
<1>2. (running /\ g_srDbCtrlManager)' = (running /\ g_srDbCtrlManager)
  BY DEF running
<1>3. Store!Ignore
  BY <1>1, <1>2, SameWords DEF Store!Ignore
<1> QED BY <1>3 DEF Store!Next, Store!Request

LEMMA StepIsStep ==
  ASSUME IInv, [Next]_vars
  PROVE  [Store!Next]_(Store!vars)
<1>1. ASSUME NEW dbName \in DbName, DMSrCreateDb(dbName) \/ DMSrDropDb(dbName)
      PROVE  Store!Next
  <2>1. server = "running" /\ server' = server
    BY <1>1 DEF DMSrCreateDb, DMSrDropDb
  <2>2. Store!CreateDb(dbName) \/ Store!DropDb(dbName)
    BY <1>1, CreateDbCreates, DropDbDrops
  <2> QED BY <2>1, <2>2 DEF Store!Next, Store!Request
<1>2. ASSUME NEW status \in BadNameStatus, BadDbArgs(status)
      PROVE  Store!Next
  BY <1>2, IgnoredIsNext DEF BadDbArgs
<1>3. ASSUME NoManager
      PROVE  Store!Next
  <2>1. server = "running" /\ Store!Crash
    BY <1>3, CrashIsCrash DEF NoManager
  <2>2. ~ (running /\ g_srDbCtrlManager)
    BY <1>3 DEF NoManager
  <2> QED BY <2>1, <2>2 DEF Store!Next, Store!Abort, Store!TooEarly
<1>4. ASSUME NoHandler
      PROVE  Store!Next
  BY <1>4, IgnoredIsNext DEF NoHandler
<1>5. ASSUME NEW dbId \in DbId, NEW json \in Json, DMSrCreateTable(dbId, json)
      PROVE  Store!Next
  <2>1. ByDbId /\ UNCHANGED <<server, g_srDbCtrlManager>>
    BY <1>5 DEF DMSrCreateTable
  <2>2. CreatesOrRefuses(dbId, json)
    BY <1>5, CreateTableCreates
  <2>3. json # NoJson /\ ParseStatus(json) = GMERR_OK
          => Properties(ParsedFields(json)) \subseteq TableFields
    BY DEF TableFields
  <2>4. StoreById
    BY <2>2, <2>3 DEF CreatesOrRefuses, StoreById
  <2> QED BY <2>1, <2>4, ByIdIsNext
<1>6. ASSUME NEW dbId \in DbId, NEW labelId \in TableId, LookupFails(dbId, labelId)
      PROVE  Store!Next
  <2>1. ByDbId /\ UNCHANGED <<server, g_srDbCtrlManager>>
    BY <1>6 DEF LookupFails
  <2>2. StoreById
    BY <1>6, LookupRefusal DEF StoreById
  <2> QED BY <2>1, <2>2, ByIdIsNext
<1>7. ASSUME NEW dbId \in DbId, NEW labelId \in TableId, DMSrInsertData(dbId, labelId)
      PROVE  Store!Next
  <2>1. ByDbId /\ server = "running" /\ running
    BY <1>7 DEF DMSrInsertData, ByDbId, running
  <2>2. /\ dbId \in DOMAIN StoreNow /\ labelId \in DOMAIN StoreNow[dbId].tables
        /\ \/ Store!InsertData(dbId, labelId) /\ server' = server
               /\ (running /\ g_srDbCtrlManager)' = (running /\ g_srDbCtrlManager)
           \/ Store!Overflow(dbId, labelId)
    BY <1>7, InsertInserts
  <2>3. CASE Store!Overflow(dbId, labelId)
    BY <2>1, <2>2, <2>3, RunningStore DEF Store!Next, Store!Abort
  <2>4. CASE Store!InsertData(dbId, labelId) /\ server' = server
               /\ (running /\ g_srDbCtrlManager)' = (running /\ g_srDbCtrlManager)
    <3>1. Store!ById
      BY <2>1, <2>2, <2>4, RunningStore DEF Store!ById, ByDbId
    <3> QED BY <2>1, <2>4, <3>1 DEF Store!Next, Store!Request
  <2> QED BY <2>2, <2>3, <2>4
<1>8. ASSUME NEW dbId \in DbId, NEW labelId \in TableId, DMSrQueryTable(dbId, labelId)
      PROVE  Store!Next
  <2>1. ByDbId /\ UNCHANGED <<server, g_srDbCtrlManager>>
    BY <1>8 DEF DMSrQueryTable
  <2>2. /\ Store!QueryTable(dbId, labelId)
        /\ dbId \in DOMAIN StoreNow /\ labelId \in DOMAIN StoreNow[dbId].tables
    BY <1>8, QueryQueries
  <2>3. StoreById
    BY <2>2 DEF StoreById
  <2> QED BY <2>1, <2>3, ByIdIsNext
<1>9. ASSUME NEW dbId \in DbId, DMSrGetDbDesc(dbId)
      PROVE  Store!Next
  <2>1. ByDbId /\ server = "running" /\ running
    BY <1>9 DEF DMSrGetDbDesc, ByDbId, running
  <2>2. CASE ~ AbortServer
    <3>1. UNCHANGED <<server, g_srDbCtrlManager>> /\ StoreById
      BY <1>9, <2>2, DescriptionDescribes DEF StoreById
    <3> QED BY <2>1, <3>1, ByIdIsNext
  <2>3. CASE AbortServer
    <3>1. dbId \in DOMAIN StoreNow /\ Store!DescriptionCrashes(dbId)
      BY <1>9, <2>3, DescriptionDescribes
    <3> QED BY <2>1, <3>1, RunningStore DEF Store!Next, Store!Abort
  <2> QED BY <2>2, <2>3
<1>10. ASSUME KVCSrvStop
       PROVE  Store!Next
  <2>1. server = "running" /\ server' = "stopped" /\ ~ running' /\ rsp' = rsp
    BY <1>10 DEF KVCSrvStop, running
  <2>2. (running /\ g_srDbCtrlManager)' = FALSE
    BY <2>1
  <2> QED BY <2>1, <2>2 DEF Store!Next, Store!Stop, Store!Lose, Store!EmptyFcn
<1>11. ASSUME KVCSrvStart
       PROVE  Store!Next
  <2>1. /\ server # "running" /\ server' = "running" /\ ~ running /\ running'
        /\ ~ g_srDbCtrlManager' /\ dbCtrlList' = <<>> /\ g_dbGenNum' = FirstGenNum
        /\ Refuse(GMERR_OK)
    BY <1>11 DEF KVCSrvStart, running
  <2>2. (running /\ g_srDbCtrlManager)' = (running /\ g_srDbCtrlManager)
    BY <2>1
  <2>3. StoreNow' = [d \in {} |-> d]
    BY <2>1, EmptyCatalogueStore
  <2> QED BY <2>1, <2>2, <2>3, NothingUsedYet, SameWords
          DEF Store!Next, Store!Start, Store!Say, Refuse
<1>12. ASSUME UNCHANGED vars
       PROVE  UNCHANGED Store!vars
  <2>1. dbCtrlList' = dbCtrlList /\ g_dbGenNum' = g_dbGenNum /\ running' = running
        /\ server' = server /\ rsp' = rsp /\ g_srDbCtrlManager' = g_srDbCtrlManager
    BY <1>12 DEF vars, running
  <2>2. StoreNow' = StoreNow
    BY <2>1, StoreIs
  <2> QED BY <2>1, <2>2 DEF Store!vars
<1> QED BY <1>1, <1>2, <1>3, <1>4, <1>5, <1>6, <1>7, <1>8, <1>9, <1>10, <1>11, <1>12
        DEF Next

LEMMA RequestIsRequest ==
  ASSUME IInv
  PROVE  HandlerImplementsRequest
<1>1. ASSUME NEW dbId \in DbId, NEW json \in Json, DMSrCreateTable(dbId, json)
      PROVE  \/ Store!UnknownDb(dbId)
             \/ Store!CreateTableRefused(dbId)
             \/ \E fields \in Properties(ParsedFields(json)) :
                  Store!CreateTable(dbId, json.labelName, fields)
  BY <1>1, CreateTableCreates DEF CreatesOrRefuses
<1>2. ASSUME NEW dbId \in DbId, NEW labelId \in TableId, DMSrInsertData(dbId, labelId)
      PROVE  Store!InsertData(dbId, labelId) \/ Store!Overflow(dbId, labelId)
  BY <1>2, InsertInserts
<1>3. ASSUME NEW dbName \in DbName
      PROVE  /\ DMSrCreateDb(dbName) => Store!CreateDb(dbName)
             /\ DMSrDropDb(dbName) => Store!DropDb(dbName)
  BY CreateDbCreates, DropDbDrops
<1>4. ASSUME NEW dbId \in DbId, DMSrGetDbDesc(dbId)
      PROVE  \/ Store!UnknownDb(dbId) \/ Store!DescribeDb(dbId)
             \/ Store!DescriptionCrashes(dbId)
  BY <1>4, DescriptionDescribes
<1>5. ASSUME NEW dbId \in DbId, NEW labelId \in TableId, LookupFails(dbId, labelId)
      PROVE  Store!UnknownDb(dbId) \/ Store!UnknownTable(dbId, labelId)
  BY <1>5, LookupRefusal
<1>6. ASSUME NEW dbId \in DbId, NEW labelId \in TableId, DMSrQueryTable(dbId, labelId)
      PROVE  Store!QueryTable(dbId, labelId)
  BY <1>6, QueryQueries
<1> QED BY <1>1, <1>2, <1>3, <1>4, <1>5, <1>6 DEF HandlerImplementsRequest

-----------------------------------------------------------------------------
(* The theorems.                                                           *)

\* The catalogue of vectors, searches, generated ids and pages implements the
\* store of RelStore: a request finds what its id was given for, a refusal is
\* only given when its reason holds and changes nothing, tables read back the
\* rows that were inserted in order, and the server dies in no other case than
\* the three of RelStore: an id before there is a manager, a row for a full page,
\* and a description that reads outside a page.
THEOREM StoreImplemented == Spec => ImplementsStore
<1>1. Init => Store!Init
  BY InitIsInit
<1>2. IInv /\ [Next]_vars => [Store!Next]_(Store!vars)
  BY StepIsStep
<1> QED BY <1>1, <1>2, CatalogueInvariant, PTL DEF Spec, ImplementsStore, Store!Spec

\* Each handler does what the store does of the very request it was called with:
\* the database dropped is the one named, the row goes into the table asked for,
\* and a refusal is about the names and ids of the request.
THEOREM RequestsImplemented == Spec => HandlersImplementRequests
<1>1. IInv /\ [Next]_vars => HandlerImplementsRequest
  BY RequestIsRequest
<1> QED BY <1>1, CatalogueInvariant, PTL DEF Spec, HandlersImplementRequests

=============================================================================
