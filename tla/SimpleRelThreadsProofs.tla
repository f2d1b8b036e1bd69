------------------------ MODULE SimpleRelThreadsProofs ------------------------
(***************************************************************************)
(* Proofs about the catalogue under several threads, for any number of     *)
(* threads, names, managers, buffers and ids.                              *)
(***************************************************************************)
EXTENDS SimpleRelThreads, SequenceTheorems, WellFoundedInduction, TLAPS

-----------------------------------------------------------------------------
(* Types.  A buffer holds databases or tables, and which of them never     *)
(* changes once it is there.                                               *)

Kind == [Buffer -> {"none", "dbs", "tables"}]

Of(kind, k) == {b \in Buffer : kind[b] = k}

DbT(kind) ==
  [name : DbName, id : Id,
   list : [data : Of(kind, "tables"), size : Int, capacity : Nat]]

ItemT(kind, k) == IF k = "dbs" THEN DbT(kind) ELSE LabelItem

ManagerT(kind) ==
  [data : {NULL} \cup Of(kind, "dbs"), size : Int, capacity : Nat]

Filling == {"check", "realloc", "setData", "copy", "size"}

Appending == {"load", "store"} \cup Filling

Searching == {"search", "data", "item"}

Pc == {"idle", "manager", "publish", "initVector", "open", "move", "row", "count",
       "wild"} \cup Searching \cup Appending

ThreadT ==
  [op      : {"none", "create", "drop", "table", "insert"},
   pc      : Pc,
   name    : DbName \cup LabelName \cup {NULL},
   dbId    : Nat \cup {NULL},
   labelId : Nat \cup {NULL},
   pass    : 1 .. 3,
   place   : PlaceType,
   i       : Nat \ {0},
   found   : FoundType,
   num     : Nat,
   item    : DbItem \cup LabelItem \cup {NULL}]

InManager(place, kind) ==
  /\ place \in [manager : Manager] /\ dbCtrlList[place.manager] \in ManagerT(kind)
  /\ g_srDbCtrlManager # NULL

InItem(place, kind, k) ==
  place \in [data : Of(kind, k), index : Nat \ {0}]

\* What kind of items a search is among.
Sought(me) == IF me.op \in {"create", "drop"} \/ me.pass = 1 THEN "dbs" ELSE "tables"

\* A request knows what it was asked for.
Begun(me) ==
  /\ me.pc = "idle" <=> me.op = "none"
  /\ me.op \in {"create", "drop"} => me.name \in DbName
  /\ me.op = "table" => me.name \in LabelName /\ me.dbId \in Nat
  /\ me.op = "insert" => me.dbId \in Nat /\ me.labelId \in Nat

\* Which requests come where, and what their pointers lead to there.
Placed(me, kind) ==
  /\ me.pc \in {"manager", "publish", "initVector"} => me.op \in {"create", "drop"}
  /\ me.pc = "initVector" => g_srDbCtrlManager # NULL
  /\ me.pc = "open" => me.op \in {"table", "insert"} /\ me.pass = 1
  /\ me.pc \in Searching =>
       IF Sought(me) = "dbs" THEN InManager(me.place, kind)
                             ELSE InItem(me.place, kind, "dbs")
  /\ me.pc = "item" =>
       me.found \in [data : {NULL} \cup Of(kind, Sought(me)), index : Nat \ {0}]
  /\ me.pc \in Appending =>
       /\ me.op \in {"create", "table"}
       /\ me.op = "create" => InManager(me.place, kind)
       /\ me.op = "table" => InItem(me.place, kind, "dbs")
  /\ me.pc \in {"store"} \cup Filling =>
       me.item \in ItemT(kind, IF me.op = "create" THEN "dbs" ELSE "tables")
  /\ me.pc = "store" => me.num < MaxGenNum
  /\ me.pc = "setData" =>
       me.num \in Of(kind, IF me.op = "create" THEN "dbs" ELSE "tables")
  /\ me.pc = "move" => me.op = "drop" /\ InManager(me.place, kind)
  /\ me.pc \in {"row", "count"} => me.op = "insert" /\ InItem(me.place, kind, "tables")

BufferTyped(b, kind) ==
  IF kind[b] = "none" THEN buffer[b] = Unused
  ELSE buffer[b] = Freed \/ buffer[b] \in Seq(ItemT(kind, kind[b]) \cup {Garbage})

ManagersTyped(kind) ==
  /\ dbCtrlList \in [Manager -> {Unused} \cup ManagerT(kind)]
  /\ g_srDbCtrlManager \in Manager \cup {NULL}
  /\ g_srDbCtrlManager # NULL => dbCtrlList[g_srDbCtrlManager] \in ManagerT(kind)

ThreadsTyped(kind) ==
  /\ thread \in [Thread -> ThreadT]
  /\ \A t \in Thread : Begun(thread[t]) /\ Placed(thread[t], kind)

RestTyped ==
  /\ server \in {"running", "aborted"}
  /\ g_dbGenNum \in 0 .. MaxGenNum
  /\ races \subseteq {"ids", "dbs", "tables", "growth", "lists", "rows"}
  /\ acked \in [dbs    : SUBSET [name : DbName, id : Id],
                tables : SUBSET [dbId : Nat, id : Id],
                rows   : [Id -> Nat]]

TypedBy(kind) ==
  /\ buffer \in [Buffer -> {buffer[b] : b \in Buffer}]
  /\ \A b \in Buffer : BufferTyped(b, kind)
  /\ ManagersTyped(kind)
  /\ ThreadsTyped(kind)
  /\ RestTyped

Typed == \E kind \in Kind : TypedBy(kind)

LEMMA TypedGivesTypes == Typed => ThreadsTypeOK
<1> SUFFICES ASSUME NEW kind \in Kind, TypedBy(kind) PROVE ThreadsTypeOK
  BY DEF Typed
<1>1. g_srDbCtrlManager \in Manager \cup {NULL}
      /\ dbCtrlList \in [Manager -> {Unused} \cup ManagerT(kind)]
  BY DEF TypedBy, ManagersTyped
<1>2. ManagerT(kind) \subseteq VectorType
  BY DEF ManagerT, VectorType, Of
<1>3. \A b \in Buffer : buffer[b] \in {Unused, Freed} \/ DOMAIN buffer[b] \subseteq Nat
  <2> TAKE b \in Buffer
  <2>1. CASE kind[b] = "none"
    BY <2>1 DEF TypedBy, BufferTyped
  <2>2. CASE kind[b] # "none" /\ buffer[b] # Freed
    <3>1. buffer[b] \in Seq(ItemT(kind, kind[b]) \cup {Garbage})
      BY <2>2 DEF TypedBy, BufferTyped
    <3>2. DOMAIN buffer[b] = 1 .. Len(buffer[b]) /\ Len(buffer[b]) \in Nat
      BY <3>1
    <3> QED BY <3>2
  <2> QED BY <2>1, <2>2
<1>4. \A t \in Thread : /\ thread[t].place \in PlaceType /\ thread[t].num \in Nat
                        /\ thread[t].found \in FoundType
  BY DEF TypedBy, ThreadsTyped, ThreadT
<1>5. dbCtrlList \in [Manager -> VectorType \cup {Unused}]
  BY <1>1, <1>2
<1> QED BY <1>1, <1>3, <1>4, <1>5 DEF ThreadsTypeOK, TypedBy, RestTyped

LEMMA LeastIn ==
  ASSUME NEW S, S \subseteq Nat, S # {}
  PROVE  Least(S) \in S
<1>1. PICK i \in S : \A j \in S : <<j, i>> \notin OpToRel(<, Nat)
  BY NatLessThanWellFounded, WFMin
<1>2. \A j \in S : i <= j
  <2> TAKE j \in S
  <2>1. i \in Nat /\ j \in Nat /\ ~ (j < i)
    BY <1>1 DEF OpToRel
  <2> QED BY <2>1
<1> QED BY <1>2 DEF Least

\* Initially no buffer is of any kind.
LEMMA InitTyped == Init => Typed
<1> SUFFICES ASSUME Init PROVE Typed
  OBVIOUS
<1> DEFINE kind == [b \in Buffer |-> "none"]
<1>1. kind \in Kind /\ \A b \in Buffer : kind[b] = "none"
  BY DEF Kind
<1> HIDE DEF kind
<1>2. \A b \in Buffer : BufferTyped(b, kind)
  BY <1>1 DEF Init, BufferTyped
<1>3. ManagersTyped(kind)
  BY DEF Init, ManagersTyped
<1>4. ThreadsTyped(kind)
  <2>1. Idle \in ThreadT
    BY DEF Idle, ThreadT, Pc, PlaceType, FoundType
  <2>2. Begun(Idle) /\ Placed(Idle, kind)
    BY DEF Idle, Begun, Placed, Searching, Appending, Filling
  <2> QED BY <2>1, <2>2 DEF Init, ThreadsTyped
<1>5. RestTyped
  BY SimpleRelThreadsAssumption DEF Init, RestTyped
<1>6. buffer \in [Buffer -> {buffer[b] : b \in Buffer}]
  BY DEF Init
<1> QED BY <1>1, <1>2, <1>3, <1>4, <1>5, <1>6 DEF Typed, TypedBy

\* What is of a kind stays of it when another buffer is given one.
LEMMA MoreKinds ==
  ASSUME NEW kind \in Kind, NEW kind2 \in Kind,
         \A b \in Buffer : kind[b] # "none" => kind2[b] = kind[b]
  PROVE  /\ Of(kind, "dbs") \subseteq Of(kind2, "dbs")
         /\ Of(kind, "tables") \subseteq Of(kind2, "tables")
         /\ ManagerT(kind) \subseteq ManagerT(kind2)
         /\ DbT(kind) \subseteq DbT(kind2)
         /\ \A k : ItemT(kind, k) \subseteq ItemT(kind2, k)
         /\ \A place : InItem(place, kind, "dbs") => InItem(place, kind2, "dbs")
         /\ \A place : InItem(place, kind, "tables") => InItem(place, kind2, "tables")
<1>1. /\ Of(kind, "dbs") \subseteq Of(kind2, "dbs")
      /\ Of(kind, "tables") \subseteq Of(kind2, "tables")
  BY DEF Of
<1>2. ManagerT(kind) \subseteq ManagerT(kind2)
  BY <1>1 DEF ManagerT
<1>3. DbT(kind) \subseteq DbT(kind2)
  BY <1>1 DEF DbT
<1>4. \A k : ItemT(kind, k) \subseteq ItemT(kind2, k)
  BY <1>3 DEF ItemT
<1> QED BY <1>1, <1>2, <1>3, <1>4 DEF InItem

\* The other threads are where they were.
LEMMA OthersPlaced ==
  ASSUME NEW kind \in Kind, TypedBy(kind), NEW kind2 \in Kind,
         \A b \in Buffer : kind[b] # "none" => kind2[b] = kind[b],
         \A m \in Manager : dbCtrlList[m] \in ManagerT(kind) =>
                              dbCtrlList'[m] \in ManagerT(kind2),
         g_srDbCtrlManager # NULL => g_srDbCtrlManager' # NULL,
         NEW u \in Thread, thread'[u] = thread[u]
  PROVE  Begun(thread[u])' /\ Placed(thread[u], kind2)'
<1> DEFINE me == thread[u]
<1>1. Begun(me) /\ Placed(me, kind)
  BY DEF TypedBy, ThreadsTyped
<1>2. \A place : InManager(place, kind) => InManager(place, kind2)'
  BY DEF InManager
<1>3. /\ \A place : InItem(place, kind, "dbs") => InItem(place, kind2, "dbs")
      /\ \A place : InItem(place, kind, "tables") => InItem(place, kind2, "tables")
      /\ \A k : ItemT(kind, k) \subseteq ItemT(kind2, k)
      /\ \A k \in {"dbs", "tables"} : Of(kind, k) \subseteq Of(kind2, k)
  BY MoreKinds
<1>4. Begun(thread[u])'
  BY <1>1 DEF Begun
<1>5. me.pc = "item" =>
        me.found \in [data : {NULL} \cup Of(kind2, Sought(me)), index : Nat \ {0}]
  <2>1. Sought(me) \in {"dbs", "tables"}
    BY DEF Sought
  <2> QED BY <1>1, <1>3, <2>1 DEF Placed
<1>6. Sought(thread[u])' = Sought(me)
  BY DEF Sought
<1>7. Placed(thread[u], kind2)'
  BY <1>1, <1>2, <1>3, <1>5, <1>6 DEF Placed
<1> QED BY <1>4, <1>7

\* A step that changes its thread only.
LEMMA LocalTyped ==
  ASSUME NEW kind \in Kind, TypedBy(kind), NEW t \in Thread,
         UNCHANGED <<g_srDbCtrlManager, dbCtrlList, buffer>>, RestTyped',
         NEW new \in ThreadT, thread' = [thread EXCEPT ![t] = new],
         Begun(new), Placed(new, kind)
  PROVE  TypedBy(kind)'
<1>1. \A b \in Buffer : BufferTyped(b, kind)'
  BY DEF TypedBy, BufferTyped
<1>2. ManagersTyped(kind)'
  BY DEF TypedBy, ManagersTyped
<1>3. thread \in [Thread -> ThreadT] /\ thread'[t] = new
      /\ \A u \in Thread : u # t => thread'[u] = thread[u]
  BY DEF TypedBy, ThreadsTyped
<1>4. thread' \in [Thread -> ThreadT]
  BY <1>3
<1>5. Placed(thread[t], kind)'
  BY <1>3 DEF Placed, InManager
<1>6. ASSUME NEW u \in Thread PROVE Begun(thread[u])' /\ Placed(thread[u], kind)'
  <2>1. CASE u = t
    BY <1>3, <1>5, <2>1
  <2>2. CASE u # t
    BY <1>3, <2>2, OthersPlaced
  <2> QED BY <2>1, <2>2
<1>7. (buffer \in [Buffer -> {buffer[b] : b \in Buffer}])'
  BY DEF TypedBy
<1> QED BY <1>1, <1>2, <1>4, <1>6, <1>7 DEF TypedBy, ThreadsTyped

\* What an access finds.
LEMMA ArrayAt ==
  ASSUME NEW kind \in Kind, TypedBy(kind), NEW k \in {"dbs", "tables"},
         NEW b \in Of(kind, k), IsArray(b)
  PROVE  /\ buffer[b] \in Seq(ItemT(kind, k) \cup {Garbage})
         /\ Len(buffer[b]) \in Nat /\ DOMAIN buffer[b] = 1 .. Len(buffer[b])
         /\ \A i \in DOMAIN buffer[b] : buffer[b][i] \in ItemT(kind, k) \cup {Garbage}
<1>1. buffer[b] \in Seq(ItemT(kind, k) \cup {Garbage})
  BY DEF TypedBy, BufferTyped, Of, IsArray
<1> QED BY <1>1

LEMMA ItemAt ==
  ASSUME NEW kind \in Kind, TypedBy(kind), NEW k \in {"dbs", "tables"},
         NEW b \in Of(kind, k), NEW i, IsItem(b, i)
  PROVE  /\ buffer[b][i] \in ItemT(kind, k) /\ i \in 1 .. Len(buffer[b])
         /\ k = "dbs" => /\ buffer[b][i] \in DbT(kind)
                         /\ buffer[b][i].list \in
                              [data : Of(kind, "tables"), size : Int, capacity : Nat]
         /\ k = "tables" => buffer[b][i] \in LabelItem
<1>1. buffer[b][i] \in ItemT(kind, k) /\ i \in 1 .. Len(buffer[b])
  BY ArrayAt DEF IsItem
<1>2. k = "dbs" => buffer[b][i] \in DbT(kind)
  BY <1>1 DEF ItemT
<1>3. k = "tables" => buffer[b][i] \in LabelItem
  BY <1>1 DEF ItemT
<1> QED BY <1>1, <1>2, <1>3 DEF DbT

LEMMA VectorTyped ==
  ASSUME NEW kind \in Kind, TypedBy(kind), NEW place
  PROVE  /\ InManager(place, kind) =>
              /\ IsManager(place) /\ IsVector(place)
              /\ VectorAt(place) = dbCtrlList[place.manager]
              /\ VectorAt(place) \in ManagerT(kind)
         /\ InItem(place, kind, "dbs") =>
              /\ ~ IsManager(place)
              /\ VectorAt(place) = buffer[place.data][place.index].list
              /\ IsVector(place) =>
                   /\ IsItem(place.data, place.index)
                   /\ VectorAt(place) \in
                        [data : Of(kind, "tables"), size : Int, capacity : Nat]
<1>1. ASSUME InManager(place, kind)
      PROVE  /\ IsManager(place) /\ IsVector(place)
             /\ VectorAt(place) = dbCtrlList[place.manager]
             /\ VectorAt(place) \in ManagerT(kind)
  BY <1>1 DEF InManager, IsManager, IsVector, VectorAt
<1>2. ASSUME InItem(place, kind, "dbs")
      PROVE  /\ ~ IsManager(place)
             /\ VectorAt(place) = buffer[place.data][place.index].list
             /\ IsVector(place) =>
                  /\ IsItem(place.data, place.index)
                  /\ VectorAt(place) \in
                       [data : Of(kind, "tables"), size : Int, capacity : Nat]
  <2>1. ~ IsManager(place) /\ place.data \in Of(kind, "dbs")
    BY <1>2 DEF InItem, IsManager
  <2> QED BY <2>1, ItemAt DEF IsVector, VectorAt
<1> QED BY <1>1, <1>2

\* What a search that comes to a hit has found.
LEMMA HitTyped ==
  ASSUME NEW kind \in Kind, TypedBy(kind), NEW t \in Thread, Hit(t)
  PROVE  LET me    == thread[t]
             found == me.found
         IN  /\ At(t, "item") /\ me.pc = "item"
             /\ found \in [data : Of(kind, Sought(me)), index : Nat \ {0}]
             /\ IsItem(found.data, found.index) /\ found.data \in Buffer
             /\ Matches(t, buffer[found.data][found.index])
<1> DEFINE me    == thread[t]
           found == me.found
<1>1. /\ At(t, "item") /\ me.pc = "item" /\ IsItem(found.data, found.index)
      /\ Matches(t, buffer[found.data][found.index])
  BY DEF Hit, ItemFound, At
<1>2. found \in [data : {NULL} \cup Of(kind, Sought(me)), index : Nat \ {0}]
  BY <1>1 DEF TypedBy, ThreadsTyped, Placed
<1>3. found.data \in Buffer
  BY <1>1 DEF IsItem, IsArray
<1>4. found \in [data : Of(kind, Sought(me)), index : Nat \ {0}]
  BY <1>2, <1>3, SimpleRelThreadsAssumption
<1> QED BY <1>1, <1>3, <1>4

\* A buffer that is not in use is there to be taken, and of no kind.
LEMMA UnusedIsNone ==
  ASSUME NEW kind \in Kind, TypedBy(kind), UnusedBuffers # {}
  PROVE  UnusedBuffer \in Buffer /\ kind[UnusedBuffer] = "none"
         /\ buffer[UnusedBuffer] = Unused
<1>1. UnusedBuffer \in UnusedBuffers
  BY LeastIn, SimpleRelThreadsAssumption DEF UnusedBuffer, UnusedBuffers
<1>2. UnusedBuffer \in Buffer /\ buffer[UnusedBuffer] = Unused
  BY <1>1 DEF UnusedBuffers
<1>3. kind[UnusedBuffer] = "none"
  <2> SUFFICES ASSUME kind[UnusedBuffer] # "none" PROVE FALSE
    OBVIOUS
  <2>1. Unused \in Seq(ItemT(kind, kind[UnusedBuffer]) \cup {Garbage})
    BY <1>2, SimpleRelThreadsAssumption DEF TypedBy, BufferTyped
  <2>2. ItemT(kind, kind[UnusedBuffer]) \subseteq DbItem \cup LabelItem
    BY DEF ItemT, DbT, DbItem, Of
  <2>3. Unused \in Seq(DbItem \cup LabelItem \cup {Garbage})
    <3> DEFINE S == ItemT(kind, kind[UnusedBuffer]) \cup {Garbage}
               T == DbItem \cup LabelItem \cup {Garbage}
    <3>1. S \subseteq T
      BY <2>2
    <3>2. Unused \in Seq(S)
      BY <2>1
    <3> HIDE DEF S, T
    <3>3. Unused \in Seq(T)
      BY <3>1, <3>2
    <3> QED BY <3>3 DEF T
  <2> QED BY <2>3, SimpleRelThreadsAssumption
<1> QED BY <1>2, <1>3

\* One slot of a buffer is written.
LEMMA WrittenTyped ==
  ASSUME NEW kind \in Kind, TypedBy(kind), NEW k \in {"dbs", "tables"},
         NEW b \in Of(kind, k), IsArray(b), NEW i \in DOMAIN buffer[b],
         NEW x \in ItemT(kind, k) \cup {Garbage},
         buffer' = [buffer EXCEPT ![b] = [buffer[b] EXCEPT ![i] = x]]
  PROVE  /\ \A c \in Buffer : BufferTyped(c, kind)'
         /\ buffer'[b] = [buffer[b] EXCEPT ![i] = x]
         /\ Len(buffer'[b]) = Len(buffer[b]) /\ IsArray(b)'
         /\ \A j \in DOMAIN buffer[b] : buffer'[b][j] = IF j = i THEN x ELSE buffer[b][j]
         /\ \A c \in Buffer : c # b => buffer'[c] = buffer[c]
<1> DEFINE S == ItemT(kind, k) \cup {Garbage}
<1>1. b \in Buffer /\ kind[b] = k /\ buffer \in [Buffer -> {buffer[c] : c \in Buffer}]
  BY DEF Of, TypedBy
<1>2. buffer'[b] = [buffer[b] EXCEPT ![i] = x] /\ \A c \in Buffer : c # b => buffer'[c] = buffer[c]
  BY <1>1
<1>3. /\ buffer[b] \in Seq(S) /\ Len(buffer[b]) \in Nat /\ i \in 1 .. Len(buffer[b])
      /\ DOMAIN buffer[b] = 1 .. Len(buffer[b]) /\ x \in S
  BY ArrayAt
<1>5. ItemT(kind, k) \subseteq DbItem \cup LabelItem
  BY DEF ItemT, DbT, DbItem, Of
<1> HIDE DEF S
<1>4. /\ buffer'[b] \in Seq(S) /\ Len(buffer'[b]) = Len(buffer[b])
      /\ \A j \in DOMAIN buffer[b] : buffer'[b][j] = IF j = i THEN x ELSE buffer[b][j]
  BY <1>2, <1>3
<1>6. \A c \in Buffer : BufferTyped(c, kind)'
  BY <1>1, <1>2, <1>4 DEF S, TypedBy, BufferTyped
<1>7. IsArray(b)'
  <2>1. S \subseteq DbItem \cup LabelItem \cup {Garbage}
    BY <1>5 DEF S
  <2>2. buffer'[b] \in Seq(DbItem \cup LabelItem \cup {Garbage})
    BY <1>4, <2>1
  <2> QED BY <1>1, <2>2, SimpleRelThreadsAssumption DEF IsArray
<1> QED BY <1>2, <1>4, <1>6, <1>7

-----------------------------------------------------------------------------
(* The types are kept by each kind of access.                              *)

\* The fields of a request, one at a time.
LEMMA Updated ==
  ASSUME NEW me \in ThreadT
  PROVE  /\ \A pc \in Pc : [me EXCEPT !.pc = pc] \in ThreadT
         /\ \A pass \in 1 .. 3 : [me EXCEPT !.pass = pass] \in ThreadT
         /\ \A place \in PlaceType : [me EXCEPT !.place = place] \in ThreadT
         /\ \A i \in Nat \ {0} : [me EXCEPT !.i = i] \in ThreadT
         /\ \A found \in FoundType : [me EXCEPT !.found = found] \in ThreadT
<1>1. \A pc \in Pc : [me EXCEPT !.pc = pc] \in ThreadT
  BY DEF ThreadT
<1>2. \A pass \in 1 .. 3 : [me EXCEPT !.pass = pass] \in ThreadT
  BY DEF ThreadT
<1>3. \A place \in PlaceType : [me EXCEPT !.place = place] \in ThreadT
  BY DEF ThreadT
<1>4. \A i \in Nat \ {0} : [me EXCEPT !.i = i] \in ThreadT
  BY DEF ThreadT
<1>5. \A found \in FoundType : [me EXCEPT !.found = found] \in ThreadT
  BY DEF ThreadT
<1> QED BY <1>1, <1>2, <1>3, <1>4, <1>5

LEMMA IdleTyped ==
  ASSUME NEW kind \in Kind
  PROVE  Idle \in ThreadT /\ Begun(Idle) /\ Placed(Idle, kind)
  BY DEF Idle, ThreadT, Pc, PlaceType, FoundType, Begun, Placed, Searching, Appending, Filling

LEMMA RequestTyped ==
  ASSUME NEW kind \in Kind, TypedBy(kind), NEW t \in Thread, Request(t)
  PROVE  TypedBy(kind)'
<1>1. PICK op \in {"create", "drop", "table", "insert"},
           pc \in {"manager", "open"},
           name \in DbName \cup LabelName \cup {NULL},
           dbId \in Nat \cup {NULL}, labelId \in Nat \cup {NULL} :
        /\ Begin(t, op, pc, name, dbId, labelId)
        /\ pc = "manager" <=> op \in {"create", "drop"}
        /\ op \in {"create", "drop"} => name \in DbName
        /\ op = "table" => name \in LabelName /\ dbId \in Nat
        /\ op = "insert" => dbId \in Nat /\ labelId \in Nat
  <2>1. Asked \subseteq Nat
    BY DEF Asked, Id
  <2> QED BY <2>1 DEF Request
<1> DEFINE new == [Idle EXCEPT !.op = op, !.pc = pc, !.name = name,
                               !.dbId = dbId, !.labelId = labelId]
<1>2. /\ thread' = [thread EXCEPT ![t] = new]
      /\ UNCHANGED <<server, g_srDbCtrlManager, dbCtrlList, g_dbGenNum, buffer, acked>>
      /\ races' = races \cup (UNION {Race(new, thread[u]) : u \in Others(t)})
                        \cup (IF Growing THEN {"growth"} ELSE {})
  BY <1>1 DEF Begin, shared
<1>3. Idle \in ThreadT /\ Idle.pass = 1 /\ pc \in Pc
  BY IdleTyped DEF Idle, Pc
<1>4. new \in ThreadT /\ Begun(new) /\ Placed(new, kind)
  <2>1. PICK a : a = [Idle EXCEPT !.op = op]
    OBVIOUS
  <2>2. PICK b : b = [a EXCEPT !.pc = pc]
    OBVIOUS
  <2>3. PICK c : c = [b EXCEPT !.name = name]
    OBVIOUS
  <2>4. PICK d : d = [c EXCEPT !.dbId = dbId]
    OBVIOUS
  <2>5. PICK e : e = [d EXCEPT !.labelId = labelId]
    OBVIOUS
  <2>6. a \in ThreadT /\ a.op = op /\ a.pass = 1
    BY <1>3, <2>1 DEF ThreadT
  <2>7. b \in ThreadT /\ b.op = op /\ b.pc = pc /\ b.pass = 1
    BY <1>3, <2>2, <2>6 DEF ThreadT
  <2>8. c \in ThreadT /\ c.op = op /\ c.pc = pc /\ c.pass = 1 /\ c.name = name
    BY <2>3, <2>7 DEF ThreadT
  <2>9. d \in ThreadT /\ d.op = op /\ d.pc = pc /\ d.pass = 1 /\ d.name = name
         /\ d.dbId = dbId
    BY <2>4, <2>8 DEF ThreadT
  <2>10. e \in ThreadT /\ e.op = op /\ e.pc = pc /\ e.pass = 1 /\ e.name = name
         /\ e.dbId = dbId /\ e.labelId = labelId
    BY <2>5, <2>9 DEF ThreadT
  <2>11. new = e
    BY <2>1, <2>2, <2>3, <2>4, <2>5
  <2> HIDE DEF new
  <2> QED BY <1>1, <2>11, <2>10 DEF Begun, Placed, Searching, Appending, Filling
<1> HIDE DEF new
<1>5. RestTyped'
  <2>1. \A u \in Thread : Race(new, thread[u]) \subseteq {"dbs", "tables", "rows"}
    BY DEF Race
  <2>2. races' \subseteq {"ids", "dbs", "tables", "growth", "lists", "rows"}
    <3>1. \A u \in Others(t) : u \in Thread
      BY DEF Others
    <3>2. UNION {Race(new, thread[u]) : u \in Others(t)} \subseteq {"dbs", "tables", "rows"}
      BY <2>1, <3>1
    <3>3. races \subseteq {"ids", "dbs", "tables", "growth", "lists", "rows"}
      BY DEF TypedBy, RestTyped
    <3> QED BY <1>2, <3>2, <3>3
  <2> QED BY <1>2, <2>2 DEF TypedBy, RestTyped
<1> QED BY <1>2, <1>4, <1>5, LocalTyped

\* Steps that leave all but their thread, and what was told, as it is.
LEMMA SearchTyped ==
  ASSUME NEW kind \in Kind, TypedBy(kind), NEW t \in Thread, Search(t)
  PROVE  TypedBy(kind)'
<1> DEFINE me == thread[t]
           v  == VectorAt(me.place)
<1>1. /\ me \in ThreadT /\ Begun(me) /\ Placed(me, kind)
      /\ thread \in [Thread -> ThreadT]
  BY DEF TypedBy, ThreadsTyped
<1>2. /\ me.pc \in Searching
      /\ UNCHANGED <<server, g_dbGenNum, races, g_srDbCtrlManager, dbCtrlList, buffer>>
      /\ acked' = acked \/ DropIsSure(t)
  BY DEF Search, ReadSize, ReadData, SearchGoesOn, SearchEnds, SearchAgain, NameIsFree,
         DropIsSure, RowIsFor, NoMore, ToRemove, Hit, ItemFound, At, Searching, shared
<1>3. RestTyped'
  <2>1. acked' \in [dbs    : SUBSET [name : DbName, id : Id],
                    tables : SUBSET [dbId : Nat, id : Id],
                    rows   : [Id -> Nat]]
    <3>1. acked \in [dbs    : SUBSET [name : DbName, id : Id],
                     tables : SUBSET [dbId : Nat, id : Id],
                     rows   : [Id -> Nat]]
      BY DEF TypedBy, RestTyped
    <3>2. CASE DropIsSure(t)
      BY <3>1, <3>2 DEF DropIsSure
    <3>3. CASE UNCHANGED acked
      BY <3>1, <3>3
    <3> QED BY <1>2, <3>2, <3>3
  <2> QED BY <1>2, <2>1 DEF TypedBy, RestTyped
<1>4. ASSUME NEW new \in ThreadT, thread' = [thread EXCEPT ![t] = new],
             Begun(new), Placed(new, kind)
      PROVE  TypedBy(kind)'
  BY <1>2, <1>3, <1>4, LocalTyped
<1>5. CASE ReadSize(t)
  <2>1. PICK new : new = [me EXCEPT !.pc = "data"]
    OBVIOUS
  <2>2. new \in ThreadT /\ Begun(new) /\ Placed(new, kind)
    BY <1>1, <1>2, <2>1 DEF ThreadT, Pc, Begun, Placed, Sought, Searching, Appending, Filling
  <2>3. thread' = [thread EXCEPT ![t] = new]
    BY <1>1, <1>5, <2>1 DEF ReadSize, Goes
  <2> QED BY <1>4, <2>2, <2>3
<1>6. CASE ReadData(t)
  <2>1. PICK found : found = [data |-> v.data, index |-> me.i]
    OBVIOUS
  <2>2. PICK new : new = [me EXCEPT !.pc = "item", !.found = found]
    OBVIOUS
  <2>3. thread' = [thread EXCEPT ![t] = new] /\ IsVector(me.place)
    BY <1>1, <1>6, <2>1, <2>2 DEF ReadData
  <2>4. found \in [data : {NULL} \cup Of(kind, Sought(me)), index : Nat \ {0}]
    <3>1. v.data \in {NULL} \cup Of(kind, Sought(me))
      <4>1. CASE Sought(me) = "dbs"
        <5>1. v \in ManagerT(kind)
          BY <1>1, <1>2, <4>1, VectorTyped DEF Placed
        <5> QED BY <4>1, <5>1 DEF ManagerT
      <4>2. CASE Sought(me) # "dbs"
        <5>1. InItem(me.place, kind, "dbs") /\ Sought(me) = "tables"
          BY <1>1, <1>2, <4>2 DEF Placed, Sought
        <5>2. v \in [data : Of(kind, "tables"), size : Int, capacity : Nat]
          BY <2>3, <5>1, VectorTyped
        <5> QED BY <5>1, <5>2
      <4> QED BY <4>1, <4>2
    <3> QED BY <1>1, <2>1, <3>1 DEF ThreadT
  <2>5. found \in FoundType
    BY <2>4 DEF FoundType, Of
  <2>6. /\ new \in ThreadT /\ new.pc = "item" /\ new.found = found
        /\ new.op = me.op /\ new.pass = me.pass /\ new.place = me.place
        /\ new.name = me.name /\ new.dbId = me.dbId /\ new.labelId = me.labelId
    BY <1>1, <2>2, <2>5 DEF ThreadT, Pc, Searching
  <2>7. Sought(new) = Sought(me)
    BY <2>6 DEF Sought
  <2>8. me.op # "none"
    BY <1>1, <1>2 DEF Begun, Searching
  <2>9. Begun(new) /\ Placed(new, kind)
    BY <1>1, <1>2, <2>4, <2>6, <2>7, <2>8 DEF Begun, Placed, Searching, Appending, Filling
  <2> QED BY <1>4, <2>3, <2>6, <2>9
<1>7. CASE SearchGoesOn(t)
  <2>1. PICK new : new = [me EXCEPT !.pc = "search", !.i = me.i + 1, !.found = NULL]
    OBVIOUS
  <2>2. /\ new \in ThreadT /\ new.pc = "search" /\ new.op = me.op /\ new.pass = me.pass
        /\ new.place = me.place
        /\ new.name = me.name /\ new.dbId = me.dbId /\ new.labelId = me.labelId
    <3>1. PICK a : a = [me EXCEPT !.pc = "search"]
      OBVIOUS
    <3>2. PICK b : b = [a EXCEPT !.i = me.i + 1]
      OBVIOUS
    <3>3. a \in ThreadT
      BY <1>1, <3>1, Updated DEF Pc, Searching
    <3>4. b \in ThreadT
      <4>1. me.i + 1 \in Nat \ {0}
        BY <1>1 DEF ThreadT
      <4> QED BY <3>2, <3>3, <4>1, Updated
    <3>5. new = [b EXCEPT !.found = NULL] /\ NULL \in FoundType
      BY <2>1, <3>1, <3>2 DEF FoundType
    <3>6. new \in ThreadT
      BY <3>4, <3>5, Updated
    <3> QED BY <1>1, <2>1, <3>6 DEF ThreadT
  <2>3. me.op # "none" /\ Sought(new) = Sought(me)
    BY <1>1, <1>2, <2>2 DEF Begun, Searching, Sought
  <2>4. Begun(new) /\ Placed(new, kind)
    BY <1>1, <1>2, <2>2, <2>3 DEF Begun, Placed, Searching, Appending, Filling
  <2>5. thread' = [thread EXCEPT ![t] = new]
    BY <1>1, <1>7, <2>1 DEF SearchGoesOn
  <2> QED BY <1>4, <2>2, <2>4, <2>5
<1>8. CASE SearchEnds(t)
  BY <1>4, <1>8, IdleTyped DEF SearchEnds, Answers
<1>9. CASE NameIsFree(t)
  <2>1. PICK new : new = [me EXCEPT !.pc = "load"]
    OBVIOUS
  <2>2. ForFreeName(me)
    BY <1>9 DEF NameIsFree
  <2>3. new \in ThreadT /\ Begun(new) /\ Placed(new, kind)
    BY <1>1, <1>2, <2>1, <2>2 DEF ForFreeName, ThreadT, Pc, Begun, Placed, Sought, Searching,
                                  Appending, Filling
  <2> QED BY <1>4, <1>9, <2>1, <2>3 DEF NameIsFree, Goes
<1>10. CASE SearchAgain(t)
  <2>1. /\ Hit(t) /\ ForNextSearch(me)
        /\ me.found \in [data : Of(kind, Sought(me)), index : Nat \ {0}]
        /\ me.found.data \in Buffer
    BY <1>10, HitTyped DEF SearchAgain
  <2>2. PICK place : place = IF me.op = "drop" THEN TheManager ELSE me.found
    OBVIOUS
  <2>3. PICK new : new = [me EXCEPT !.pc = "search", !.pass = me.pass + 1,
                                    !.place = place, !.i = 1, !.found = NULL]
    OBVIOUS
  <2>4. thread' = [thread EXCEPT ![t] = new]
    BY <1>1, <1>10, <2>2, <2>3 DEF SearchAgain
  <2>5. me.pass + 1 \in 1 .. 3
    BY <1>1, <2>1 DEF ForNextSearch, ThreadT
  <2>6. place \in PlaceType /\ IF me.op = "drop" THEN InManager(place, kind)
                                                 ELSE InItem(place, kind, "dbs")
    <3>1. CASE me.op = "drop"
      <4>1. g_srDbCtrlManager # NULL
        BY <1>1, <1>2, <3>1 DEF Placed, Sought, InManager
      <4>2. InManager(place, kind)
        BY <2>2, <3>1, <4>1 DEF TypedBy, ManagersTyped, InManager, TheManager
      <4> QED BY <3>1, <4>2 DEF PlaceType, InManager
    <3>2. CASE me.op # "drop"
      <4>1. place = me.found /\ Sought(me) = "dbs"
        BY <2>1, <2>2, <3>2 DEF ForNextSearch, Sought
      <4> QED BY <2>1, <3>2, <4>1 DEF PlaceType, InItem, Of
    <3> QED BY <3>1, <3>2
  <2>7. /\ new \in ThreadT
        /\ new.op = me.op /\ new.pc = "search" /\ new.place = place /\ new.pass = me.pass + 1
        /\ new.name = me.name /\ new.dbId = me.dbId /\ new.labelId = me.labelId
    <3>1. PICK a : a = [me EXCEPT !.pc = "search"]
      OBVIOUS
    <3>2. PICK b : b = [a EXCEPT !.pass = me.pass + 1]
      OBVIOUS
    <3>3. PICK c : c = [b EXCEPT !.place = place]
      OBVIOUS
    <3>4. PICK d : d = [c EXCEPT !.i = 1]
      OBVIOUS
    <3>5. a \in ThreadT
      BY <1>1, <3>1, Updated DEF Pc, Searching
    <3>6. b \in ThreadT
      BY <2>5, <3>2, <3>5, Updated
    <3>7. c \in ThreadT
      BY <2>6, <3>3, <3>6, Updated
    <3>8. d \in ThreadT
      <4>1. 1 \in Nat \ {0}
        OBVIOUS
      <4> QED BY <3>4, <3>7, <4>1, Updated
    <3>9. new = [d EXCEPT !.found = NULL] /\ NULL \in FoundType
      BY <2>3, <3>1, <3>2, <3>3, <3>4 DEF FoundType
    <3>10. new \in ThreadT
      BY <3>8, <3>9, Updated
    <3> QED BY <1>1, <2>3, <3>10 DEF ThreadT
  <2>8. me.op \in {"drop", "table", "insert"} /\ (me.op # "drop" => new.pass = 2)
    BY <2>1, <2>7 DEF ForNextSearch
  <2>9. Begun(new) /\ Placed(new, kind)
    BY <1>1, <2>6, <2>7, <2>8 DEF Begun, Placed, Sought, Searching, Appending, Filling
  <2> QED BY <1>4, <2>4, <2>7, <2>9
<1>11. CASE DropIsSure(t)
  <2>1. me.op = "drop" /\ MoreItems(t)
    BY <1>11 DEF DropIsSure, ToRemove
  <2>2. v.size \in Nat
    <3>1. v \in ManagerT(kind)
      BY <1>1, <1>2, <2>1, VectorTyped DEF Placed, Sought
    <3> QED BY <1>1, <2>1, <3>1 DEF MoreItems, ManagerT, ThreadT
  <2>3. PICK new : new = [me EXCEPT !.pc = "move", !.found = NULL, !.num = v.size]
    OBVIOUS
  <2>4. thread' = [thread EXCEPT ![t] = new]
    BY <1>1, <1>11, <2>3 DEF DropIsSure
  <2>5. new \in ThreadT /\ Begun(new) /\ Placed(new, kind)
    BY <1>1, <1>2, <2>1, <2>2, <2>3
       DEF ThreadT, Pc, FoundType, Begun, Placed, Sought, Searching, Appending, Filling
  <2> QED BY <1>4, <2>4, <2>5
<1>12. CASE RowIsFor(t)
  <2>1. PICK place : place = me.found
    OBVIOUS
  <2>2. PICK new : new = [me EXCEPT !.pc = "row", !.place = place, !.found = NULL]
    OBVIOUS
  <2>3. thread' = [thread EXCEPT ![t] = new] /\ Hit(t) /\ me.op = "insert" /\ me.pass = 2
    BY <1>1, <1>12, <2>1, <2>2 DEF RowIsFor
  <2>4. place \in [data : Of(kind, "tables"), index : Nat \ {0}] /\ place \in PlaceType
    BY <2>1, <2>3, HitTyped DEF Sought, PlaceType, Of
  <2>5. new \in ThreadT /\ Begun(new) /\ Placed(new, kind)
    BY <1>1, <2>2, <2>3, <2>4
       DEF ThreadT, Pc, FoundType, Begun, Placed, InItem, Searching, Appending, Filling
  <2> QED BY <1>4, <2>3, <2>5
<1> QED BY <1>5, <1>6, <1>7, <1>8, <1>9, <1>10, <1>11, <1>12 DEF Search

\* A step of a thread that may also take a buffer.
LEMMA StepTyped ==
  ASSUME NEW kind \in Kind, TypedBy(kind), NEW kind2 \in Kind, NEW t \in Thread,
         \A b \in Buffer : kind[b] # "none" => kind2[b] = kind[b],
         \A m \in Manager : dbCtrlList[m] \in ManagerT(kind) =>
                              dbCtrlList'[m] \in ManagerT(kind2),
         dbCtrlList' \in [Manager -> {Unused} \cup ManagerT(kind2)],
         g_srDbCtrlManager' = g_srDbCtrlManager,
         buffer' \in [Buffer -> {buffer'[b] : b \in Buffer}],
         \A b \in Buffer : BufferTyped(b, kind2)',
         RestTyped',
         NEW new \in ThreadT, thread' = [thread EXCEPT ![t] = new],
         Begun(new), Placed(new, kind2)'
  PROVE  TypedBy(kind2)'
<1>1. ManagersTyped(kind2)'
  BY DEF TypedBy, ManagersTyped
<1>2. thread' \in [Thread -> ThreadT] /\ thread'[t] = new
      /\ \A u \in Thread : u # t => thread'[u] = thread[u]
  BY DEF TypedBy, ThreadsTyped
<1>3. ASSUME NEW u \in Thread PROVE Begun(thread[u])' /\ Placed(thread[u], kind2)'
  <2>1. CASE u = t
    BY <1>2, <2>1 DEF Begun, Placed
  <2>2. CASE u # t
    BY <1>2, <2>2, OthersPlaced
  <2> QED BY <2>1, <2>2
<1> QED BY <1>1, <1>2, <1>3 DEF TypedBy, ThreadsTyped

LEMMA NewItemsTyped ==
  ASSUME NEW S, Garbage \in S
  PROVE  NewItems \in Seq(S)
  BY SimpleRelThreadsAssumption DEF NewItems

\* An unused buffer is taken, and another one may be freed.
LEMMA TakenTyped ==
  ASSUME NEW kind \in Kind, TypedBy(kind), UnusedBuffers # {}, NEW k \in {"dbs", "tables"},
         NEW x \in Seq(ItemT(kind, k) \cup {Garbage}),
         \/ buffer' = [buffer EXCEPT ![UnusedBuffer] = x]
         \/ \E old \in Of(kind, "dbs") \cup Of(kind, "tables") :
              buffer' = [buffer EXCEPT ![UnusedBuffer] = x, ![old] = Freed]
  PROVE  \E kind2 \in Kind :
           /\ UnusedBuffer \in Of(kind2, k)
           /\ \A b \in Buffer : kind[b] # "none" => kind2[b] = kind[b]
           /\ buffer' \in [Buffer -> {buffer'[b] : b \in Buffer}]
           /\ \A b \in Buffer : BufferTyped(b, kind2)'
<1>1. UnusedBuffer \in Buffer /\ kind[UnusedBuffer] = "none"
  BY UnusedIsNone
<1>2. buffer \in [Buffer -> {buffer[b] : b \in Buffer}]
  BY DEF TypedBy
<1>3. PICK kind2 : kind2 = [kind EXCEPT ![UnusedBuffer] = k]
  OBVIOUS
<1>4. /\ kind2 \in Kind /\ UnusedBuffer \in Of(kind2, k)
      /\ \A b \in Buffer : b # UnusedBuffer => kind2[b] = kind[b]
      /\ \A b \in Buffer : kind[b] # "none" => kind2[b] = kind[b]
  BY <1>1, <1>3 DEF Kind, Of
<1>5. \A j : ItemT(kind, j) \subseteq ItemT(kind2, j)
  BY <1>4, MoreKinds
<1>6. \A j : \A s \in Seq(ItemT(kind, j) \cup {Garbage}) :
        s \in Seq(ItemT(kind2, j) \cup {Garbage})
  <2> TAKE j
  <2>1. PICK S : S = ItemT(kind, j) \cup {Garbage}
    OBVIOUS
  <2>2. PICK T : T = ItemT(kind2, j) \cup {Garbage}
    OBVIOUS
  <2>3. \A s \in Seq(S) : s \in Seq(T)
    BY <1>5, <2>1, <2>2
  <2> QED BY <2>1, <2>2, <2>3
<1>7. /\ buffer'[UnusedBuffer] = x
      /\ \A b \in Buffer : b # UnusedBuffer =>
           \/ buffer'[b] = buffer[b]
           \/ buffer'[b] = Freed /\ kind[b] # "none"
      /\ buffer' \in [Buffer -> {buffer'[b] : b \in Buffer}]
  <2>1. CASE buffer' = [buffer EXCEPT ![UnusedBuffer] = x]
    BY <1>1, <1>2, <2>1
  <2>2. ASSUME NEW old \in Of(kind, "dbs") \cup Of(kind, "tables"),
               buffer' = [buffer EXCEPT ![UnusedBuffer] = x, ![old] = Freed]
        PROVE  /\ buffer'[UnusedBuffer] = x
               /\ \A b \in Buffer : b # UnusedBuffer =>
                    \/ buffer'[b] = buffer[b]
                    \/ buffer'[b] = Freed /\ kind[b] # "none"
               /\ buffer' \in [Buffer -> {buffer'[b] : b \in Buffer}]
    <3>1. old \in Buffer /\ old # UnusedBuffer /\ kind[old] # "none"
      BY <1>1, <2>2 DEF Of
    <3> QED BY <1>1, <1>2, <2>2, <3>1
  <2> QED BY <2>1, <2>2
<1>8. ASSUME NEW b \in Buffer PROVE BufferTyped(b, kind2)'
  <2>1. CASE b = UnusedBuffer
    <3>1. kind2[b] = k /\ buffer'[b] \in Seq(ItemT(kind2, k) \cup {Garbage})
      BY <1>4, <1>6, <1>7, <2>1 DEF Of
    <3>2. k # "none"
      OBVIOUS
    <3> QED BY <3>1, <3>2 DEF BufferTyped
  <2>2. CASE b # UnusedBuffer
    <3>1. kind2[b] = kind[b] /\ BufferTyped(b, kind)
      BY <1>4, <2>2 DEF TypedBy
    <3> QED BY <1>6, <1>7, <2>2, <3>1 DEF BufferTyped
  <2> QED BY <2>1, <2>2
<1> QED BY <1>4, <1>7, <1>8

-----------------------------------------------------------------------------

LEMMA ManageTyped ==
  ASSUME NEW kind \in Kind, TypedBy(kind), NEW t \in Thread, Manage(t)
  PROVE  Typed'
<1> DEFINE me == thread[t]
<1>1. /\ me \in ThreadT /\ Begun(me) /\ Placed(me, kind)
      /\ thread \in [Thread -> ThreadT] /\ RestTyped
      /\ ManagersTyped(kind)
  BY DEF TypedBy, ThreadsTyped
<1>2. ASSUME NEW new \in ThreadT, thread' = [thread EXCEPT ![t] = new],
             UNCHANGED <<g_srDbCtrlManager, dbCtrlList, buffer>>, RestTyped',
             Begun(new), Placed(new, kind)
      PROVE  Typed'
  BY <1>2, LocalTyped DEF Typed
<1>3. ASSUME Searches(t, TheManager), me.pc # "idle", g_srDbCtrlManager # NULL
      PROVE  \E new \in ThreadT : /\ thread' = [thread EXCEPT ![t] = new]
                                  /\ Begun(new)
                                  /\ new.op = me.op /\ new.pc = "search"
                                  /\ new.place = TheManager /\ new.pass = me.pass
  <2>1. PICK new : new = [me EXCEPT !.pc = "search", !.place = TheManager, !.i = 1]
    OBVIOUS
  <2>2. TheManager \in PlaceType
    BY <1>1, <1>3 DEF TheManager, PlaceType, ManagersTyped
  <2>3. new \in ThreadT
    <3>1. PICK a : a = [me EXCEPT !.pc = "search"]
      OBVIOUS
    <3>2. PICK b : b = [a EXCEPT !.place = TheManager]
      OBVIOUS
    <3>3. a \in ThreadT
      BY <1>1, <3>1, Updated DEF Pc, Searching
    <3>4. b \in ThreadT
      BY <2>2, <3>2, <3>3, Updated
    <3>5. new = [b EXCEPT !.i = 1] /\ 1 \in Nat \ {0}
      BY <2>1, <3>1, <3>2
    <3> QED BY <3>4, <3>5, Updated
  <2>4. Begun(new)
    BY <1>1, <1>3, <2>1 DEF ThreadT, Begun
  <2>5. thread' = [thread EXCEPT ![t] = new]
    BY <1>1, <1>3, <2>1 DEF Searches
  <2>6. /\ new.op = me.op /\ new.pc = "search"
        /\ new.place = TheManager /\ new.pass = me.pass
    BY <1>1, <2>1 DEF ThreadT
  <2> QED BY <2>3, <2>4, <2>5, <2>6
<1>4. g_srDbCtrlManager # NULL => InManager(TheManager, kind)
  BY <1>1 DEF InManager, TheManager, ManagersTyped
<1>5. CASE GetDbCtrlManager(t)
  <2>1. me.pc = "manager" /\ me.op \in {"create", "drop"}
        /\ UNCHANGED <<g_srDbCtrlManager, dbCtrlList, buffer>> /\ RestTyped'
    BY <1>1, <1>5 DEF GetDbCtrlManager, At, Placed, shared, RestTyped
  <2>2. CASE g_srDbCtrlManager # NULL
    <3>1. PICK new \in ThreadT :
             /\ thread' = [thread EXCEPT ![t] = new]
             /\ Begun(new)
             /\ new.op = me.op /\ new.pc = "search" /\ new.place = TheManager
      BY <1>3, <1>5, <2>1, <2>2 DEF GetDbCtrlManager
    <3>2. Placed(new, kind)
      BY <1>4, <2>1, <2>2, <3>1 DEF Placed, Sought, Searching, Appending, Filling
    <3> QED BY <1>2, <2>1, <3>1, <3>2
  <2>3. CASE ~ (g_srDbCtrlManager # NULL)
    <3>1. PICK new : new = [me EXCEPT !.pc = "publish"]
      OBVIOUS
    <3>2. new \in ThreadT
      BY <1>1, <3>1 DEF ThreadT, Pc
    <3>3. Begun(new) /\ Placed(new, kind)
      BY <1>1, <2>1, <3>1 DEF ThreadT, Begun, Placed, Searching, Appending, Filling
    <3>4. thread' = [thread EXCEPT ![t] = new]
      BY <1>5, <2>3, <3>1 DEF GetDbCtrlManager, Goes
    <3> QED BY <1>2, <2>1, <3>2, <3>3, <3>4
  <2> QED BY <2>2, <2>3
<1>6. CASE OpenDb(t)
  <2>1. me.pc = "open" /\ me.op \in {"table", "insert"} /\ me.pass = 1
        /\ UNCHANGED <<g_srDbCtrlManager, dbCtrlList, buffer>> /\ RestTyped'
    BY <1>1, <1>6 DEF OpenDb, At, Placed, RestTyped
  <2>2. CASE g_srDbCtrlManager # NULL
    <3>1. PICK new \in ThreadT :
             /\ thread' = [thread EXCEPT ![t] = new]
             /\ Begun(new)
             /\ new.op = me.op /\ new.pc = "search" /\ new.place = TheManager
             /\ new.pass = me.pass
      BY <1>3, <1>6, <2>1, <2>2 DEF OpenDb
    <3>2. Placed(new, kind)
      BY <1>4, <2>1, <2>2, <3>1 DEF Placed, Sought, Searching, Appending, Filling
    <3> QED BY <1>2, <2>1, <3>1, <3>2
  <2>3. CASE ~ (g_srDbCtrlManager # NULL)
    <3>1. UNCHANGED thread
      BY <1>6, <2>3 DEF OpenDb
    <3>2. thread' = [thread EXCEPT ![t] = me]
      BY <1>1, <3>1
    <3> QED BY <1>1, <1>2, <2>1, <3>2
  <2> QED BY <2>2, <2>3
<1>7. CASE Publish(t)
  <2> DEFINE m == Least({n \in Manager : dbCtrlList[n] = Unused})
             v == [data |-> NULL, size |-> 0, capacity |-> 0]
  <2>1. m \in {n \in Manager : dbCtrlList[n] = Unused}
    BY <1>7, LeastIn, SimpleRelThreadsAssumption DEF Publish
  <2>2. m \in Manager /\ m # NULL /\ v \in ManagerT(kind)
    <3>1. m \in Manager /\ m # NULL
      BY <2>1, SimpleRelThreadsAssumption
    <3>2. v \in ManagerT(kind)
      BY DEF ManagerT
    <3> QED BY <3>1, <3>2
  <2>3. /\ g_srDbCtrlManager' = m /\ dbCtrlList' = [dbCtrlList EXCEPT ![m] = v]
        /\ thread' = [thread EXCEPT ![t].pc = "initVector"]
        /\ UNCHANGED <<server, g_dbGenNum, buffer, acked, races>> /\ me.pc = "publish"
    BY <1>7 DEF Publish, Goes, At
  <2> HIDE DEF m, v
  <2>4. dbCtrlList' \in [Manager -> {Unused} \cup ManagerT(kind)] /\ dbCtrlList'[m] = v
        /\ \A n \in Manager : n # m => dbCtrlList'[n] = dbCtrlList[n]
    BY <1>1, <2>2, <2>3 DEF ManagersTyped
  <2>5. ManagersTyped(kind)'
    BY <2>2, <2>3, <2>4 DEF ManagersTyped
  <2>6. PICK new : new = [me EXCEPT !.pc = "initVector"]
    OBVIOUS
  <2>7. new \in ThreadT
    BY <1>1, <2>6 DEF ThreadT, Pc
  <2>8. Begun(new) /\ Placed(new, kind)'
    BY <1>1, <2>2, <2>3, <2>6 DEF ThreadT, Begun, Placed, Searching, Appending, Filling
  <2>9. thread' = [thread EXCEPT ![t] = new]
    BY <2>3, <2>6
  <2>10. thread' \in [Thread -> ThreadT] /\ thread'[t] = new
         /\ \A u \in Thread : u # t => thread'[u] = thread[u]
    BY <1>1, <2>7, <2>9
  <2>11. ASSUME NEW u \in Thread PROVE Begun(thread[u])' /\ Placed(thread[u], kind)'
    <3>1. CASE u = t
      BY <2>8, <2>10, <3>1 DEF Begun, Placed
    <3>2. CASE u # t
      <4>1. \A n \in Manager : dbCtrlList[n] \in ManagerT(kind) =>
                                  dbCtrlList'[n] \in ManagerT(kind)
        BY <2>2, <2>4
      <4>2. g_srDbCtrlManager' # NULL
        BY <2>2, <2>3
      <4> QED BY <2>10, <3>2, <4>1, <4>2, OthersPlaced
    <3> QED BY <3>1, <3>2
  <2>12. (buffer \in [Buffer -> {buffer[b] : b \in Buffer}])'
         /\ \A b \in Buffer : BufferTyped(b, kind)'
    BY <2>3 DEF TypedBy, BufferTyped
  <2>13. RestTyped'
    BY <1>1, <2>3 DEF RestTyped
  <2>14. TypedBy(kind)'
    BY <2>5, <2>10, <2>11, <2>12, <2>13 DEF TypedBy, ThreadsTyped
  <2> QED BY <2>14 DEF Typed
<1>8. CASE InitVector(t)
  <2>1. /\ UnusedBuffers # {} /\ me.pc = "initVector"
        /\ dbCtrlList' = [dbCtrlList EXCEPT ![g_srDbCtrlManager] = NewVector(UnusedBuffer)]
        /\ buffer' = [buffer EXCEPT ![UnusedBuffer] = NewItems]
        /\ Searches(t, TheManager)
        /\ UNCHANGED <<server, g_srDbCtrlManager, g_dbGenNum, acked, races>>
    BY <1>8 DEF InitVector, At
  <2>2. g_srDbCtrlManager \in Manager /\ g_srDbCtrlManager # NULL
        /\ me.op \in {"create", "drop"}
    BY <1>1, <2>1 DEF Placed, ManagersTyped
  <2>3. NewItems \in Seq(ItemT(kind, "dbs") \cup {Garbage})
    BY NewItemsTyped
  <2>4. PICK kind2 \in Kind :
          /\ UnusedBuffer \in Of(kind2, "dbs")
          /\ \A b \in Buffer : kind[b] # "none" => kind2[b] = kind[b]
          /\ buffer' \in [Buffer -> {buffer'[b] : b \in Buffer}]
          /\ \A b \in Buffer : BufferTyped(b, kind2)'
    BY <2>1, <2>3, TakenTyped
  <2>5. NewVector(UnusedBuffer) \in ManagerT(kind2)
    BY <2>4, SimpleRelThreadsAssumption DEF NewVector, ManagerT
  <2>6. ManagerT(kind) \subseteq ManagerT(kind2)
    BY <2>4, MoreKinds
  <2>7. /\ dbCtrlList' \in [Manager -> {Unused} \cup ManagerT(kind2)]
        /\ \A m \in Manager : dbCtrlList[m] \in ManagerT(kind) =>
                                dbCtrlList'[m] \in ManagerT(kind2)
        /\ dbCtrlList'[g_srDbCtrlManager] \in ManagerT(kind2)
    BY <1>1, <2>1, <2>2, <2>5, <2>6 DEF ManagersTyped
  <2>8. PICK new \in ThreadT :
           /\ thread' = [thread EXCEPT ![t] = new]
           /\ Begun(new)
           /\ new.op = me.op /\ new.pc = "search" /\ new.place = TheManager
    BY <1>3, <2>1, <2>2
  <2>9. InManager(TheManager, kind2)'
    BY <2>1, <2>2, <2>7 DEF InManager, TheManager
  <2>10. Placed(new, kind2)'
    BY <2>1, <2>2, <2>8, <2>9 DEF Placed, Sought, Searching, Appending, Filling, TheManager
  <2>11. RestTyped'
    BY <1>1, <2>1 DEF RestTyped
  <2>12. TypedBy(kind2)'
    BY <2>1, <2>4, <2>7, <2>8, <2>10, <2>11, StepTyped
  <2> QED BY <2>12 DEF Typed
<1> QED BY <1>5, <1>6, <1>7, <1>8 DEF Manage

LEMMA LoadTyped ==
  ASSUME NEW kind \in Kind, TypedBy(kind), NEW t \in Thread, LoadGenNum(t)
  PROVE  Typed'
<1> DEFINE me == thread[t]
<1>1. /\ me \in ThreadT /\ Begun(me) /\ Placed(me, kind) /\ me.pc = "load"
      /\ thread \in [Thread -> ThreadT] /\ RestTyped
      /\ dbCtrlList \in [Manager -> {Unused} \cup ManagerT(kind)]
  BY DEF TypedBy, ThreadsTyped, ManagersTyped, LoadGenNum, At
<1>2. g_dbGenNum \in Id /\ g_dbGenNum \in Nat /\ g_dbGenNum < MaxGenNum
  BY <1>1, SimpleRelThreadsAssumption DEF LoadGenNum, RestTyped, Id
<1>3. RestTyped' /\ UNCHANGED <<g_srDbCtrlManager, dbCtrlList>>
  BY <1>1 DEF LoadGenNum, RestTyped
<1>4. CASE me.op = "create"
  <2>1. UnusedBuffers # {} /\ buffer' = [buffer EXCEPT ![UnusedBuffer] = NewItems]
    BY <1>4 DEF LoadGenNum
  <2>2. NewItems \in Seq(ItemT(kind, "tables") \cup {Garbage})
    BY NewItemsTyped
  <2>3. PICK kind2 \in Kind :
          /\ UnusedBuffer \in Of(kind2, "tables")
          /\ \A b \in Buffer : kind[b] # "none" => kind2[b] = kind[b]
          /\ buffer' \in [Buffer -> {buffer'[b] : b \in Buffer}]
          /\ \A b \in Buffer : BufferTyped(b, kind2)'
    BY <2>1, <2>2, TakenTyped
  <2>4. PICK item : item = [name |-> me.name, id |-> g_dbGenNum,
                            list |-> NewVector(UnusedBuffer)]
    OBVIOUS
  <2>5. item \in DbT(kind2) /\ item \in DbItem
    <3>1. me.name \in DbName
      BY <1>1, <1>4 DEF Begun
    <3>2. NewVector(UnusedBuffer) \in [data : Of(kind2, "tables"), size : Int, capacity : Nat]
      BY <2>3, SimpleRelThreadsAssumption DEF NewVector
    <3>3. item \in DbT(kind2)
      BY <1>2, <2>4, <3>1, <3>2 DEF DbT
    <3> QED BY <3>3 DEF DbT, DbItem, Of
  <2>6. PICK new : new = [me EXCEPT !.pc = "store", !.num = g_dbGenNum, !.item = item]
    OBVIOUS
  <2>7. new \in ThreadT
    BY <1>1, <1>2, <2>5, <2>6 DEF ThreadT, Pc, Appending
  <2>8. /\ new.op = "create" /\ new.pc = "store" /\ new.place = me.place
        /\ new.name = me.name /\ new.item = item /\ new.num = g_dbGenNum
    BY <1>1, <1>4, <2>6 DEF ThreadT
  <2>9. thread' = [thread EXCEPT ![t] = new]
    BY <1>4, <2>4, <2>6 DEF LoadGenNum
  <2>10. ManagerT(kind) \subseteq ManagerT(kind2)
    BY <2>3, MoreKinds
  <2>11. InManager(new.place, kind2)'
    BY <1>1, <1>3, <1>4, <2>8, <2>10 DEF Placed, Appending, InManager
  <2>12. Begun(new) /\ Placed(new, kind2)'
    BY <1>1, <1>2, <1>4, <2>5, <2>8, <2>11 DEF Begun, Placed, Searching, Appending, Filling, ItemT
  <2>13. TypedBy(kind2)'
    BY <1>1, <1>3, <2>3, <2>7, <2>9, <2>10, <2>12, StepTyped
  <2> QED BY <2>13 DEF Typed
<1>5. CASE me.op # "create"
  <2>1. me.op = "table" /\ UNCHANGED buffer
    BY <1>1, <1>5 DEF LoadGenNum, Placed, Appending
  <2>2. PICK item : item = [name |-> me.name, id |-> g_dbGenNum, dbId |-> me.dbId,
                            rowCnt |-> 0]
    OBVIOUS
  <2>3. item \in LabelItem
    BY <1>1, <1>2, <2>1, <2>2 DEF Begun, LabelItem
  <2>4. PICK new : new = [me EXCEPT !.pc = "store", !.num = g_dbGenNum, !.item = item]
    OBVIOUS
  <2>5. new \in ThreadT
    BY <1>1, <1>2, <2>3, <2>4 DEF ThreadT, Pc, Appending
  <2>6. /\ new.op = "table" /\ new.pc = "store" /\ new.place = me.place
        /\ new.name = me.name /\ new.dbId = me.dbId /\ new.item = item
        /\ new.num = g_dbGenNum
    BY <1>1, <2>1, <2>4 DEF ThreadT
  <2>7. thread' = [thread EXCEPT ![t] = new]
    BY <1>5, <2>2, <2>4 DEF LoadGenNum
  <2>8. Begun(new) /\ Placed(new, kind)
    BY <1>1, <1>2, <2>1, <2>3, <2>6 DEF Begun, Placed, Searching, Appending, Filling, ItemT
  <2>9. TypedBy(kind)'
    BY <1>3, <2>1, <2>5, <2>7, <2>8, LocalTyped
  <2> QED BY <2>9 DEF Typed
<1> QED BY <1>4, <1>5

LEMMA StoreTyped ==
  ASSUME NEW kind \in Kind, TypedBy(kind), NEW t \in Thread,
         StoreGenNum(t) \/ CheckCapacity(t)
  PROVE  Typed'
<1> DEFINE me == thread[t]
<1>1. /\ me \in ThreadT /\ Begun(me) /\ Placed(me, kind) /\ me.pc \in {"store", "check"}
      /\ thread \in [Thread -> ThreadT] /\ RestTyped /\ ManagersTyped(kind)
  BY DEF TypedBy, ThreadsTyped, StoreGenNum, CheckCapacity, At
<1>2. UNCHANGED <<g_srDbCtrlManager, dbCtrlList, buffer>>
  BY DEF StoreGenNum, CheckCapacity, shared
<1>3. CASE StoreGenNum(t)
  <2>1. me.pc = "store" /\ me.num \in Nat /\ me.num < MaxGenNum
    BY <1>1, <1>3 DEF StoreGenNum, At, Placed, ThreadT
  <2>2. RestTyped'
    BY <1>1, <1>3, <2>1, SimpleRelThreadsAssumption DEF StoreGenNum, RestTyped
  <2>3. PICK place : place = IF me.op = "create" THEN TheManager ELSE me.place
    OBVIOUS
  <2>4. me.op = "create" => InManager(place, kind)
    BY <1>1, <2>1, <2>3 DEF Placed, Appending, InManager, TheManager, ManagersTyped
  <2>5. place \in PlaceType
    BY <1>1, <2>3, <2>4 DEF InManager, PlaceType, ThreadT
  <2>6. PICK new : new = [me EXCEPT !.pc = "check", !.place = place]
    OBVIOUS
  <2>7. new \in ThreadT
    BY <1>1, <2>5, <2>6 DEF ThreadT, Pc, Searching, Appending, Filling
  <2>8. /\ new.op = me.op /\ new.pc = "check" /\ new.place = place /\ new.name = me.name
        /\ new.dbId = me.dbId /\ new.labelId = me.labelId /\ new.item = me.item
    BY <1>1, <2>6 DEF ThreadT
  <2>9. Begun(new) /\ Placed(new, kind)
    BY <1>1, <2>1, <2>3, <2>4, <2>8 DEF Begun, Placed, Searching, Appending, Filling
  <2>10. thread' = [thread EXCEPT ![t] = new]
    BY <1>3, <2>3, <2>6 DEF StoreGenNum
  <2>11. TypedBy(kind)'
    BY <1>2, <2>2, <2>7, <2>9, <2>10, LocalTyped
  <2> QED BY <2>11 DEF Typed
<1>4. CASE CheckCapacity(t)
  <2>1. me.pc = "check" /\ RestTyped'
    BY <1>1, <1>4 DEF CheckCapacity, At, RestTyped, shared
  <2>2. PICK pc \in {"realloc", "copy"} : thread' = [thread EXCEPT ![t].pc = pc]
    BY <1>4 DEF CheckCapacity, Goes
  <2>3. PICK new : new = [me EXCEPT !.pc = pc]
    OBVIOUS
  <2>4. new \in ThreadT
    BY <1>1, <2>3 DEF ThreadT, Pc, Searching, Appending, Filling
  <2>5. /\ new.op = me.op /\ new.pc = pc /\ new.place = me.place /\ new.name = me.name
        /\ new.dbId = me.dbId /\ new.labelId = me.labelId /\ new.item = me.item
    BY <1>1, <2>3 DEF ThreadT
  <2>6. Begun(new) /\ Placed(new, kind)
    BY <1>1, <2>1, <2>5 DEF Begun, Placed, Searching, Appending, Filling
  <2>7. thread' = [thread EXCEPT ![t] = new]
    BY <2>2, <2>3
  <2>8. TypedBy(kind)'
    BY <1>2, <2>1, <2>4, <2>6, <2>7, LocalTyped
  <2> QED BY <2>8 DEF Typed
<1> QED BY <1>3, <1>4

\* The vector that a request is putting its item into.
LEMMA FillingVector ==
  ASSUME NEW kind \in Kind, TypedBy(kind), NEW t \in Thread,
         thread[t].pc \in Filling, IsVector(thread[t].place)
  PROVE  LET me == thread[t]
             v  == Vector(t)
         IN  /\ me.op \in {"create", "table"}
             /\ v.size \in Int /\ v.capacity \in Nat
             /\ me.op = "create" =>
                  /\ InManager(me.place, kind) /\ v \in ManagerT(kind)
                  /\ IsArray(v.data) => v.data \in Of(kind, "dbs")
                  /\ me.item \in DbT(kind)
                  /\ me.pc = "setData" => me.num \in Of(kind, "dbs")
             /\ me.op = "table" =>
                  /\ InItem(me.place, kind, "dbs")
                  /\ v \in [data : Of(kind, "tables"), size : Int, capacity : Nat]
                  /\ v.data \in Of(kind, "tables")
                  /\ me.item \in LabelItem
                  /\ me.pc = "setData" => me.num \in Of(kind, "tables")
<1> DEFINE me == thread[t]
           v  == Vector(t)
<1>1. me.op \in {"create", "table"} /\ Placed(me, kind)
  BY DEF TypedBy, ThreadsTyped, Placed, Appending
<1>2. ASSUME me.op = "create"
      PROVE  /\ InManager(me.place, kind) /\ v \in ManagerT(kind)
             /\ v.size \in Int /\ v.capacity \in Nat
             /\ IsArray(v.data) => v.data \in Of(kind, "dbs")
             /\ me.item \in DbT(kind)
             /\ me.pc = "setData" => me.num \in Of(kind, "dbs")
  <2>1. InManager(me.place, kind)
    BY <1>1, <1>2 DEF Placed, Appending
  <2>2. v \in ManagerT(kind)
    BY <2>1, VectorTyped DEF Vector
  <2>3. v.size \in Int /\ v.capacity \in Nat /\ (IsArray(v.data) => v.data \in Of(kind, "dbs"))
    BY <2>2, SimpleRelThreadsAssumption DEF ManagerT, IsArray
  <2>4. me.item \in DbT(kind) /\ (me.pc = "setData" => me.num \in Of(kind, "dbs"))
    BY <1>1, <1>2 DEF Placed, ItemT
  <2> QED BY <2>1, <2>2, <2>3, <2>4
<1>3. ASSUME me.op = "table"
      PROVE  /\ InItem(me.place, kind, "dbs")
             /\ v \in [data : Of(kind, "tables"), size : Int, capacity : Nat]
             /\ v.data \in Of(kind, "tables")
             /\ v.size \in Int /\ v.capacity \in Nat
             /\ me.item \in LabelItem
             /\ me.pc = "setData" => me.num \in Of(kind, "tables")
  <2>1. InItem(me.place, kind, "dbs")
    BY <1>1, <1>3 DEF Placed, Appending
  <2>2. v \in [data : Of(kind, "tables"), size : Int, capacity : Nat]
    BY <2>1, VectorTyped DEF Vector
  <2>3. me.item \in LabelItem /\ (me.pc = "setData" => me.num \in Of(kind, "tables"))
    BY <1>1, <1>3 DEF Placed, ItemT
  <2> QED BY <2>1, <2>2, <2>3
<1> QED BY <1>1, <1>2, <1>3

\* A vector is set where it lies.
LEMMA SetVectorTyped ==
  ASSUME NEW kind \in Kind, TypedBy(kind), NEW place, NEW vector,
         SetVector(place, vector), IsVector(place),
         \/ InManager(place, kind) /\ vector \in ManagerT(kind)
         \/ /\ InItem(place, kind, "dbs")
            /\ vector \in [data : Of(kind, "tables"), size : Int, capacity : Nat]
  PROVE  /\ \A b \in Buffer : BufferTyped(b, kind)'
         /\ (buffer \in [Buffer -> {buffer[b] : b \in Buffer}])'
         /\ dbCtrlList' \in [Manager -> {Unused} \cup ManagerT(kind)]
         /\ \A m \in Manager : dbCtrlList[m] \in ManagerT(kind) =>
                                dbCtrlList'[m] \in ManagerT(kind)
<1>1. /\ buffer \in [Buffer -> {buffer[b] : b \in Buffer}]
      /\ \A b \in Buffer : BufferTyped(b, kind)
      /\ dbCtrlList \in [Manager -> {Unused} \cup ManagerT(kind)]
  BY DEF TypedBy, ManagersTyped
<1>2. CASE InManager(place, kind) /\ vector \in ManagerT(kind)
  <2>1. IsManager(place) /\ place.manager \in Manager
    BY <1>2, VectorTyped DEF InManager
  <2>2. dbCtrlList' = [dbCtrlList EXCEPT ![place.manager] = vector] /\ UNCHANGED buffer
    BY <2>1 DEF SetVector
  <2>3. /\ \A b \in Buffer : BufferTyped(b, kind)'
        /\ (buffer \in [Buffer -> {buffer[b] : b \in Buffer}])'
    BY <1>1, <2>2 DEF BufferTyped
  <2> QED BY <1>1, <1>2, <2>1, <2>2, <2>3
<1>3. CASE /\ InItem(place, kind, "dbs")
           /\ vector \in [data : Of(kind, "tables"), size : Int, capacity : Nat]
  <2>1. ~ IsManager(place) /\ IsItem(place.data, place.index)
        /\ place.data \in Of(kind, "dbs")
    BY <1>3, VectorTyped DEF InItem
  <2>2. /\ buffer' = [buffer EXCEPT ![place.data][place.index].list = vector]
        /\ UNCHANGED dbCtrlList
    BY <2>1 DEF SetVector
  <2>3. IsArray(place.data) /\ place.index \in DOMAIN buffer[place.data]
        /\ buffer[place.data][place.index] \in DbT(kind)
    BY <2>1, ItemAt DEF IsItem
  <2>4. PICK item : item = [buffer[place.data][place.index] EXCEPT !.list = vector]
    OBVIOUS
  <2>5. item \in DbT(kind)
    BY <1>3, <2>3, <2>4 DEF DbT
  <2>6. PICK array : array = [buffer[place.data] EXCEPT ![place.index] = item]
    OBVIOUS
  <2>7. buffer' = [buffer EXCEPT ![place.data] = array]
    BY <2>2, <2>4, <2>6
  <2>8. \A b \in Buffer : BufferTyped(b, kind)'
    BY <2>1, <2>3, <2>5, <2>6, <2>7, WrittenTyped DEF ItemT
  <2>9. (buffer \in [Buffer -> {buffer[b] : b \in Buffer}])'
    BY <1>1, <2>7
  <2> QED BY <1>1, <2>2, <2>8, <2>9
<1> QED BY <1>2, <1>3

LEMMA SetDataTyped ==
  ASSUME NEW kind \in Kind, TypedBy(kind), NEW t \in Thread, SetData(t)
  PROVE  Typed'
<1> DEFINE me == thread[t]
           v  == Vector(t)
<1>1. /\ me \in ThreadT /\ Begun(me) /\ Placed(me, kind) /\ me.pc = "setData"
      /\ thread \in [Thread -> ThreadT] /\ RestTyped
  BY DEF TypedBy, ThreadsTyped, SetData, At
<1>2. RestTyped' /\ UNCHANGED g_srDbCtrlManager
  BY <1>1 DEF SetData, RestTyped, SetVector
<1>3. PICK vector : vector = [v EXCEPT !.data = me.num, !.capacity = 2 * v.capacity]
  OBVIOUS
<1>4. SetVector(me.place, vector) /\ IsVector(me.place)
      /\ thread' = [thread EXCEPT ![t].pc = "copy"]
  BY <1>3 DEF SetData, Goes
<1>5. /\ me.op \in {"create", "table"}
      /\ me.op = "create" => InManager(me.place, kind) /\ v \in ManagerT(kind)
                             /\ me.num \in Of(kind, "dbs")
      /\ me.op = "table" =>
           /\ InItem(me.place, kind, "dbs")
           /\ v \in [data : Of(kind, "tables"), size : Int, capacity : Nat]
           /\ me.num \in Of(kind, "tables")
      /\ v.capacity \in Nat
  <2>1. me.pc \in Filling
    BY <1>1 DEF Filling
  <2> QED BY <1>1, <1>4, <2>1, FillingVector
<1>6. \/ InManager(me.place, kind) /\ vector \in ManagerT(kind)
      \/ /\ InItem(me.place, kind, "dbs")
         /\ vector \in [data : Of(kind, "tables"), size : Int, capacity : Nat]
  <2>1. 2 * v.capacity \in Nat
    BY <1>5
  <2>2. CASE me.op = "create"
    BY <1>3, <1>5, <2>1, <2>2 DEF ManagerT
  <2>3. CASE me.op = "table"
    BY <1>3, <1>5, <2>1, <2>3
  <2> QED BY <1>5, <2>2, <2>3
<1>7. /\ \A b \in Buffer : BufferTyped(b, kind)'
      /\ (buffer \in [Buffer -> {buffer[b] : b \in Buffer}])'
      /\ dbCtrlList' \in [Manager -> {Unused} \cup ManagerT(kind)]
      /\ \A m \in Manager : dbCtrlList[m] \in ManagerT(kind) =>
                             dbCtrlList'[m] \in ManagerT(kind)
  BY <1>4, <1>6, SetVectorTyped
<1>8. PICK new : new = [me EXCEPT !.pc = "copy"]
  OBVIOUS
<1>9. new \in ThreadT
  BY <1>1, <1>8 DEF ThreadT, Pc, Searching, Appending, Filling
<1>10. /\ new.op = me.op /\ new.pc = "copy" /\ new.place = me.place /\ new.name = me.name
       /\ new.dbId = me.dbId /\ new.labelId = me.labelId /\ new.item = me.item
  BY <1>1, <1>8 DEF ThreadT
<1>11. InManager(me.place, kind) => InManager(new.place, kind)'
  BY <1>2, <1>7, <1>10 DEF InManager
<1>12. Begun(new) /\ Placed(new, kind)'
  BY <1>1, <1>10, <1>11 DEF Begun, Placed, Searching, Appending, Filling
<1>13. thread' = [thread EXCEPT ![t] = new]
  BY <1>4, <1>8
<1>14. TypedBy(kind)'
  BY <1>1, <1>2, <1>7, <1>9, <1>12, <1>13, StepTyped
<1> QED BY <1>14 DEF Typed

LEMMA AddSizeTyped ==
  ASSUME NEW kind \in Kind, TypedBy(kind), NEW t \in Thread, AddSize(t)
  PROVE  Typed'
<1> DEFINE me == thread[t]
           v  == Vector(t)
<1>1. /\ me \in ThreadT /\ me.pc = "size"
      /\ thread \in [Thread -> ThreadT] /\ RestTyped
  BY DEF TypedBy, ThreadsTyped, AddSize, At
<1>2. PICK vector : vector = [v EXCEPT !.size = v.size + 1]
  OBVIOUS
<1>3. SetVector(me.place, vector) /\ IsVector(me.place)
      /\ thread' = [thread EXCEPT ![t] = Idle]
      /\ UNCHANGED <<server, g_srDbCtrlManager, g_dbGenNum, races>>
  BY <1>2 DEF AddSize, Answers
<1>4. /\ me.op \in {"create", "table"}
      /\ me.op = "create" => /\ InManager(me.place, kind) /\ v \in ManagerT(kind)
                             /\ me.item \in DbT(kind)
      /\ me.op = "table" =>
           /\ InItem(me.place, kind, "dbs") /\ me.item \in LabelItem
           /\ v \in [data : Of(kind, "tables"), size : Int, capacity : Nat]
      /\ v.size \in Int
  <2>1. me.pc \in Filling
    BY <1>1 DEF Filling
  <2> QED BY <1>3, <2>1, FillingVector
<1>5. \/ InManager(me.place, kind) /\ vector \in ManagerT(kind)
      \/ /\ InItem(me.place, kind, "dbs")
         /\ vector \in [data : Of(kind, "tables"), size : Int, capacity : Nat]
  <2>1. v.size + 1 \in Int
    BY <1>4
  <2>2. CASE me.op = "create"
    BY <1>2, <1>4, <2>1, <2>2 DEF ManagerT
  <2>3. CASE me.op = "table"
    BY <1>2, <1>4, <2>1, <2>3
  <2> QED BY <1>4, <2>2, <2>3
<1>6. /\ \A b \in Buffer : BufferTyped(b, kind)'
      /\ (buffer \in [Buffer -> {buffer[b] : b \in Buffer}])'
      /\ dbCtrlList' \in [Manager -> {Unused} \cup ManagerT(kind)]
      /\ \A m \in Manager : dbCtrlList[m] \in ManagerT(kind) =>
                             dbCtrlList'[m] \in ManagerT(kind)
  BY <1>3, <1>5, SetVectorTyped
<1>7. acked' \in [dbs    : SUBSET [name : DbName, id : Id],
                  tables : SUBSET [dbId : Nat, id : Id],
                  rows   : [Id -> Nat]]
  <2>1. acked \in [dbs    : SUBSET [name : DbName, id : Id],
                   tables : SUBSET [dbId : Nat, id : Id],
                   rows   : [Id -> Nat]]
    BY <1>1 DEF RestTyped
  <2>2. CASE me.op = "create"
    <3>1. [name |-> me.item.name, id |-> me.item.id] \in [name : DbName, id : Id]
      BY <1>4, <2>2 DEF DbT
    <3> QED BY <2>1, <2>2, <3>1 DEF AddSize
  <2>3. CASE me.op = "table"
    <3>1. [dbId |-> me.item.dbId, id |-> me.item.id] \in [dbId : Nat, id : Id]
      BY <1>4, <2>3 DEF LabelItem
    <3> QED BY <2>1, <2>3, <3>1 DEF AddSize
  <2> QED BY <1>4, <2>2, <2>3
<1>8. RestTyped'
  BY <1>1, <1>3, <1>7 DEF RestTyped
<1>9. Placed(Idle, kind)'
  BY DEF Idle, Placed, Searching, Appending, Filling
<1>10. TypedBy(kind)'
  BY <1>1, <1>3, <1>6, <1>8, <1>9, IdleTyped, StepTyped
<1> QED BY <1>10 DEF Typed

LEMMA ReallocTyped ==
  ASSUME NEW kind \in Kind, TypedBy(kind), NEW t \in Thread, Realloc(t)
  PROVE  Typed'
<1> DEFINE me == thread[t]
           v  == Vector(t)
<1>1. /\ me \in ThreadT /\ Begun(me) /\ Placed(me, kind) /\ me.pc = "realloc"
      /\ thread \in [Thread -> ThreadT] /\ RestTyped
      /\ dbCtrlList \in [Manager -> {Unused} \cup ManagerT(kind)]
      /\ buffer \in [Buffer -> {buffer[b] : b \in Buffer}]
  BY DEF TypedBy, ThreadsTyped, ManagersTyped, Realloc, At
<1>2. RestTyped' /\ UNCHANGED <<g_srDbCtrlManager, dbCtrlList>>
  BY <1>1 DEF Realloc, RestTyped
<1>3. PICK k \in {"dbs", "tables"} : k = IF me.op = "create" THEN "dbs" ELSE "tables"
  OBVIOUS
<1>4. /\ v.data \in Of(kind, k) /\ v.capacity \in Nat /\ IsArray(v.data)
      /\ me.op \in {"create", "table"}
  <2>1. me.pc \in Filling /\ IsVector(me.place) /\ IsArray(v.data)
    BY <1>1 DEF Filling, Realloc
  <2> QED BY <1>3, <2>1, FillingVector
<1>5. PICK more : more = [i \in 1 .. 2 * v.capacity |->
                            IF i \in DOMAIN buffer[v.data] THEN buffer[v.data][i] ELSE Garbage]
  OBVIOUS
<1>6. more \in Seq(ItemT(kind, k) \cup {Garbage})
  <2>1. \A i \in DOMAIN buffer[v.data] : buffer[v.data][i] \in ItemT(kind, k) \cup {Garbage}
    BY <1>4, ArrayAt
  <2>2. 2 * v.capacity \in Nat
    BY <1>4
  <2> HIDE DEF v
  <2> QED BY <1>5, <2>1, <2>2
<1>7. ASSUME NEW kind2 \in Kind, NEW b \in Of(kind2, k),
             \A c \in Buffer : kind[c] # "none" => kind2[c] = kind[c],
             buffer' \in [Buffer -> {buffer'[c] : c \in Buffer}],
             \A c \in Buffer : BufferTyped(c, kind2)',
             thread' = [thread EXCEPT ![t].pc = "setData", ![t].num = b]
      PROVE  Typed'
  <2>1. b \in Nat
    BY SimpleRelThreadsAssumption DEF Of
  <2>2. PICK new : new = [me EXCEPT !.pc = "setData", !.num = b]
    OBVIOUS
  <2>3. new \in ThreadT
    BY <1>1, <2>1, <2>2 DEF ThreadT, Pc, Searching, Appending, Filling
  <2>4. /\ new.op = me.op /\ new.pc = "setData" /\ new.place = me.place /\ new.num = b
        /\ new.name = me.name /\ new.dbId = me.dbId /\ new.labelId = me.labelId
        /\ new.item = me.item
    BY <1>1, <2>2 DEF ThreadT
  <2>5. /\ ManagerT(kind) \subseteq ManagerT(kind2)
        /\ \A j : ItemT(kind, j) \subseteq ItemT(kind2, j)
        /\ \A place : InItem(place, kind, "dbs") => InItem(place, kind2, "dbs")
    BY <1>7, MoreKinds
  <2>6. InManager(me.place, kind) => InManager(new.place, kind2)'
    BY <1>2, <2>4, <2>5 DEF InManager
  <2>7. Begun(new) /\ Placed(new, kind2)'
    BY <1>1, <1>3, <2>4, <2>5, <2>6 DEF Begun, Placed, Searching, Appending, Filling
  <2>8. thread' = [thread EXCEPT ![t] = new]
    BY <1>7, <2>2
  <2>9. /\ dbCtrlList' \in [Manager -> {Unused} \cup ManagerT(kind2)]
        /\ \A m \in Manager : dbCtrlList[m] \in ManagerT(kind) =>
                               dbCtrlList'[m] \in ManagerT(kind2)
    BY <1>1, <1>2, <2>5
  <2>10. TypedBy(kind2)'
    BY <1>2, <1>7, <2>3, <2>7, <2>8, <2>9, StepTyped
  <2> QED BY <2>10 DEF Typed
<1>8. CASE /\ buffer' = [buffer EXCEPT ![v.data] = more]
           /\ thread' = [thread EXCEPT ![t].pc = "setData", ![t].num = v.data]
  <2>1. v.data \in Buffer /\ kind[v.data] = k /\ k # "none"
    BY <1>4 DEF Of
  <2>2. buffer'[v.data] = more /\ \A c \in Buffer : c # v.data => buffer'[c] = buffer[c]
    BY <1>1, <1>8, <2>1
  <2>3. \A c \in Buffer : BufferTyped(c, kind)'
    BY <1>6, <2>1, <2>2 DEF TypedBy, BufferTyped
  <2>4. buffer' \in [Buffer -> {buffer'[c] : c \in Buffer}]
    BY <1>1, <1>8
  <2> QED BY <1>4, <1>7, <1>8, <2>3, <2>4
<1>9. CASE /\ UnusedBuffers # {}
           /\ buffer' = [buffer EXCEPT ![UnusedBuffer] = more, ![v.data] = Freed]
           /\ thread' = [thread EXCEPT ![t].pc = "setData", ![t].num = UnusedBuffer]
  <2>1. v.data \in Of(kind, "dbs") \cup Of(kind, "tables")
    BY <1>3, <1>4
  <2>2. PICK kind2 \in Kind :
          /\ UnusedBuffer \in Of(kind2, k)
          /\ \A b \in Buffer : kind[b] # "none" => kind2[b] = kind[b]
          /\ buffer' \in [Buffer -> {buffer'[b] : b \in Buffer}]
          /\ \A b \in Buffer : BufferTyped(b, kind2)'
    BY <1>6, <1>9, <2>1, TakenTyped
  <2> QED BY <1>7, <1>9, <2>2
<1> QED BY <1>5, <1>8, <1>9 DEF Realloc

LEMMA CopyItemTyped ==
  ASSUME NEW kind \in Kind, TypedBy(kind), NEW t \in Thread, CopyItem(t)
  PROVE  Typed'
<1> DEFINE me == thread[t]
           v  == Vector(t)
<1>1. /\ me \in ThreadT /\ Begun(me) /\ Placed(me, kind) /\ me.pc = "copy"
      /\ thread \in [Thread -> ThreadT] /\ RestTyped
      /\ dbCtrlList \in [Manager -> {Unused} \cup ManagerT(kind)]
      /\ buffer \in [Buffer -> {buffer[b] : b \in Buffer}]
  BY DEF TypedBy, ThreadsTyped, ManagersTyped, CopyItem, At
<1>2. RestTyped' /\ UNCHANGED <<g_srDbCtrlManager, dbCtrlList>>
      /\ buffer' = [buffer EXCEPT ![v.data][v.size + 1] = me.item]
      /\ thread' = [thread EXCEPT ![t].pc = "size"]
  BY <1>1 DEF CopyItem, RestTyped, Goes, Meets
<1>3. PICK k \in {"dbs", "tables"} : k = IF me.op = "create" THEN "dbs" ELSE "tables"
  OBVIOUS
<1>4. /\ v.data \in Of(kind, k) /\ IsArray(v.data) /\ v.size + 1 \in DOMAIN buffer[v.data]
      /\ me.item \in ItemT(kind, k)
  <2>1. me.pc \in Filling /\ IsVector(me.place) /\ IsSlot(v)
    BY <1>1 DEF Filling, CopyItem
  <2>2. IsArray(v.data) /\ v.size + 1 \in DOMAIN buffer[v.data]
    BY <2>1 DEF IsSlot
  <2>3. me.item \in DbT(kind) \/ me.op # "create"
    BY <2>1, FillingVector
  <2>4. me.item \in LabelItem \/ me.op # "table"
    BY <2>1, FillingVector
  <2>5. me.op \in {"create", "table"} /\ v.data \in Of(kind, k)
    BY <1>3, <2>1, <2>2, FillingVector
  <2> QED BY <1>3, <2>2, <2>3, <2>4, <2>5 DEF ItemT
<1>5. buffer' = [buffer EXCEPT ![v.data] = [buffer[v.data] EXCEPT ![v.size + 1] = me.item]]
  BY <1>2
<1>6. \A b \in Buffer : BufferTyped(b, kind)'
  BY <1>4, <1>5, WrittenTyped
<1>7. buffer' \in [Buffer -> {buffer'[b] : b \in Buffer}]
  BY <1>1, <1>2
<1>8. PICK new : new = [me EXCEPT !.pc = "size"]
  OBVIOUS
<1>9. new \in ThreadT
  BY <1>1, <1>8 DEF ThreadT, Pc, Searching, Appending, Filling
<1>10. /\ new.op = me.op /\ new.pc = "size" /\ new.place = me.place /\ new.name = me.name
       /\ new.dbId = me.dbId /\ new.labelId = me.labelId /\ new.item = me.item
  BY <1>1, <1>8 DEF ThreadT
<1>11. InManager(me.place, kind) => InManager(new.place, kind)'
  BY <1>2, <1>10 DEF InManager
<1>12. Begun(new) /\ Placed(new, kind)'
  BY <1>1, <1>10, <1>11 DEF Begun, Placed, Searching, Appending, Filling
<1>13. thread' = [thread EXCEPT ![t] = new]
  BY <1>2, <1>8
<1>14. TypedBy(kind)'
  BY <1>1, <1>2, <1>6, <1>7, <1>9, <1>12, <1>13, StepTyped
<1> QED BY <1>14 DEF Typed

LEMMA MoveItemTyped ==
  ASSUME NEW kind \in Kind, TypedBy(kind), NEW t \in Thread, MoveItem(t)
  PROVE  Typed'
<1> DEFINE me == thread[t]
           v  == Vector(t)
<1>1. /\ me \in ThreadT /\ Begun(me) /\ Placed(me, kind) /\ me.pc = "move"
      /\ thread \in [Thread -> ThreadT] /\ RestTyped
      /\ dbCtrlList \in [Manager -> {Unused} \cup ManagerT(kind)]
      /\ buffer \in [Buffer -> {buffer[b] : b \in Buffer}]
  BY DEF TypedBy, ThreadsTyped, ManagersTyped, MoveItem, At
<1>2. RestTyped' /\ UNCHANGED <<g_srDbCtrlManager, dbCtrlList>>
      /\ buffer' = [buffer EXCEPT ![v.data][me.i] = buffer[v.data][me.i + 1]]
      /\ thread' = [thread EXCEPT ![t].i = me.i + 1] /\ IsItem(v.data, me.i + 1)
  BY <1>1 DEF MoveItem, RestTyped, Meets
<1>3. me.op = "drop" /\ InManager(me.place, kind) /\ v \in ManagerT(kind)
  BY <1>1, VectorTyped DEF Placed, Vector
<1>4. v.data \in Of(kind, "dbs") /\ IsArray(v.data) /\ me.i \in DOMAIN buffer[v.data]
      /\ buffer[v.data][me.i + 1] \in ItemT(kind, "dbs")
  <2>1. v.data \in Of(kind, "dbs")
    BY <1>2, <1>3, SimpleRelThreadsAssumption DEF ManagerT, IsItem, IsArray
  <2>2. buffer[v.data][me.i + 1] \in ItemT(kind, "dbs") /\ me.i + 1 \in 1 .. Len(buffer[v.data])
    BY <1>2, <2>1, ItemAt
  <2>3. IsArray(v.data) /\ DOMAIN buffer[v.data] = 1 .. Len(buffer[v.data])
        /\ Len(buffer[v.data]) \in Nat
    BY <1>2, <2>1, ArrayAt DEF IsItem
  <2>4. me.i \in Nat \ {0}
    BY <1>1 DEF ThreadT
  <2> QED BY <2>1, <2>2, <2>3, <2>4
<1>5. buffer' = [buffer EXCEPT ![v.data] =
                   [buffer[v.data] EXCEPT ![me.i] = buffer[v.data][me.i + 1]]]
  BY <1>2
<1>6. \A b \in Buffer : BufferTyped(b, kind)'
  <2>1. PICK k \in {"dbs", "tables"} : k = "dbs"
    OBVIOUS
  <2>2. PICK x : x = buffer[v.data][me.i + 1]
    OBVIOUS
  <2>3. /\ v.data \in Of(kind, k) /\ IsArray(v.data) /\ me.i \in DOMAIN buffer[v.data]
        /\ x \in ItemT(kind, k) \cup {Garbage}
    BY <1>4, <2>1, <2>2
  <2>4. buffer' = [buffer EXCEPT ![v.data] = [buffer[v.data] EXCEPT ![me.i] = x]]
    BY <1>5, <2>2
  <2> HIDE DEF me, v
  <2> QED BY <2>3, <2>4, WrittenTyped
<1>7. buffer' \in [Buffer -> {buffer'[b] : b \in Buffer}]
  BY <1>1, <1>2
<1>8. PICK new : new = [me EXCEPT !.i = me.i + 1]
  OBVIOUS
<1>9. new \in ThreadT
  BY <1>1, <1>8 DEF ThreadT
<1>10. /\ new.op = me.op /\ new.pc = "move" /\ new.place = me.place /\ new.name = me.name
       /\ new.dbId = me.dbId /\ new.labelId = me.labelId
  BY <1>1, <1>8 DEF ThreadT
<1>11. InManager(new.place, kind)'
  BY <1>2, <1>3, <1>10 DEF InManager
<1>12. Begun(new) /\ Placed(new, kind)'
  BY <1>1, <1>3, <1>10, <1>11 DEF Begun, Placed, Searching, Appending, Filling
<1>13. thread' = [thread EXCEPT ![t] = new]
  BY <1>2, <1>8
<1>14. TypedBy(kind)'
  BY <1>1, <1>2, <1>6, <1>7, <1>9, <1>12, <1>13, StepTyped
<1> QED BY <1>14 DEF Typed

LEMMA SubtractSizeTyped ==
  ASSUME NEW kind \in Kind, TypedBy(kind), NEW t \in Thread, SubtractSize(t)
  PROVE  Typed'
<1> DEFINE me == thread[t]
           v  == Vector(t)
<1>1. /\ me \in ThreadT /\ me.pc = "move" /\ Placed(me, kind)
      /\ thread \in [Thread -> ThreadT] /\ RestTyped
  BY DEF TypedBy, ThreadsTyped, SubtractSize, At
<1>2. PICK vector : vector = [v EXCEPT !.size = v.size - 1]
  OBVIOUS
<1>3. SetVector(me.place, vector) /\ thread' = [thread EXCEPT ![t] = Idle]
      /\ UNCHANGED <<server, g_srDbCtrlManager, g_dbGenNum, acked, races>>
  BY <1>2 DEF SubtractSize, Answers
<1>4. InManager(me.place, kind) /\ v \in ManagerT(kind) /\ IsVector(me.place)
  BY <1>1, VectorTyped DEF Placed, Vector
<1>5. vector \in ManagerT(kind)
  BY <1>2, <1>4 DEF ManagerT
<1>6. /\ \A b \in Buffer : BufferTyped(b, kind)'
      /\ (buffer \in [Buffer -> {buffer[b] : b \in Buffer}])'
      /\ dbCtrlList' \in [Manager -> {Unused} \cup ManagerT(kind)]
      /\ \A m \in Manager : dbCtrlList[m] \in ManagerT(kind) =>
                             dbCtrlList'[m] \in ManagerT(kind)
  BY <1>3, <1>4, <1>5, SetVectorTyped
<1>7. RestTyped'
  BY <1>1, <1>3 DEF RestTyped
<1>8. Placed(Idle, kind)'
  BY DEF Idle, Placed, Searching, Appending, Filling
<1>9. TypedBy(kind)'
  BY <1>1, <1>3, <1>6, <1>7, <1>8, IdleTyped, StepTyped
<1> QED BY <1>9 DEF Typed

LEMMA RowTyped ==
  ASSUME NEW kind \in Kind, TypedBy(kind), NEW t \in Thread,
         ReadRowCnt(t) \/ WriteRowCnt(t)
  PROVE  Typed'
<1> DEFINE me == thread[t]
           d  == me.place.data
           i  == me.place.index
<1>1. /\ me \in ThreadT /\ Begun(me) /\ Placed(me, kind) /\ me.pc \in {"row", "count"}
      /\ thread \in [Thread -> ThreadT] /\ RestTyped
      /\ dbCtrlList \in [Manager -> {Unused} \cup ManagerT(kind)]
      /\ buffer \in [Buffer -> {buffer[b] : b \in Buffer}]
      /\ IsItem(d, i)
  BY DEF TypedBy, ThreadsTyped, ManagersTyped, ReadRowCnt, WriteRowCnt, At
<1>2. me.op = "insert" /\ InItem(me.place, kind, "tables") /\ d \in Of(kind, "tables")
  BY <1>1 DEF Placed, InItem
<1>3. buffer[d][i] \in LabelItem /\ i \in DOMAIN buffer[d] /\ IsArray(d)
  BY <1>1, <1>2, ItemAt DEF IsItem
<1>4. CASE ReadRowCnt(t)
  <2>1. PICK new : new = [me EXCEPT !.pc = "count", !.num = buffer[d][i].rowCnt]
    OBVIOUS
  <2>2. new \in ThreadT
    BY <1>1, <1>3, <2>1 DEF ThreadT, Pc, LabelItem
  <2>3. /\ new.op = me.op /\ new.pc = "count" /\ new.place = me.place /\ new.name = me.name
        /\ new.dbId = me.dbId /\ new.labelId = me.labelId
    BY <1>1, <2>1 DEF ThreadT
  <2>4. Begun(new) /\ Placed(new, kind)
    BY <1>1, <1>2, <2>3 DEF Begun, Placed, Searching, Appending, Filling
  <2>5. thread' = [thread EXCEPT ![t] = new]
    BY <1>4, <2>1 DEF ReadRowCnt
  <2>6. RestTyped' /\ UNCHANGED <<g_srDbCtrlManager, dbCtrlList, buffer>>
    BY <1>1, <1>4 DEF RestTyped, ReadRowCnt, shared
  <2>7. TypedBy(kind)'
    BY <2>2, <2>4, <2>5, <2>6, LocalTyped
  <2> QED BY <2>7 DEF Typed
<1>5. CASE WriteRowCnt(t)
  <2>1. /\ buffer' = [buffer EXCEPT ![d][i].rowCnt = me.num + 1]
        /\ acked' = [acked EXCEPT !.rows[me.labelId] = @ + 1]
        /\ thread' = [thread EXCEPT ![t] = Idle]
        /\ UNCHANGED <<server, g_srDbCtrlManager, dbCtrlList, g_dbGenNum, races>>
    BY <1>5 DEF WriteRowCnt, Answers
  <2>2. PICK item : item = [buffer[d][i] EXCEPT !.rowCnt = me.num + 1]
    OBVIOUS
  <2>3. item \in LabelItem
    <3>1. PICK n \in Nat : n = me.num + 1
      BY <1>1 DEF ThreadT
    <3>2. PICK old \in LabelItem : old = buffer[d][i]
      BY <1>3
    <3>3. item = [old EXCEPT !.rowCnt = n]
      BY <2>2, <3>1, <3>2
    <3> QED BY <3>3 DEF LabelItem
  <2>4. buffer' = [buffer EXCEPT ![d] = [buffer[d] EXCEPT ![i] = item]]
    BY <2>1, <2>2
  <2>5. \A b \in Buffer : BufferTyped(b, kind)'
    BY <1>2, <1>3, <2>3, <2>4, WrittenTyped DEF ItemT
  <2>6. buffer' \in [Buffer -> {buffer'[b] : b \in Buffer}]
    BY <1>1, <2>1
  <2>7. acked' \in [dbs    : SUBSET [name : DbName, id : Id],
                    tables : SUBSET [dbId : Nat, id : Id],
                    rows   : [Id -> Nat]]
    <3>1. acked \in [dbs    : SUBSET [name : DbName, id : Id],
                     tables : SUBSET [dbId : Nat, id : Id],
                     rows   : [Id -> Nat]]
      BY <1>1 DEF RestTyped
    <3>2. PICK rows : rows = [acked.rows EXCEPT ![me.labelId] = acked.rows[me.labelId] + 1]
      OBVIOUS
    <3>3. acked.rows \in [Id -> Nat] /\ \A id \in Id : acked.rows[id] + 1 \in Nat
      BY <3>1
    <3>4. rows \in [Id -> Nat]
      BY <3>2, <3>3
    <3>5. acked' = [acked EXCEPT !.rows = rows]
      BY <2>1, <3>2
    <3> QED BY <3>1, <3>4, <3>5
  <2>8. RestTyped'
    BY <1>1, <2>1, <2>7 DEF RestTyped
  <2>9. Placed(Idle, kind)'
    BY DEF Idle, Placed, Searching, Appending, Filling
  <2>10. TypedBy(kind)'
    BY <1>1, <2>1, <2>5, <2>6, <2>8, <2>9, IdleTyped, StepTyped
  <2> QED BY <2>10 DEF Typed
<1> QED BY <1>4, <1>5

LEMMA StraysTyped ==
  ASSUME NEW kind \in Kind, TypedBy(kind), NEW t \in Thread, Strays(t)
  PROVE  Typed'
<1> DEFINE me == thread[t]
<1>1. /\ me \in ThreadT /\ Begun(me) /\ thread \in [Thread -> ThreadT] /\ RestTyped
  BY DEF TypedBy, ThreadsTyped
<1>2. me.pc # "idle"
  BY DEF Strays, NoTarget
<1>3. PICK new : new = [me EXCEPT !.pc = "wild"]
  OBVIOUS
<1>4. new \in ThreadT
  BY <1>1, <1>3 DEF ThreadT, Pc
<1>5. Begun(new) /\ Placed(new, kind)
  BY <1>1, <1>2, <1>3 DEF ThreadT, Begun, Placed, Searching, Appending, Filling
<1>6. /\ thread' = [thread EXCEPT ![t] = new]
      /\ RestTyped' /\ UNCHANGED <<g_srDbCtrlManager, dbCtrlList, buffer>>
  BY <1>1, <1>3 DEF Strays, Goes, shared, RestTyped
<1>7. TypedBy(kind)'
  BY <1>4, <1>5, <1>6, LocalTyped
<1> QED BY <1>7 DEF Typed

LEMMA TypedIsKept == Typed /\ [Next]_vars => Typed'
<1> SUFFICES ASSUME NEW kind \in Kind, TypedBy(kind), [Next]_vars PROVE Typed'
  BY DEF Typed
<1>1. ASSUME NEW t \in Thread, Request(t) PROVE Typed'
  BY <1>1, RequestTyped DEF Typed
<1>2. ASSUME NEW t \in Thread, Manage(t) PROVE Typed'
  BY <1>2, ManageTyped
<1>3. ASSUME NEW t \in Thread, Search(t) PROVE Typed'
  BY <1>3, SearchTyped DEF Typed
<1>4. ASSUME NEW t \in Thread, AppendItem(t) PROVE Typed'
  BY <1>4, LoadTyped, StoreTyped, ReallocTyped, SetDataTyped, CopyItemTyped, AddSizeTyped
     DEF AppendItem
<1>5. ASSUME NEW t \in Thread, Change(t) PROVE Typed'
  BY <1>5, MoveItemTyped, SubtractSizeTyped, RowTyped DEF Change
<1>6. ASSUME NEW t \in Thread, Strays(t) PROVE Typed'
  BY <1>6, StraysTyped
<1>7. CASE UNCHANGED vars
  <2>1. TypedBy(kind)'
    BY <1>7 DEF TypedBy, BufferTyped, ManagersTyped, ThreadsTyped, RestTyped, Placed, InManager,
                vars
  <2> QED BY <2>1 DEF Typed
<1> QED BY <1>1, <1>2, <1>3, <1>4, <1>5, <1>6, <1>7 DEF Next

THEOREM SrThreadsTyped == Spec => []Typed
  BY InitTyped, TypedIsKept, PTL DEF Spec

\* Whatever the requests of however many threads do to one another, the state
\* keeps its types: no id beyond the last is taken, and every pointer of a
\* request is to a manager or to a place in a buffer.
THEOREM SrThreadsTypeCorrect == Spec => []ThreadsTypeOK
  BY SrThreadsTyped, TypedGivesTypes, PTL

-----------------------------------------------------------------------------
(* The databases, as long as no two requests make or drop databases, or    *)
(* take an id, at once.                                                    *)

D == dbCtrlList[g_srDbCtrlManager]

Maker(me) == me.op \in {"create", "drop"}

\* Between realloc and its assignment the array is where realloc has put it; while
\* items are moved one of them, the hole, is superfluous.
Data(me) == IF me.pc = "setData" THEN me.num ELSE D.data

Room(me) == IF me.pc = "setData" THEN 2 * D.capacity ELSE D.capacity

Hole(me) == IF me.pc = "move" THEN me.i ELSE 0

\* The array b holds the databases that clients know, and room for one.
DbsIn(b, room, hole) ==
  /\ IsArray(b) /\ D.size \in Nat /\ D.size <= room /\ 1 <= room /\ room <= Len(buffer[b])
  /\ \A k \in 1 .. D.size : buffer[b][k] # Garbage /\ buffer[b][k].id < g_dbGenNum
  /\ \A k, n \in (1 .. D.size) \ {hole} :
       buffer[b][k].name = buffer[b][n].name \/ buffer[b][k].id = buffer[b][n].id => k = n
  /\ \A k \in (1 .. D.size) \ {hole} :
       [name |-> buffer[b][k].name, id |-> buffer[b][k].id] \in acked.dbs
  /\ \A db \in acked.dbs : \E k \in (1 .. D.size) \ {hole} :
       db = [name |-> buffer[b][k].name, id |-> buffer[b][k].id]

\* Where a search in a vector v is that nobody else changes.
Seeking(me, v) ==
  /\ me.pc \in {"data", "item"} => me.i <= v.size
  /\ me.pc = "item" => me.found = [data |-> v.data, index |-> me.i]

\* What a request knows of the databases before it appends its own.
Creating(me) ==
  /\ me.pc \in Searching =>
       \A k \in 1 .. D.size : k < me.i => buffer[D.data][k].name # me.name
  /\ me.pc \in Appending => \A k \in 1 .. D.size : buffer[Data(me)][k].name # me.name
  /\ me.pc \in {"store"} \cup Filling => me.item.name = me.name
  /\ me.pc \in Filling =>
       /\ me.item.id < g_dbGenNum
       /\ \A k \in 1 .. D.size : buffer[Data(me)][k].id # me.item.id
  /\ me.pc \in {"realloc", "setData"} => D.size = D.capacity
  /\ me.pc \in {"copy", "size"} => D.size < D.capacity
  /\ me.pc = "size" => /\ buffer[D.data][D.size + 1] # Garbage
                       /\ buffer[D.data][D.size + 1].name = me.item.name
                       /\ buffer[D.data][D.size + 1].id = me.item.id

Making(me) ==
  /\ me.pc = "publish" => g_srDbCtrlManager = NULL
  /\ me.pc = "initVector" => D.data = NULL /\ D.size = 0 /\ acked.dbs = {}
  /\ me.pc \notin {"manager", "publish", "initVector"} =>
       g_srDbCtrlManager # NULL /\ me.place = TheManager
  /\ g_srDbCtrlManager # NULL /\ me.pc # "initVector" =>
       DbsIn(Data(me), Room(me), Hole(me))
  /\ Seeking(me, D)
  /\ me.op = "create" => Creating(me)
  /\ me.pc = "move" => me.num = D.size /\ me.i <= D.size

Numbered ==
  \A t \in Thread : thread[t].pc = "store" =>
    /\ thread[t].num = g_dbGenNum /\ thread[t].item.id = g_dbGenNum
    /\ \A u \in Thread : thread[u].pc = "store" => u = t

OneMaker == \A t, u \in Thread : Maker(thread[t]) /\ Maker(thread[u]) => t = u

Settled ==
  /\ g_srDbCtrlManager = NULL => acked.dbs = {}
  /\ g_srDbCtrlManager # NULL /\ (\A t \in Thread : ~ Maker(thread[t])) =>
       DbsIn(D.data, D.capacity, 0)

DbsInv ==
  /\ Numbered /\ OneMaker /\ Settled
  /\ \A t \in Thread : Maker(thread[t]) => Making(thread[t])

LEMMA DbsKeptHere ==
  ASSUME DbsInv, ~ Changing, Typed
  PROVE  DbsKept
<1> SUFFICES ASSUME NEW db \in acked.dbs
             PROVE  \E i \in DOMAIN Dbs :
                      /\ Dbs[i].name = db.name /\ Dbs[i].id = db.id
                      /\ \A j \in DOMAIN Dbs : Dbs[j].name = db.name \/ Dbs[j].id = db.id => j = i
  BY DEF DbsKept
<1>1. g_srDbCtrlManager # NULL
  BY DEF DbsInv, Settled
<1>2. DbsIn(D.data, D.capacity, 0)
  <2>1. CASE \A t \in Thread : ~ Maker(thread[t])
    BY <1>1, <2>1 DEF DbsInv, Settled
  <2>2. ASSUME NEW t \in Thread, Maker(thread[t]) PROVE DbsIn(D.data, D.capacity, 0)
    <3>1. Making(thread[t]) /\ thread[t].pc \notin {"move", "setData"}
      BY <2>2 DEF DbsInv, Changing
    <3>2. thread[t].pc # "initVector"
      BY <3>1 DEF Making
    <3>3. /\ Data(thread[t]) = D.data /\ Room(thread[t]) = D.capacity
          /\ Hole(thread[t]) = 0
      BY <3>1 DEF Data, Room, Hole
    <3> QED BY <1>1, <3>1, <3>2, <3>3 DEF Making
  <2> QED BY <2>1, <2>2
<1>3. Dbs = [i \in 1 .. D.size |-> buffer[D.data][i]]
  BY <1>1, <1>2 DEF Dbs, Items, D, DbsIn
<1>4. (1 .. D.size) \ {0} = 1 .. D.size
  BY <1>2 DEF DbsIn
<1>5. PICK k \in 1 .. D.size :
        db = [name |-> buffer[D.data][k].name, id |-> buffer[D.data][k].id]
  BY <1>2, <1>4 DEF DbsIn
<1>6. \A n \in 1 .. D.size : buffer[D.data][n].name = db.name \/ buffer[D.data][n].id = db.id
                               => n = k
  BY <1>2, <1>4, <1>5 DEF DbsIn
<1> QED BY <1>3, <1>5, <1>6

LEMMA DbsInit == Init => DbsInv
  BY DEF Init, DbsInv, Numbered, OneMaker, Settled, Maker, Idle

-----------------------------------------------------------------------------
(* What the steps for tables and rows leave of the databases.              *)

\* The array b holds the same databases before and after.
SameDbs(b) ==
  /\ IsArray(b)' /\ Len(buffer'[b]) = Len(buffer[b])
  /\ \A i \in 1 .. Len(buffer[b]) :
       /\ buffer[b][i] # Garbage => buffer'[b][i] # Garbage
       /\ buffer[b][i] # Garbage => /\ buffer'[b][i].name = buffer[b][i].name
                                    /\ buffer'[b][i].id = buffer[b][i].id

\* A step that leaves the databases as they are, and numbers no more than one item.
DbsLeft(kind) ==
  /\ UNCHANGED <<g_srDbCtrlManager, dbCtrlList>> /\ acked'.dbs = acked.dbs
  /\ g_dbGenNum <= g_dbGenNum'
  /\ \A b \in Of(kind, "dbs") : IsArray(b) => SameDbs(b)

LEMMA DTyped ==
  ASSUME NEW kind \in Kind, TypedBy(kind), g_srDbCtrlManager # NULL
  PROVE  /\ g_srDbCtrlManager \in Manager /\ D \in ManagerT(kind)
         /\ D.size \in Int /\ D.capacity \in Nat
         /\ IsArray(D.data) => D.data \in Of(kind, "dbs")
<1>1. g_srDbCtrlManager \in Manager /\ D \in ManagerT(kind)
  BY DEF TypedBy, ManagersTyped, D
<1>2. D.size \in Int /\ D.capacity \in Nat /\ D.data \in {NULL} \cup Of(kind, "dbs")
  BY <1>1 DEF ManagerT
<1>3. IsArray(NULL) => FALSE
  BY SimpleRelThreadsAssumption DEF IsArray
<1> QED BY <1>1, <1>2, <1>3

\* Where the databases are while a request makes or drops one.
LEMMA DataTyped ==
  ASSUME NEW kind \in Kind, TypedBy(kind), NEW me \in ThreadT, Placed(me, kind),
         Maker(me), Making(me), g_srDbCtrlManager # NULL, me.pc # "initVector"
  PROVE  /\ Data(me) \in Of(kind, "dbs") /\ Room(me) \in Nat /\ Hole(me) \in Nat
         /\ IsArray(Data(me))
<1>1. IsArray(Data(me))
  BY DEF Making, DbsIn
<1>2. Room(me) \in Nat /\ Hole(me) \in Nat
  BY DTyped DEF Room, Hole, ThreadT
<1>3. CASE me.pc = "setData"
  <2>1. me.op = "create"
    BY <1>3 DEF Placed, Searching, Appending, Filling, Maker
  <2> QED BY <1>1, <1>2, <1>3, <2>1 DEF Placed, Data
<1>4. CASE me.pc # "setData"
  BY <1>1, <1>2, <1>4, DTyped DEF Data
<1> QED BY <1>3, <1>4

\* What is in the array, in numbers.
LEMMA DbsInRange ==
  ASSUME NEW kind \in Kind, TypedBy(kind), NEW b \in Of(kind, "dbs"), NEW room \in Int,
         NEW hole, DbsIn(b, room, hole)
  PROVE  /\ IsArray(b) /\ Len(buffer[b]) \in Nat /\ D.size \in Nat
         /\ D.size <= room /\ room <= Len(buffer[b])
         /\ DOMAIN buffer[b] = 1 .. Len(buffer[b])
         /\ \A k \in 1 .. D.size : /\ k \in 1 .. Len(buffer[b])
                                  /\ buffer[b][k] # Garbage
                                  /\ buffer[b][k] \in DbT(kind)
                                  /\ buffer[b][k].id < g_dbGenNum
<1>1. /\ IsArray(b) /\ Len(buffer[b]) \in Nat /\ D.size \in Nat
      /\ D.size <= room /\ room <= Len(buffer[b])
      /\ DOMAIN buffer[b] = 1 .. Len(buffer[b])
  BY ArrayAt DEF DbsIn
<1>2. ASSUME NEW k \in 1 .. D.size
      PROVE  /\ k \in 1 .. Len(buffer[b])
             /\ buffer[b][k] # Garbage
             /\ buffer[b][k] \in DbT(kind)
             /\ buffer[b][k].id < g_dbGenNum
  <2>1. k \in 1 .. Len(buffer[b])
    BY <1>1, <1>2
  <2>2. buffer[b][k] # Garbage /\ buffer[b][k].id < g_dbGenNum
    BY <1>2 DEF DbsIn
  <2>3. buffer[b][k] \in ItemT(kind, "dbs") \cup {Garbage}
    BY <1>1, <2>1, ArrayAt
  <2> QED BY <2>1, <2>2, <2>3 DEF ItemT
<1> QED BY <1>1, <1>2

LEMMA DbsInLeft ==
  ASSUME NEW kind \in Kind, TypedBy(kind), RestTyped', DbsLeft(kind),
         NEW b \in Of(kind, "dbs"), NEW room \in Int, NEW hole, DbsIn(b, room, hole)
  PROVE  DbsIn(b, room, hole)' /\ SameDbs(b)
<1>1. IsArray(b) /\ SameDbs(b) /\ D' = D /\ acked'.dbs = acked.dbs
  BY DEF DbsIn, DbsLeft, D
<1>2. g_dbGenNum \in Nat /\ g_dbGenNum' \in Nat /\ g_dbGenNum <= g_dbGenNum'
  BY SimpleRelThreadsAssumption DEF DbsLeft, TypedBy, RestTyped
<1>3. ASSUME NEW k \in 1 .. D.size
      PROVE  /\ buffer[b][k] # Garbage /\ buffer'[b][k] # Garbage
             /\ buffer'[b][k].name = buffer[b][k].name
             /\ buffer'[b][k].id = buffer[b][k].id
             /\ buffer'[b][k].id < g_dbGenNum'
  <2>1. /\ k \in 1 .. Len(buffer[b]) /\ buffer[b][k] # Garbage
        /\ buffer[b][k].id < g_dbGenNum /\ buffer[b][k] \in DbT(kind)
    BY DbsInRange
  <2>2. buffer[b][k].id \in Nat
    BY <2>1 DEF DbT, Id
  <2>3. /\ buffer'[b][k] # Garbage
        /\ buffer'[b][k].name = buffer[b][k].name
        /\ buffer'[b][k].id = buffer[b][k].id
    BY <1>1, <2>1 DEF SameDbs
  <2> QED BY <1>2, <2>1, <2>2, <2>3
<1>4. /\ IsArray(b)' /\ D'.size \in Nat /\ D'.size <= room /\ 1 <= room
      /\ room <= Len(buffer'[b])
  BY <1>1 DEF DbsIn, SameDbs
<1> HIDE DEF D
<1>5. \A k \in 1 .. D'.size : buffer'[b][k] # Garbage /\ buffer'[b][k].id < g_dbGenNum'
  BY <1>1, <1>3
<1>6. \A k, n \in (1 .. D'.size) \ {hole} :
        buffer'[b][k].name = buffer'[b][n].name \/ buffer'[b][k].id = buffer'[b][n].id => k = n
  BY <1>1, <1>3 DEF DbsIn
<1>7. \A k \in (1 .. D'.size) \ {hole} :
        [name |-> buffer'[b][k].name, id |-> buffer'[b][k].id] \in acked'.dbs
  BY <1>1, <1>3 DEF DbsIn
<1>8. \A db \in acked'.dbs : \E k \in (1 .. D'.size) \ {hole} :
        db = [name |-> buffer'[b][k].name, id |-> buffer'[b][k].id]
  BY <1>1, <1>3 DEF DbsIn
<1> QED BY <1>1, <1>4, <1>5, <1>6, <1>7, <1>8 DEF DbsIn

LEMMA MakingLeft ==
  ASSUME NEW kind \in Kind, TypedBy(kind), RestTyped', DbsLeft(kind),
         NEW me \in ThreadT, Placed(me, kind), Maker(me), Making(me)
  PROVE  Making(me)'
<1>1. D' = D /\ g_srDbCtrlManager' = g_srDbCtrlManager /\ acked'.dbs = acked.dbs
      /\ TheManager' = TheManager
  BY DEF DbsLeft, D, TheManager
<1>2. Data(me)' = Data(me) /\ Room(me)' = Room(me) /\ Hole(me)' = Hole(me)
  BY <1>1 DEF Data, Room, Hole
<1>3. CASE g_srDbCtrlManager = NULL \/ me.pc = "initVector"
  <2>1. me.pc \in {"manager", "publish", "initVector"}
    BY <1>3 DEF Making
  <2> QED BY <1>1, <1>3, <2>1 DEF Making, Creating, Seeking, Searching, Appending, Filling
<1>4. CASE g_srDbCtrlManager # NULL /\ me.pc # "initVector"
  <2>1. /\ Data(me) \in Of(kind, "dbs") /\ Room(me) \in Int /\ DbsIn(Data(me), Room(me), Hole(me))
    BY <1>4, DataTyped DEF Making
  <2>2. DbsIn(Data(me), Room(me), Hole(me))' /\ SameDbs(Data(me))
    <3>1. PICK b \in Of(kind, "dbs") : b = Data(me)
      BY <2>1
    <3>2. PICK room \in Int : room = Room(me)
      BY <2>1
    <3>3. PICK hole : hole = Hole(me)
      OBVIOUS
    <3>4. DbsIn(b, room, hole)' /\ SameDbs(b)
      BY <2>1, <3>1, <3>2, <3>3, DbsInLeft
    <3> QED BY <1>2, <3>1, <3>2, <3>3, <3>4 DEF DbsIn
  <2>3. /\ IsArray(Data(me)) /\ Len(buffer[Data(me)]) \in Nat /\ D.size \in Nat
        /\ D.size <= Room(me) /\ Room(me) <= Len(buffer[Data(me)])
        /\ \A k \in 1 .. D.size : k \in 1 .. Len(buffer[Data(me)]) /\ buffer[Data(me)][k] # Garbage
    BY <2>1, DbsInRange
  <2>4. \A k \in 1 .. D.size : /\ buffer'[Data(me)][k].name = buffer[Data(me)][k].name
                              /\ buffer'[Data(me)][k].id = buffer[Data(me)][k].id
    BY <2>2, <2>3 DEF SameDbs
  <2>5. me.op = "create" => Creating(me)'
    <3> SUFFICES ASSUME me.op = "create" PROVE Creating(me)'
      OBVIOUS
    <3>1. Creating(me)
      BY DEF Making
    <3>2. me.pc \in Searching =>
            \A k \in 1 .. D.size : k < me.i => buffer'[D.data][k].name # me.name
      BY <2>4, <3>1 DEF Creating, Data, Searching
    <3>3. me.pc \in Appending => \A k \in 1 .. D.size : buffer'[Data(me)][k].name # me.name
      BY <2>4, <3>1 DEF Creating
    <3>4. me.pc \in Filling =>
            /\ me.item.id < g_dbGenNum'
            /\ \A k \in 1 .. D.size : buffer'[Data(me)][k].id # me.item.id
      <4> SUFFICES ASSUME me.pc \in Filling
                   PROVE  /\ me.item.id < g_dbGenNum'
                          /\ \A k \in 1 .. D.size : buffer'[Data(me)][k].id # me.item.id
        OBVIOUS
      <4>1. me.item.id \in Nat
        BY DEF Placed, ItemT, DbT, Id
      <4>2. g_dbGenNum \in Nat /\ g_dbGenNum' \in Nat /\ g_dbGenNum <= g_dbGenNum'
        BY SimpleRelThreadsAssumption DEF DbsLeft, TypedBy, RestTyped
      <4> QED BY <2>4, <3>1, <4>1, <4>2 DEF Creating
    <3>5. me.pc = "size" => /\ buffer'[D.data][D.size + 1] # Garbage
                            /\ buffer'[D.data][D.size + 1].name = me.item.name
                            /\ buffer'[D.data][D.size + 1].id = me.item.id
      <4> SUFFICES ASSUME me.pc = "size"
                   PROVE  /\ buffer'[D.data][D.size + 1] # Garbage
                          /\ buffer'[D.data][D.size + 1].name = me.item.name
                          /\ buffer'[D.data][D.size + 1].id = me.item.id
        OBVIOUS
      <4>1. Data(me) = D.data /\ Room(me) = D.capacity /\ D.size < D.capacity
        BY <3>1 DEF Data, Room, Creating
      <4>2. D.size + 1 \in 1 .. Len(buffer[D.data])
        BY <2>1, <2>3, <4>1
      <4> QED BY <2>2, <3>1, <4>1, <4>2 DEF Creating, SameDbs
    <3> QED BY <1>1, <1>2, <3>1, <3>2, <3>3, <3>4, <3>5 DEF Creating
  <2> QED BY <1>1, <1>2, <1>4, <2>2, <2>5 DEF Making, Seeking
<1> QED BY <1>3, <1>4

-----------------------------------------------------------------------------

\* Writing a buffer of tables, or the vector of a database, leaves the databases.
LEMMA OtherArray ==
  ASSUME NEW kind \in Kind, TypedBy(kind), NEW c \in Buffer, c \notin Of(kind, "dbs"),
         NEW x, buffer' = [buffer EXCEPT ![c] = x]
  PROVE  \A b \in Of(kind, "dbs") : IsArray(b) => SameDbs(b)
<1>1. \A b \in Of(kind, "dbs") : buffer'[b] = buffer[b]
  BY DEF TypedBy, Of
<1> QED BY <1>1, ArrayAt DEF SameDbs, IsArray

LEMMA ListSet ==
  ASSUME NEW kind \in Kind, TypedBy(kind), NEW place, InItem(place, kind, "dbs"),
         IsVector(place),
         NEW vector \in [data : Of(kind, "tables"), size : Int, capacity : Nat],
         SetVector(place, vector)
  PROVE  /\ UNCHANGED dbCtrlList
         /\ \A b \in Of(kind, "dbs") : IsArray(b) => SameDbs(b)
<1>1. /\ ~ IsManager(place) /\ IsItem(place.data, place.index)
      /\ place.data \in Of(kind, "dbs")
  BY VectorTyped DEF InItem
<1>2. /\ buffer' = [buffer EXCEPT ![place.data][place.index].list = vector]
      /\ UNCHANGED dbCtrlList
  BY <1>1 DEF SetVector
<1>3. PICK c \in Of(kind, "dbs") : c = place.data
  BY <1>1
<1>4. PICK i : i = place.index
  OBVIOUS
<1>5. /\ IsArray(c) /\ i \in DOMAIN buffer[c] /\ i \in 1 .. Len(buffer[c])
      /\ buffer[c][i] \in DbT(kind) /\ buffer[c][i] # Garbage
  BY <1>1, <1>3, <1>4, ItemAt DEF IsItem
<1>6. PICK item : item = [buffer[c][i] EXCEPT !.list = vector]
  OBVIOUS
<1>7. PICK array : array = [buffer[c] EXCEPT ![i] = item]
  OBVIOUS
<1>8. buffer' = [buffer EXCEPT ![c] = array]
  BY <1>2, <1>3, <1>4, <1>6, <1>7
<1>9. ASSUME NEW b \in Of(kind, "dbs"), IsArray(b) PROVE SameDbs(b)
  <2>1. CASE b # c
    <3>1. buffer'[b] = buffer[b]
      BY <1>8, <2>1 DEF TypedBy, Of
    <3> QED BY <1>9, <3>1, ArrayAt DEF SameDbs, IsArray
  <2>2. CASE b = c
    <3>1. item \in ItemT(kind, "dbs") \cup {Garbage}
      BY <1>5, <1>6 DEF DbT, ItemT
    <3>2. /\ Len(buffer'[c]) = Len(buffer[c]) /\ IsArray(c)'
          /\ \A j \in DOMAIN buffer[c] :
               buffer'[c][j] = IF j = i THEN item ELSE buffer[c][j]
      <4>1. PICK k \in {"dbs", "tables"} : k = "dbs"
        OBVIOUS
      <4>2. c \in Of(kind, k) /\ item \in ItemT(kind, k) \cup {Garbage}
        BY <3>1, <4>1
      <4>3. buffer' = [buffer EXCEPT ![c] = [buffer[c] EXCEPT ![i] = item]]
        BY <1>7, <1>8
      <4>4. IsArray(c) /\ i \in DOMAIN buffer[c]
        BY <1>5
      <4>5. IsArray(c)'
        BY <4>1, <4>2, <4>3, <4>4, WrittenTyped
      <4>6. Len(buffer'[c]) = Len(buffer[c])
        BY <4>1, <4>2, <4>3, <4>4, WrittenTyped
      <4>7. buffer'[c] = [buffer[c] EXCEPT ![i] = item]
        BY <1>7, <1>8 DEF TypedBy, Of
      <4>8. \A j \in DOMAIN buffer[c] : buffer'[c][j] = IF j = i THEN item ELSE buffer[c][j]
        BY <4>7
      <4> QED BY <4>5, <4>6, <4>8
    <3>3. item.name = buffer[c][i].name /\ item.id = buffer[c][i].id
      BY <1>5, <1>6 DEF DbT
    <3>4. item # Garbage
      <4>1. item \in DbItem
        BY <1>5, <1>6 DEF DbT, DbItem, Of
      <4> QED BY <4>1, SimpleRelThreadsAssumption
    <3>5. DOMAIN buffer[c] = 1 .. Len(buffer[c])
      BY <1>5, ArrayAt
    <3> QED BY <2>2, <3>2, <3>3, <3>4, <3>5 DEF SameDbs
  <2> QED BY <2>1, <2>2
<1> QED BY <1>2, <1>9

\* What a request for a table or a row does, and any request that begins, leaves
\* the databases as they are.
LEMMA RequestLeaves ==
  ASSUME NEW kind \in Kind, TypedBy(kind), NEW t \in Thread, Request(t)
  PROVE  DbsLeft(kind)
<1>1. UNCHANGED <<g_srDbCtrlManager, dbCtrlList, g_dbGenNum, buffer, acked>>
  BY DEF Request, Begin, shared
<1>2. g_dbGenNum \in Nat
  BY SimpleRelThreadsAssumption DEF TypedBy, RestTyped
<1> QED BY <1>1, <1>2, ArrayAt DEF DbsLeft, SameDbs, IsArray

LEMMA LocalLeaves ==
  ASSUME NEW kind \in Kind, TypedBy(kind), NEW t \in Thread, ~ Maker(thread[t]),
         OpenDb(t) \/ Search(t) \/ CheckCapacity(t) \/ ReadRowCnt(t) \/ Strays(t)
  PROVE  DbsLeft(kind)
<1>1. UNCHANGED <<g_srDbCtrlManager, dbCtrlList, g_dbGenNum, buffer, acked>>
  BY DEF OpenDb, Search, ReadSize, ReadData, SearchGoesOn, SearchEnds, NameIsFree,
         SearchAgain, DropIsSure, ToRemove, RowIsFor, CheckCapacity, ReadRowCnt, Strays,
         shared, Maker
<1>2. g_dbGenNum \in Nat
  BY SimpleRelThreadsAssumption DEF TypedBy, RestTyped
<1> QED BY <1>1, <1>2, ArrayAt DEF DbsLeft, SameDbs, IsArray

LEMMA OpOf ==
  ASSUME NEW kind \in Kind, TypedBy(kind), NEW t \in Thread, ~ Maker(thread[t]),
         thread[t].pc \in Appending
  PROVE  thread[t].op = "table"
  BY DEF TypedBy, ThreadsTyped, Placed, Maker

LEMMA AppendLeaves ==
  ASSUME NEW kind \in Kind, TypedBy(kind), NEW t \in Thread, ~ Maker(thread[t]), Numbered,
         AppendItem(t)
  PROVE  DbsLeft(kind)
<1> DEFINE me == thread[t]
           v  == Vector(t)
<1>1. me.op = "table"
  <2>1. me.pc \in Appending
    BY DEF AppendItem, LoadGenNum, StoreGenNum, CheckCapacity, Realloc, SetData, CopyItem,
           AddSize, At, Searching, Appending, Filling
  <2> QED BY <2>1, OpOf
<1>2. g_dbGenNum \in Nat
  BY SimpleRelThreadsAssumption DEF TypedBy, RestTyped
<1>3. ASSUME UNCHANGED buffer
      PROVE  \A b \in Of(kind, "dbs") : IsArray(b) => SameDbs(b)
  BY <1>3, ArrayAt DEF SameDbs, IsArray
<1>4. CASE LoadGenNum(t)
  BY <1>1, <1>2, <1>3, <1>4 DEF LoadGenNum, DbsLeft
<1>5. CASE StoreGenNum(t)
  <2>1. g_dbGenNum' = g_dbGenNum + 1
    BY <1>5 DEF StoreGenNum, At, Numbered
  <2> QED BY <1>2, <1>3, <1>5, <2>1 DEF StoreGenNum, DbsLeft
<1>6. CASE CheckCapacity(t)
  BY <1>6, LocalLeaves
<1>7. ASSUME me.pc \in Filling, IsVector(me.place)
      PROVE  /\ InItem(me.place, kind, "dbs")
             /\ v \in [data : Of(kind, "tables"), size : Int, capacity : Nat]
             /\ v.data \in Of(kind, "tables")
             /\ v.data \in Buffer /\ v.data \notin Of(kind, "dbs")
  BY <1>1, <1>7, FillingVector DEF Of
<1>8. CASE Realloc(t)
  <2>1. v.data \in Buffer /\ v.data \notin Of(kind, "dbs")
    BY <1>7, <1>8 DEF Realloc, At, Filling
  <2>2. UNCHANGED <<g_srDbCtrlManager, dbCtrlList, g_dbGenNum, acked>>
    BY <1>8 DEF Realloc
  <2>3. \A b \in Of(kind, "dbs") : buffer'[b] = buffer[b]
    <3>1. UnusedBuffers # {} => UnusedBuffer \notin Of(kind, "dbs")
      BY UnusedIsNone DEF Of
    <3> QED BY <1>8, <2>1, <3>1 DEF Realloc, TypedBy, Of
  <2>4. \A b \in Of(kind, "dbs") : IsArray(b) => SameDbs(b)
    BY <2>3, ArrayAt DEF SameDbs, IsArray
  <2> QED BY <1>2, <2>2, <2>4 DEF DbsLeft
<1>9. CASE SetData(t)
  <2>1. /\ InItem(me.place, kind, "dbs") /\ IsVector(me.place)
        /\ v \in [data : Of(kind, "tables"), size : Int, capacity : Nat]
        /\ me.num \in Of(kind, "tables")
    <3>1. me.pc = "setData" /\ IsVector(me.place)
      BY <1>9 DEF SetData, At
    <3> QED BY <1>1, <3>1, FillingVector DEF Filling
  <2>2. PICK vector : vector = [v EXCEPT !.data = me.num, !.capacity = 2 * v.capacity]
    OBVIOUS
  <2>3. vector \in [data : Of(kind, "tables"), size : Int, capacity : Nat]
    <3>1. 2 * v.capacity \in Nat
      BY <2>1
    <3> QED BY <2>1, <2>2, <3>1
  <2>4. SetVector(me.place, vector)
    BY <1>9, <2>2 DEF SetData
  <2>5. UNCHANGED dbCtrlList /\ \A b \in Of(kind, "dbs") : IsArray(b) => SameDbs(b)
    BY <2>1, <2>3, <2>4, ListSet
  <2> QED BY <1>2, <1>9, <2>5 DEF SetData, DbsLeft
<1>10. CASE CopyItem(t)
  <2>1. v.data \in Buffer /\ v.data \notin Of(kind, "dbs")
    BY <1>7, <1>10 DEF CopyItem, At, Filling
  <2>2. buffer' = [buffer EXCEPT ![v.data] = [buffer[v.data] EXCEPT ![v.size + 1] = me.item]]
    BY <1>10 DEF CopyItem
  <2>3. \A b \in Of(kind, "dbs") : IsArray(b) => SameDbs(b)
    BY <2>1, <2>2, OtherArray
  <2> QED BY <1>2, <1>10, <2>3 DEF CopyItem, DbsLeft
<1>11. CASE AddSize(t)
  <2>1. /\ InItem(me.place, kind, "dbs") /\ IsVector(me.place)
        /\ v \in [data : Of(kind, "tables"), size : Int, capacity : Nat]
    BY <1>7, <1>11 DEF AddSize, At, Filling
  <2>2. PICK vector : vector = [v EXCEPT !.size = v.size + 1]
    OBVIOUS
  <2>3. vector \in [data : Of(kind, "tables"), size : Int, capacity : Nat]
    BY <2>1, <2>2
  <2>4. SetVector(me.place, vector)
    BY <1>11, <2>2 DEF AddSize
  <2>5. UNCHANGED dbCtrlList /\ \A b \in Of(kind, "dbs") : IsArray(b) => SameDbs(b)
    BY <2>1, <2>3, <2>4, ListSet
  <2>6. acked'.dbs = acked.dbs
    BY <1>1, <1>11 DEF AddSize, TypedBy, RestTyped
  <2> QED BY <1>2, <1>11, <2>5, <2>6 DEF AddSize, DbsLeft
<1> QED BY <1>4, <1>5, <1>6, <1>8, <1>9, <1>10, <1>11 DEF AppendItem

LEMMA RowLeaves ==
  ASSUME NEW kind \in Kind, TypedBy(kind), NEW t \in Thread, WriteRowCnt(t)
  PROVE  DbsLeft(kind)
<1> DEFINE place == thread[t].place
<1>1. place.data \in Of(kind, "tables")
  BY DEF WriteRowCnt, At, TypedBy, ThreadsTyped, Placed, InItem
<1>2. place.data \in Buffer /\ place.data \notin Of(kind, "dbs")
  BY <1>1 DEF Of
<1>3. PICK x : buffer' = [buffer EXCEPT ![place.data] = x]
  <2>1. buffer' = [buffer EXCEPT ![place.data] =
                     [buffer[place.data] EXCEPT ![place.index].rowCnt = thread[t].num + 1]]
    BY DEF WriteRowCnt
  <2> QED BY <2>1
<1>4. \A b \in Of(kind, "dbs") : IsArray(b) => SameDbs(b)
  BY <1>2, <1>3, OtherArray
<1>5. acked'.dbs = acked.dbs /\ UNCHANGED <<g_srDbCtrlManager, dbCtrlList, g_dbGenNum>>
  BY DEF WriteRowCnt, TypedBy, RestTyped
<1>6. g_dbGenNum \in Nat
  BY SimpleRelThreadsAssumption DEF TypedBy, RestTyped
<1> QED BY <1>4, <1>5, <1>6 DEF DbsLeft

-----------------------------------------------------------------------------
(* What any step does to the threads, the races and the numbers.           *)

Step(t) ==
  Request(t) \/ Manage(t) \/ Search(t) \/ AppendItem(t) \/ Change(t) \/ Strays(t)

LEMMA OthersStay ==
  ASSUME NEW kind \in Kind, TypedBy(kind), NEW t \in Thread, Step(t)
  PROVE  /\ \A u \in Thread : u # t => thread'[u] = thread[u]
         /\ races \subseteq races'
<1>1. thread \in [Thread -> ThreadT]
  BY DEF TypedBy, ThreadsTyped
<1>2. CASE Request(t)
  <2>1. PICK op, pc, name, dbId, labelId : Begin(t, op, pc, name, dbId, labelId)
    BY <1>2 DEF Request
  <2> QED BY <1>1, <2>1 DEF Begin
<1>3. CASE Manage(t)
  BY <1>1, <1>3 DEF Manage, GetDbCtrlManager, Publish, InitVector, OpenDb, Searches, Goes
<1>4. CASE Search(t)
  BY <1>1, <1>4 DEF Search, ReadSize, ReadData, SearchGoesOn, SearchEnds, NameIsFree, SearchAgain, DropIsSure,
                    RowIsFor, Goes, Answers
<1>5. CASE AppendItem(t)
  <2>1. CASE LoadGenNum(t)
    BY <1>1, <2>1 DEF LoadGenNum
  <2>2. CASE StoreGenNum(t) \/ CheckCapacity(t) \/ Realloc(t)
    BY <1>1, <2>2 DEF StoreGenNum, CheckCapacity, Realloc, Goes
  <2>3. CASE SetData(t) \/ CopyItem(t) \/ AddSize(t)
    BY <1>1, <2>3 DEF SetData, CopyItem, AddSize, Goes, Answers
  <2> QED BY <1>5, <2>1, <2>2, <2>3 DEF AppendItem
<1>6. CASE Change(t)
  BY <1>1, <1>6 DEF Change, MoveItem, SubtractSize, ReadRowCnt, WriteRowCnt, Answers
<1>7. CASE Strays(t)
  BY <1>1, <1>7 DEF Strays, Goes
<1> QED BY <1>2, <1>3, <1>4, <1>5, <1>6, <1>7 DEF Step

\* Only the two steps of GenSrDbId have to do with numbers.
LEMMA NumberedElsewhere ==
  ASSUME NEW kind \in Kind, TypedBy(kind), NEW t \in Thread, Step(t),
         ~ LoadGenNum(t), ~ StoreGenNum(t)
  PROVE  /\ UNCHANGED g_dbGenNum /\ thread'[t].pc # "store"
<1>1. thread[t] \in ThreadT /\ thread \in [Thread -> ThreadT]
  BY DEF TypedBy, ThreadsTyped
<1>2. CASE Request(t)
  <2>1. PICK op, pc, name, dbId, labelId :
          Begin(t, op, pc, name, dbId, labelId) /\ pc \in {"manager", "open"}
    BY <1>2 DEF Request
  <2>2. PICK new : new = [Idle EXCEPT !.op = op, !.pc = pc, !.name = name,
                                      !.dbId = dbId, !.labelId = labelId]
    OBVIOUS
  <2>3. thread' = [thread EXCEPT ![t] = new] /\ UNCHANGED g_dbGenNum
    BY <2>1, <2>2 DEF Begin, shared
  <2>4. new.pc = pc
    BY <2>2 DEF Idle
  <2>5. thread'[t] = new
    BY <1>1, <2>3
  <2> QED BY <2>1, <2>3, <2>4, <2>5
<1>3. CASE Manage(t)
  BY <1>1, <1>3 DEF Manage, GetDbCtrlManager, Publish, InitVector, OpenDb, Searches, Goes,
                    shared, At, ThreadT
<1>4. CASE Search(t)
  BY <1>1, <1>4 DEF Search, ReadSize, ReadData, SearchGoesOn, SearchEnds, NameIsFree, SearchAgain, DropIsSure,
                    RowIsFor, Goes, Answers, Idle, shared, At, ThreadT
<1>5. CASE AppendItem(t)
  <2>1. CASE CheckCapacity(t) \/ Realloc(t)
    BY <1>1, <2>1 DEF CheckCapacity, Realloc, Goes, shared, ThreadT
  <2>2. CASE SetData(t) \/ CopyItem(t) \/ AddSize(t)
    BY <1>1, <2>2 DEF SetData, CopyItem, AddSize, Goes, Answers, Idle, ThreadT
  <2> QED BY <1>5, <2>1, <2>2 DEF AppendItem
<1>6. CASE Change(t)
  BY <1>1, <1>6 DEF Change, MoveItem, SubtractSize, ReadRowCnt, WriteRowCnt, Answers, Idle,
                    shared, At, ThreadT
<1>7. CASE Strays(t)
  BY <1>1, <1>7 DEF Strays, Goes, shared, ThreadT
<1> QED BY <1>2, <1>3, <1>4, <1>5, <1>6, <1>7 DEF Step

LEMMA NumberedKept ==
  ASSUME NEW kind \in Kind, TypedBy(kind), NEW t \in Thread, Step(t), Numbered,
         "ids" \notin races'
  PROVE  Numbered'
<1>1. /\ \A u \in Thread : u # t => thread'[u] = thread[u]
      /\ thread \in [Thread -> ThreadT]
  BY OthersStay DEF TypedBy, ThreadsTyped
<1>2. CASE LoadGenNum(t)
  <2>1. \A u \in Thread : u # t => thread[u].pc # "store"
    <3>1. \A u \in Others(t) : thread[u].pc # "store"
      BY <1>2 DEF LoadGenNum
    <3>2. \A u \in Thread : thread[u].pc = "store" => thread[u].op # "none"
      BY DEF TypedBy, ThreadsTyped, Begun
    <3> QED BY <3>1, <3>2 DEF Others
  <2>2. PICK item : /\ item.id = g_dbGenNum
                    /\ thread' = [thread EXCEPT ![t].pc = "store", ![t].num = g_dbGenNum,
                                                ![t].item = item]
    <3>1. CASE thread[t].op = "create"
      BY <1>2, <3>1 DEF LoadGenNum
    <3>2. CASE thread[t].op # "create"
      BY <1>2, <3>2 DEF LoadGenNum
    <3> QED BY <3>1, <3>2
  <2>3. thread'[t].num = g_dbGenNum /\ thread'[t].item = item
    BY <1>1, <2>2 DEF ThreadT
  <2>4. UNCHANGED g_dbGenNum
    BY <1>2 DEF LoadGenNum
  <2> QED BY <1>1, <2>1, <2>2, <2>3, <2>4 DEF Numbered
<1>3. CASE StoreGenNum(t)
  <2>1. thread'[t].pc = "check" /\ thread[t].pc = "store"
    BY <1>1, <1>3 DEF StoreGenNum, At, ThreadT
  <2>2. \A u \in Thread : u # t => thread[u].pc # "store"
    BY <2>1 DEF Numbered
  <2> QED BY <1>1, <2>1, <2>2 DEF Numbered
<1>4. CASE ~ LoadGenNum(t) /\ ~ StoreGenNum(t)
  <2>1. UNCHANGED g_dbGenNum /\ thread'[t].pc # "store"
    BY <1>4, NumberedElsewhere
  <2> QED BY <1>1, <2>1 DEF Numbered
<1> QED BY <1>2, <1>3, <1>4

\* Who makes and drops databases goes on or stops; only a request begins to.
LEMMA OneMakerKept ==
  ASSUME NEW kind \in Kind, TypedBy(kind), NEW t \in Thread, Step(t), OneMaker,
         "dbs" \notin races'
  PROVE  /\ OneMaker'
         /\ Maker(thread'[t]) /\ ~ Request(t) => Maker(thread[t])
         /\ Request(t) => /\ ~ Maker(thread[t])
                          /\ Maker(thread'[t]) => \A u \in Thread : ~ Maker(thread[u])
<1>1. /\ \A u \in Thread : u # t => thread'[u] = thread[u]
      /\ thread \in [Thread -> ThreadT]
  BY OthersStay DEF TypedBy, ThreadsTyped
<1>2. ASSUME Request(t)
      PROVE  /\ ~ Maker(thread[t])
             /\ Maker(thread'[t]) => \A u \in Thread : ~ Maker(thread[u])
  <2>1. PICK op, pc, name, dbId, labelId : Begin(t, op, pc, name, dbId, labelId)
    BY <1>2 DEF Request
  <2>2. PICK new : new = [Idle EXCEPT !.op = op, !.pc = pc, !.name = name,
                                      !.dbId = dbId, !.labelId = labelId]
    OBVIOUS
  <2>3. /\ thread' = [thread EXCEPT ![t] = new] /\ thread[t].pc = "idle"
        /\ \A u \in Others(t) : Race(new, thread[u]) \subseteq races'
    BY <2>1, <2>2 DEF Begin, At
  <2>4. ~ Maker(thread[t])
    BY <2>3 DEF TypedBy, ThreadsTyped, Begun, Maker
  <2>5. thread'[t] = new
    BY <1>1, <2>3
  <2>6. ASSUME Maker(new), NEW u \in Thread, Maker(thread[u]) PROVE FALSE
    <3>1. u \in Others(t)
      BY <2>4, <2>6 DEF Others, Maker
    <3>2. "dbs" \in Race(new, thread[u])
      BY <2>6 DEF Race, Maker
    <3> QED BY <2>3, <3>1, <3>2
  <2> QED BY <2>4, <2>5, <2>6
<1>3. ASSUME ~ Request(t), Maker(thread'[t]) PROVE Maker(thread[t])
  <2>1. thread[t] \in ThreadT
    BY <1>1
  <2>2. CASE Manage(t)
    BY <1>1, <1>3, <2>1, <2>2 DEF Manage, GetDbCtrlManager, Publish, InitVector, OpenDb,
                                  Searches, Goes, ThreadT, Maker
  <2>3. CASE Search(t)
    BY <1>1, <1>3, <2>1, <2>3
       DEF Search, ReadSize, ReadData, SearchGoesOn, SearchEnds, NameIsFree, SearchAgain, DropIsSure, RowIsFor,
           Goes, Answers, Idle, ThreadT, Maker
  <2>4. CASE AppendItem(t)
    <3>1. CASE LoadGenNum(t)
      BY <1>1, <1>3, <2>1, <3>1 DEF LoadGenNum, ThreadT, Maker
    <3>2. CASE StoreGenNum(t) \/ CheckCapacity(t) \/ Realloc(t)
      BY <1>1, <1>3, <2>1, <3>2 DEF StoreGenNum, CheckCapacity, Realloc, Goes, ThreadT, Maker
    <3>3. CASE SetData(t) \/ CopyItem(t) \/ AddSize(t)
      BY <1>1, <1>3, <2>1, <3>3 DEF SetData, CopyItem, AddSize, Goes, Answers, Idle, ThreadT,
                                    Maker
    <3> QED BY <2>4, <3>1, <3>2, <3>3 DEF AppendItem
  <2>5. CASE Change(t)
    BY <1>1, <1>3, <2>1, <2>5 DEF Change, MoveItem, SubtractSize, ReadRowCnt, WriteRowCnt,
                                  Answers, Idle, ThreadT, Maker
  <2>6. CASE Strays(t)
    BY <1>1, <1>3, <2>1, <2>6 DEF Strays, Goes, ThreadT, Maker
  <2> QED BY <1>3, <2>2, <2>3, <2>4, <2>5, <2>6 DEF Step
<1>4. OneMaker'
  BY <1>1, <1>2, <1>3 DEF OneMaker
<1> QED BY <1>2, <1>3, <1>4

-----------------------------------------------------------------------------
(* The databases are kept.                                                 *)

LEMMA OthersKeepDbs ==
  ASSUME NEW kind \in Kind, TypedBy(kind), RestTyped', NEW t \in Thread, Step(t),
         ~ Maker(thread[t]), DbsInv, "ids" \notin races', "dbs" \notin races'
  PROVE  DbsInv'
<1>1. /\ \A u \in Thread : u # t => thread'[u] = thread[u]
      /\ thread \in [Thread -> ThreadT]
      /\ \A u \in Thread : Placed(thread[u], kind)
  BY OthersStay DEF TypedBy, ThreadsTyped
<1>2. DbsLeft(kind)
  <2>1. CASE Request(t)
    BY <2>1, RequestLeaves
  <2>2. CASE Manage(t)
    <3>1. OpenDb(t)
      BY <1>1, <2>2 DEF Manage, GetDbCtrlManager, Publish, InitVector, At, Placed, Maker
    <3> QED BY <3>1, LocalLeaves
  <2>3. CASE Search(t)
    BY <2>3, LocalLeaves
  <2>4. CASE AppendItem(t)
    BY <2>4, AppendLeaves DEF DbsInv
  <2>5. CASE Change(t)
    <3>1. ReadRowCnt(t) \/ WriteRowCnt(t)
      BY <1>1, <2>5 DEF Change, MoveItem, SubtractSize, At, Placed, Maker
    <3> QED BY <3>1, LocalLeaves, RowLeaves
  <2>6. CASE Strays(t)
    BY <2>6, LocalLeaves
  <2> QED BY <2>1, <2>2, <2>3, <2>4, <2>5, <2>6 DEF Step
<1>3. Numbered'
  BY NumberedKept DEF DbsInv
<1>4. /\ OneMaker'
      /\ Maker(thread'[t]) => /\ Request(t)
                              /\ \A u \in Thread : ~ Maker(thread[u])
  BY OneMakerKept DEF DbsInv
<1>5. ASSUME g_srDbCtrlManager # NULL, \A u \in Thread : ~ Maker(thread[u])
      PROVE  DbsIn(D.data, D.capacity, 0)'
  <2>1. DbsIn(D.data, D.capacity, 0)
    BY <1>5 DEF DbsInv, Settled
  <2>2. D.data \in Of(kind, "dbs") /\ D.capacity \in Int /\ D' = D
    BY <1>2, <1>5, <2>1, DTyped DEF DbsIn, DbsLeft, D
  <2>3. PICK b \in Of(kind, "dbs") : b = D.data
    BY <2>2
  <2>4. PICK room \in Int : room = D.capacity
    BY <2>2
  <2>5. DbsIn(b, room, 0)'
    BY <1>2, <2>1, <2>3, <2>4, DbsInLeft
  <2> QED BY <2>2, <2>3, <2>4, <2>5
<1>6. Settled'
  <2>1. UNCHANGED g_srDbCtrlManager /\ acked'.dbs = acked.dbs
    BY <1>2 DEF DbsLeft
  <2>2. (\A u \in Thread : ~ Maker(thread'[u])) => \A u \in Thread : ~ Maker(thread[u])
    BY <1>1
  <2> QED BY <1>5, <2>1, <2>2 DEF DbsInv, Settled
<1>7. ASSUME NEW u \in Thread, Maker(thread'[u]) PROVE Making(thread[u])'
  <2>1. CASE u # t
    <3>1. PICK me \in ThreadT : me = thread[u] /\ me = thread'[u]
      BY <1>1, <2>1
    <3>2. Maker(me) /\ Making(me) /\ Placed(me, kind)
      BY <1>1, <1>7, <3>1 DEF DbsInv
    <3>3. Making(me)'
      BY <1>2, <3>2, MakingLeft
    <3> QED BY <3>1, <3>3
  <2>2. CASE u = t
    <3>1. Request(t) /\ \A w \in Thread : ~ Maker(thread[w])
      BY <1>4, <1>7, <2>2
    <3>2. thread'[t].pc = "manager"
      <4>1. PICK op, pc, name, dbId, labelId :
              /\ Begin(t, op, pc, name, dbId, labelId)
              /\ op \in {"create", "drop"} => pc = "manager"
        BY <3>1 DEF Request
      <4>2. PICK new : new = [Idle EXCEPT !.op = op, !.pc = pc, !.name = name,
                                          !.dbId = dbId, !.labelId = labelId]
        OBVIOUS
      <4>3. thread'[t] = new
        BY <1>1, <4>1, <4>2 DEF Begin
      <4>4. new.op = op /\ new.pc = pc
        BY <4>2 DEF Idle
      <4> QED BY <1>7, <2>2, <4>1, <4>3, <4>4 DEF Maker
    <3>3. PICK me : me = thread'[u]
      OBVIOUS
    <3>4. me.pc = "manager"
      BY <2>2, <3>2, <3>3
    <3>5. g_srDbCtrlManager' = g_srDbCtrlManager
      BY <1>2 DEF DbsLeft
    <3>6. g_srDbCtrlManager' # NULL => DbsIn(D.data, D.capacity, 0)'
      BY <1>5, <3>1, <3>5
    <3>7. /\ Data(me)' = D'.data /\ Room(me)' = D'.capacity /\ Hole(me)' = 0
      BY <3>4 DEF Data, Room, Hole
    <3>8. Making(me)'
      BY <3>4, <3>6, <3>7 DEF Making, Seeking, Creating, Searching, Appending, Filling
    <3> QED BY <3>3, <3>8
  <2> QED BY <2>1, <2>2
<1> QED BY <1>3, <1>4, <1>6, <1>7 DEF DbsInv

\* What is left to show of a step of the request that makes or drops a database.
LEMMA MakerKeepsDbs ==
  ASSUME NEW kind \in Kind, TypedBy(kind), NEW t \in Thread, Step(t),
         Maker(thread[t]), DbsInv, "ids" \notin races', "dbs" \notin races',
         Maker(thread'[t]) => Making(thread[t])',
         g_srDbCtrlManager' = NULL => acked'.dbs = {},
         ~ Maker(thread'[t]) /\ g_srDbCtrlManager' # NULL => DbsIn(D.data, D.capacity, 0)'
  PROVE  DbsInv'
<1>1. \A u \in Thread : u # t => thread'[u] = thread[u]
  BY OthersStay
<1>2. Numbered' /\ OneMaker'
  BY NumberedKept, OneMakerKept DEF DbsInv
<1>3. \A u \in Thread : u # t => ~ Maker(thread'[u])
  BY <1>1 DEF DbsInv, OneMaker
<1>4. Settled'
  BY DEF Settled
<1>5. \A u \in Thread : Maker(thread'[u]) => Making(thread[u])'
  BY <1>3
<1> QED BY <1>2, <1>4, <1>5 DEF DbsInv

-----------------------------------------------------------------------------
(* The steps of the request that makes or drops a database.                *)

MakerKeeps(t) ==
  \E new :
    /\ thread' = [thread EXCEPT ![t] = new]
    /\ Maker(new) => Making(new)'
    /\ g_srDbCtrlManager' = NULL => acked'.dbs = {}
    /\ ~ Maker(new) /\ g_srDbCtrlManager' # NULL => DbsIn(D.data, D.capacity, 0)'

LEMMA AtTheManager ==
  /\ IsManager(TheManager) /\ IsVector(TheManager) /\ VectorAt(TheManager) = D
  /\ TheManager.manager = g_srDbCtrlManager
  BY DEF IsManager, IsVector, VectorAt, TheManager, D

LEMMA MakerIs ==
  ASSUME NEW kind \in Kind, TypedBy(kind), NEW t \in Thread, Maker(thread[t]), DbsInv
  PROVE  /\ thread \in [Thread -> ThreadT] /\ thread[t] \in ThreadT
         /\ Placed(thread[t], kind) /\ Making(thread[t])
         /\ thread[t].name \in DbName
  BY DEF TypedBy, ThreadsTyped, Begun, DbsInv, Maker

\* Where a request that makes or drops a database is once it has the manager.
LEMMA MakerHas ==
  ASSUME NEW kind \in Kind, TypedBy(kind), NEW t \in Thread, Maker(thread[t]), DbsInv,
         thread[t].pc \notin {"manager", "publish", "initVector"}
  PROVE  /\ g_srDbCtrlManager # NULL /\ g_srDbCtrlManager \in Manager
         /\ thread[t].place = TheManager /\ Vector(t) = D
         /\ IsVector(thread[t].place)
         /\ D \in ManagerT(kind) /\ D.size \in Nat /\ D.capacity \in Nat
         /\ Data(thread[t]) \in Of(kind, "dbs") /\ Data(thread[t]) \in Buffer
         /\ DbsIn(Data(thread[t]), Room(thread[t]), Hole(thread[t]))
         /\ thread[t].pc # "setData" =>
              Data(thread[t]) = D.data /\ Room(thread[t]) = D.capacity
         /\ thread[t].pc # "move" => Hole(thread[t]) = 0
         /\ thread[t].op = "create" => Creating(thread[t])
         /\ Seeking(thread[t], D)
<1>1. g_srDbCtrlManager # NULL /\ thread[t].place = TheManager
  BY MakerIs DEF Making
<1>2. D \in ManagerT(kind) /\ D.capacity \in Nat /\ g_srDbCtrlManager \in Manager
  BY <1>1, DTyped
<1>3. DbsIn(Data(thread[t]), Room(thread[t]), Hole(thread[t]))
  BY <1>1, MakerIs DEF Making
<1>4. Data(thread[t]) \in Of(kind, "dbs")
  BY <1>1, MakerIs, DataTyped
<1>5. D.size \in Nat
  BY <1>3 DEF DbsIn
<1>6. thread[t].op = "create" => Creating(thread[t])
  BY MakerIs DEF Making
<1>7. Vector(t) = D /\ IsVector(thread[t].place)
  BY <1>1, AtTheManager DEF Vector
<1>8. /\ thread[t].pc # "setData" => Data(thread[t]) = D.data /\ Room(thread[t]) = D.capacity
      /\ thread[t].pc # "move" => Hole(thread[t]) = 0
  BY DEF Data, Room, Hole
<1>9. Seeking(thread[t], D)
  BY MakerIs DEF Making
<1> QED BY <1>1, <1>2, <1>3, <1>4, <1>5, <1>6, <1>7, <1>8, <1>9 DEF Of

\* A step that leaves all of the shared state, or all that is known of it.
LEMMA DbsSame ==
  ASSUME UNCHANGED <<g_srDbCtrlManager, dbCtrlList, g_dbGenNum, buffer>>,
         acked'.dbs = acked.dbs, NEW b, NEW room, NEW hole, DbsIn(b, room, hole)
  PROVE  DbsIn(b, room, hole)' /\ D' = D
  BY DEF DbsIn, D, IsArray

LEMMA GetDbCtrlManagerKeeps ==
  ASSUME NEW kind \in Kind, TypedBy(kind), NEW t \in Thread, Maker(thread[t]), DbsInv,
         GetDbCtrlManager(t)
  PROVE  MakerKeeps(t)
<1>1. /\ thread[t].pc = "manager" /\ acked' = acked
      /\ UNCHANGED <<g_srDbCtrlManager, dbCtrlList, g_dbGenNum, buffer>>
  BY DEF GetDbCtrlManager, At, shared
<1>2. PICK me \in ThreadT : me = thread[t]
  BY MakerIs
<1>3. CASE g_srDbCtrlManager # NULL
  <2>1. PICK new : new = [me EXCEPT !.pc = "search", !.place = TheManager, !.i = 1]
    OBVIOUS
  <2>2. thread' = [thread EXCEPT ![t] = new]
    BY <1>2, <1>3, <2>1 DEF GetDbCtrlManager, Searches
  <2>3. new.op = me.op /\ new.pc = "search" /\ new.place = TheManager /\ new.i = 1
    BY <2>1 DEF ThreadT
  <2>4. DbsIn(D.data, D.capacity, 0)
    BY <1>1, <1>3, MakerIs DEF Making, Seeking, Data, Room, Hole
  <2>5. DbsIn(D.data, D.capacity, 0)' /\ D' = D /\ D'.size \in Nat
    <3>1. PICK b : b = D.data
      OBVIOUS
    <3>2. PICK room : room = D.capacity
      OBVIOUS
    <3>3. DbsIn(b, room, 0)' /\ D' = D
      BY <1>1, <2>4, <3>1, <3>2, DbsSame
    <3> QED BY <2>4, <3>1, <3>2, <3>3 DEF DbsIn
  <2>6. \A k \in 1 .. D'.size : ~ (k < new.i)
    BY <2>3, <2>5
  <2>7. Making(new)'
    BY <1>1, <1>3, <2>3, <2>5, <2>6
       DEF Making, Seeking, Creating, Data, Room, Hole, Searching, Appending, Filling, TheManager
  <2> QED BY <1>1, <1>2, <1>3, <2>2, <2>3, <2>7, MakerIs DEF MakerKeeps, Maker
<1>4. CASE g_srDbCtrlManager = NULL
  <2>1. PICK new : new = [me EXCEPT !.pc = "publish"]
    OBVIOUS
  <2>2. thread' = [thread EXCEPT ![t] = new]
    BY <1>2, <1>4, <2>1 DEF GetDbCtrlManager, Goes
  <2>3. new.op = me.op /\ new.pc = "publish"
    BY <2>1 DEF ThreadT
  <2>4. acked'.dbs = {}
    BY <1>1, <1>4 DEF DbsInv, Settled
  <2>5. Making(new)'
    BY <1>1, <1>4, <2>3 DEF Making, Seeking, Creating, Searching, Appending, Filling
  <2> QED BY <1>1, <1>2, <1>4, <2>2, <2>3, <2>4, <2>5 DEF MakerKeeps, Maker
<1> QED BY <1>3, <1>4

LEMMA PublishKeeps ==
  ASSUME NEW kind \in Kind, TypedBy(kind), NEW t \in Thread, Maker(thread[t]), DbsInv,
         Publish(t)
  PROVE  MakerKeeps(t)
<1>1. PICK me \in ThreadT : me = thread[t]
  BY MakerIs
<1>2. PICK new : new = [me EXCEPT !.pc = "initVector"]
  OBVIOUS
<1>3. thread' = [thread EXCEPT ![t] = new]
  BY <1>1, <1>2 DEF Publish, Goes
<1>4. new.op = me.op /\ new.pc = "initVector"
  BY <1>2 DEF ThreadT
<1>5. PICK S \in SUBSET Manager : S # {} /\ S = {n \in Manager : dbCtrlList[n] = Unused}
  BY DEF Publish
<1>6. PICK m \in Manager : m = Least(S)
  <2>1. S \subseteq Nat
    BY SimpleRelThreadsAssumption
  <2> QED BY <1>5, <2>1, LeastIn
<1>7. /\ g_srDbCtrlManager' = m /\ UNCHANGED acked /\ thread[t].pc = "publish"
      /\ dbCtrlList' = [dbCtrlList EXCEPT ![m] = [data |-> NULL, size |-> 0, capacity |-> 0]]
  BY <1>5, <1>6 DEF Publish, At
<1>8. D'.data = NULL /\ D'.size = 0
  BY <1>7 DEF D, TypedBy, ManagersTyped
<1>9. acked'.dbs = {}
  BY <1>7, MakerIs DEF Making, DbsInv, Settled
<1>10. m # NULL
  BY SimpleRelThreadsAssumption
<1>11. Making(new)'
  BY <1>4, <1>8, <1>9 DEF Making, Seeking, Creating, Searching, Appending, Filling
<1> QED BY <1>1, <1>3, <1>4, <1>9, <1>11 DEF MakerKeeps, Maker

LEMMA InitVectorKeeps ==
  ASSUME NEW kind \in Kind, TypedBy(kind), NEW t \in Thread, Maker(thread[t]), DbsInv,
         InitVector(t)
  PROVE  MakerKeeps(t)
<1>1. PICK me \in ThreadT : me = thread[t]
  BY MakerIs
<1>2. PICK new : new = [me EXCEPT !.pc = "search", !.place = TheManager, !.i = 1]
  OBVIOUS
<1>3. thread' = [thread EXCEPT ![t] = new]
  BY <1>1, <1>2 DEF InitVector, Searches
<1>4. new.op = me.op /\ new.pc = "search" /\ new.place = TheManager /\ new.i = 1
  BY <1>2 DEF ThreadT
<1>5. /\ thread[t].pc = "initVector" /\ UNCHANGED <<g_srDbCtrlManager, acked>>
      /\ dbCtrlList' = [dbCtrlList EXCEPT ![g_srDbCtrlManager] = NewVector(UnusedBuffer)]
      /\ buffer' = [buffer EXCEPT ![UnusedBuffer] = NewItems]
  BY DEF InitVector, At
<1>6. PICK b \in Buffer : b = UnusedBuffer
  BY UnusedIsNone DEF InitVector
<1>7. g_srDbCtrlManager \in Manager /\ g_srDbCtrlManager # NULL
  BY <1>5, MakerIs DEF Placed, TypedBy, ManagersTyped
<1>8. D' = NewVector(b)
  BY <1>5, <1>6, <1>7 DEF D, TypedBy, ManagersTyped
<1>9. D'.size = 0 /\ D'.data = b /\ D'.capacity = DB_VECTOR_INIT_CAPACITY
  BY <1>8 DEF NewVector
<1>10. IsArray(b)' /\ Len(buffer'[b]) = DB_VECTOR_INIT_CAPACITY
  <2>1. buffer'[b] = NewItems
    BY <1>5, <1>6 DEF TypedBy
  <2>2. NewItems \in Seq(DbItem \cup LabelItem \cup {Garbage})
    BY NewItemsTyped
  <2>3. Len(NewItems) = DB_VECTOR_INIT_CAPACITY
    BY SimpleRelThreadsAssumption DEF NewItems
  <2> QED BY <2>1, <2>2, <2>3, SimpleRelThreadsAssumption DEF IsArray
<1>11. acked'.dbs = {}
  BY <1>5, MakerIs DEF Making
<1>12. DbsIn(D.data, D.capacity, 0)'
  BY <1>9, <1>10, <1>11, SimpleRelThreadsAssumption DEF DbsIn
<1>13. Making(new)'
  BY <1>4, <1>5, <1>7, <1>9, <1>12
     DEF Making, Seeking, Creating, Data, Room, Hole, Searching, Appending, Filling, TheManager
<1> QED BY <1>1, <1>3, <1>4, <1>11, <1>13 DEF MakerKeeps, Maker

\* A step that changes no more than where its request is.
LEMMA LocalKeeps ==
  ASSUME NEW kind \in Kind, TypedBy(kind), NEW t \in Thread, Maker(thread[t]), DbsInv,
         thread[t].pc \notin {"manager", "publish", "initVector", "setData", "move"},
         UNCHANGED <<g_srDbCtrlManager, dbCtrlList, g_dbGenNum, buffer>>,
         acked'.dbs = acked.dbs
  PROVE  /\ DbsIn(D.data, D.capacity, 0)' /\ D' = D /\ TheManager' = TheManager
         /\ g_srDbCtrlManager' # NULL
<1>1. PICK b : b = D.data
  OBVIOUS
<1>2. PICK room : room = D.capacity
  OBVIOUS
<1>3. DbsIn(b, room, 0)
  BY <1>1, <1>2, MakerHas
<1>4. DbsIn(b, room, 0)' /\ D' = D
  BY <1>3, DbsSame
<1> QED BY <1>1, <1>2, <1>4, MakerHas DEF TheManager

LEMMA ReadSizeKeeps ==
  ASSUME NEW kind \in Kind, TypedBy(kind), NEW t \in Thread, Maker(thread[t]), DbsInv,
         ReadSize(t)
  PROVE  MakerKeeps(t)
<1>1. PICK me \in ThreadT : me = thread[t]
  BY MakerIs
<1>2. PICK new : new = [me EXCEPT !.pc = "data"]
  OBVIOUS
<1>3. thread' = [thread EXCEPT ![t] = new]
  BY <1>1, <1>2 DEF ReadSize, Goes
<1>4. /\ new.op = me.op /\ new.pc = "data" /\ new.place = me.place /\ new.i = me.i
      /\ new.name = me.name
  BY <1>2 DEF ThreadT
<1>5. /\ me.pc = "search" /\ acked' = acked
      /\ UNCHANGED <<g_srDbCtrlManager, dbCtrlList, g_dbGenNum, buffer>>
  BY <1>1 DEF ReadSize, At, shared
<1>6. /\ DbsIn(D.data, D.capacity, 0)' /\ D' = D /\ TheManager' = TheManager
      /\ g_srDbCtrlManager' # NULL
  BY <1>1, <1>5, LocalKeeps
<1>7. me.place = TheManager /\ (me.op = "create" => Creating(me)) /\ me.i <= D.size
  <2>1. me.place = TheManager /\ (me.op = "create" => Creating(me))
    BY <1>1, <1>5, MakerHas
  <2> QED BY <1>1, <2>1, AtTheManager DEF ReadSize, MoreItems
<1>8. Making(new)'
  BY <1>4, <1>5, <1>6, <1>7
     DEF Making, Seeking, Creating, Data, Room, Hole, Searching, Appending, Filling
<1> QED BY <1>1, <1>3, <1>4, <1>6, <1>8 DEF MakerKeeps, Maker

LEMMA ReadDataKeeps ==
  ASSUME NEW kind \in Kind, TypedBy(kind), NEW t \in Thread, Maker(thread[t]), DbsInv,
         ReadData(t)
  PROVE  MakerKeeps(t)
<1>1. PICK me \in ThreadT : me = thread[t]
  BY MakerIs
<1>2. PICK found : found = [data |-> D.data, index |-> me.i]
  OBVIOUS
<1>3. PICK new : new = [me EXCEPT !.pc = "item", !.found = found]
  OBVIOUS
<1>4. /\ me.pc = "data" /\ acked' = acked
      /\ UNCHANGED <<g_srDbCtrlManager, dbCtrlList, g_dbGenNum, buffer>>
  BY <1>1 DEF ReadData, At, shared
<1>5. /\ me.place = TheManager /\ (me.op = "create" => Creating(me))
      /\ me.i <= D.size /\ VectorAt(me.place) = D
  <2>1. me.place = TheManager /\ (me.op = "create" => Creating(me))
    BY <1>1, <1>4, MakerHas
  <2>2. me.i <= D.size
    BY <1>1, <1>4, MakerIs DEF Making, Seeking
  <2> QED BY <2>1, <2>2, AtTheManager
<1>6. thread' = [thread EXCEPT ![t] = new]
  BY <1>1, <1>2, <1>3, <1>5 DEF ReadData
<1>7. /\ new.op = me.op /\ new.pc = "item" /\ new.place = me.place /\ new.i = me.i
      /\ new.name = me.name /\ new.found = found
  BY <1>3 DEF ThreadT
<1>8. /\ DbsIn(D.data, D.capacity, 0)' /\ D' = D /\ TheManager' = TheManager
      /\ g_srDbCtrlManager' # NULL
  BY <1>1, <1>4, LocalKeeps
<1>9. Making(new)'
  BY <1>2, <1>4, <1>5, <1>7, <1>8
     DEF Making, Seeking, Creating, Data, Room, Hole, Searching, Appending, Filling
<1> QED BY <1>1, <1>6, <1>7, <1>8, <1>9 DEF MakerKeeps, Maker

LEMMA SearchGoesOnKeeps ==
  ASSUME NEW kind \in Kind, TypedBy(kind), NEW t \in Thread, Maker(thread[t]), DbsInv,
         SearchGoesOn(t)
  PROVE  MakerKeeps(t)
<1>1. PICK me \in ThreadT : me = thread[t]
  BY MakerIs
<1>2. PICK new : new = [me EXCEPT !.pc = "search", !.i = me.i + 1, !.found = NULL]
  OBVIOUS
<1>3. thread' = [thread EXCEPT ![t] = new]
  BY <1>1, <1>2 DEF SearchGoesOn
<1>4. /\ new.op = me.op /\ new.pc = "search" /\ new.place = me.place /\ new.i = me.i + 1
      /\ new.name = me.name
  BY <1>2 DEF ThreadT
<1>5. /\ me.pc = "item" /\ acked' = acked /\ ItemFound(t) /\ ~ Hit(t)
      /\ UNCHANGED <<g_srDbCtrlManager, dbCtrlList, g_dbGenNum, buffer>>
  BY <1>1 DEF SearchGoesOn, ItemFound, At, shared
<1>6. /\ DbsIn(D.data, D.capacity, 0)' /\ D' = D /\ TheManager' = TheManager
      /\ g_srDbCtrlManager' # NULL
  BY <1>1, <1>5, LocalKeeps
<1>7. buffer[D.data][me.i].name # me.name
  <2>1. me.found = [data |-> D.data, index |-> me.i] /\ me.op \in {"create", "drop"}
    BY <1>1, <1>5, MakerHas DEF Seeking, Maker
  <2> QED BY <1>1, <1>5, <2>1 DEF Hit, Matches
<1>8. me.place = TheManager /\ (me.op = "create" => Creating(me)) /\ D.size \in Nat
  BY <1>1, <1>5, MakerHas
<1>9. me.op = "create" =>
        \A k \in 1 .. D.size : k < new.i => buffer[D.data][k].name # me.name
  <2> SUFFICES ASSUME me.op = "create", NEW k \in 1 .. D.size, k < new.i
               PROVE  buffer[D.data][k].name # me.name
    OBVIOUS
  <2>1. me.i \in Nat
    BY DEF ThreadT
  <2>2. k < me.i \/ k = me.i
    BY <1>4, <1>8, <2>1
  <2>3. k < me.i => buffer[D.data][k].name # me.name
    BY <1>5, <1>8 DEF Creating, Searching
  <2> QED BY <1>7, <1>8, <2>2, <2>3
<1>10. Making(new)'
  BY <1>4, <1>5, <1>6, <1>8, <1>9
     DEF Making, Seeking, Creating, Data, Room, Hole, Searching, Appending, Filling
<1> QED BY <1>1, <1>3, <1>4, <1>6, <1>10 DEF MakerKeeps, Maker

LEMMA SearchEndsKeeps ==
  ASSUME NEW kind \in Kind, TypedBy(kind), NEW t \in Thread, Maker(thread[t]), DbsInv,
         SearchEnds(t)
  PROVE  MakerKeeps(t)
<1>1. /\ thread[t].pc \in {"search", "item"} /\ acked' = acked
      /\ UNCHANGED <<g_srDbCtrlManager, dbCtrlList, g_dbGenNum, buffer>>
      /\ thread' = [thread EXCEPT ![t] = Idle]
  BY DEF SearchEnds, NoMore, ToRemove, Hit, ItemFound, At, shared, Answers
<1>2. DbsIn(D.data, D.capacity, 0)' /\ g_srDbCtrlManager' # NULL
  BY <1>1, LocalKeeps
<1>3. ~ Maker(Idle)
  BY DEF Idle, Maker
<1> QED BY <1>1, <1>2, <1>3 DEF MakerKeeps

LEMMA NameIsFreeKeeps ==
  ASSUME NEW kind \in Kind, TypedBy(kind), NEW t \in Thread, Maker(thread[t]), DbsInv,
         NameIsFree(t)
  PROVE  MakerKeeps(t)
<1>1. PICK me \in ThreadT : me = thread[t]
  BY MakerIs
<1>2. PICK new : new = [me EXCEPT !.pc = "load"]
  OBVIOUS
<1>3. thread' = [thread EXCEPT ![t] = new]
  BY <1>1, <1>2 DEF NameIsFree, Goes
<1>4. /\ new.op = me.op /\ new.pc = "load" /\ new.place = me.place /\ new.name = me.name
  BY <1>2 DEF ThreadT
<1>5. /\ me.pc = "search" /\ acked' = acked
      /\ UNCHANGED <<g_srDbCtrlManager, dbCtrlList, g_dbGenNum, buffer>>
  BY <1>1 DEF NameIsFree, NoMore, At, shared
<1>6. /\ DbsIn(D.data, D.capacity, 0)' /\ D' = D /\ TheManager' = TheManager
      /\ g_srDbCtrlManager' # NULL
  BY <1>1, <1>5, LocalKeeps
<1>7. me.place = TheManager /\ me.op = "create" /\ Creating(me) /\ D.size \in Nat
      /\ ~ (me.i <= D.size)
  <2>1. me.place = TheManager /\ me.op = "create" /\ Creating(me) /\ D.size \in Nat
    BY <1>1, <1>5, MakerHas DEF NameIsFree, ForFreeName, Maker
  <2> QED BY <1>1, <2>1, AtTheManager DEF NameIsFree, NoMore, MoreItems
<1>8. \A k \in 1 .. D.size : buffer[D.data][k].name # me.name
  <2> TAKE k \in 1 .. D.size
  <2>1. me.i \in Nat
    BY DEF ThreadT
  <2>2. k < me.i
    BY <1>7, <2>1
  <2> QED BY <1>5, <1>7, <2>2 DEF Creating, Searching
<1>9. Making(new)'
  BY <1>4, <1>5, <1>6, <1>7, <1>8
     DEF Making, Seeking, Creating, Data, Room, Hole, Searching, Appending, Filling
<1> QED BY <1>1, <1>3, <1>4, <1>6, <1>7, <1>9 DEF MakerKeeps, Maker

LEMMA SearchAgainKeeps ==
  ASSUME NEW kind \in Kind, TypedBy(kind), NEW t \in Thread, Maker(thread[t]), DbsInv,
         SearchAgain(t)
  PROVE  MakerKeeps(t)
<1>1. PICK me \in ThreadT : me = thread[t]
  BY MakerIs
<1>2. me.op = "drop"
  BY <1>1 DEF SearchAgain, ForNextSearch, Maker
<1>3. PICK new : new = [me EXCEPT !.pc = "search", !.pass = me.pass + 1,
                                  !.place = TheManager, !.i = 1, !.found = NULL]
  OBVIOUS
<1>4. thread' = [thread EXCEPT ![t] = new]
  BY <1>1, <1>2, <1>3 DEF SearchAgain
<1>5. new.op = "drop" /\ new.pc = "search" /\ new.place = TheManager
  BY <1>2, <1>3 DEF ThreadT
<1>6. /\ me.pc = "item" /\ acked' = acked
      /\ UNCHANGED <<g_srDbCtrlManager, dbCtrlList, g_dbGenNum, buffer>>
  BY <1>1 DEF SearchAgain, Hit, ItemFound, At, shared
<1>7. /\ DbsIn(D.data, D.capacity, 0)' /\ D' = D /\ TheManager' = TheManager
      /\ g_srDbCtrlManager' # NULL
  BY <1>1, <1>6, LocalKeeps
<1>8. Making(new)'
  BY <1>5, <1>6, <1>7 DEF Making, Seeking, Data, Room, Hole
<1> QED BY <1>4, <1>5, <1>7, <1>8 DEF MakerKeeps, Maker

LEMMA DropIsSureKeeps ==
  ASSUME NEW kind \in Kind, TypedBy(kind), NEW t \in Thread, Maker(thread[t]), DbsInv,
         DropIsSure(t)
  PROVE  MakerKeeps(t)
<1>1. PICK me \in ThreadT : me = thread[t]
  BY MakerIs
<1>2. PICK i \in Nat \ {0} : i = me.i
  BY DEF ThreadT
<1>3. PICK b \in Of(kind, "dbs") : b = D.data
  BY MakerHas DEF DropIsSure, ToRemove, Hit, ItemFound, At
<1>4. PICK room \in Int : room = D.capacity
  BY MakerHas DEF DropIsSure, ToRemove, Hit, ItemFound, At
<1>5. /\ me.pc = "item" /\ me.op = "drop" /\ me.place = TheManager
      /\ DbsIn(b, room, 0) /\ g_srDbCtrlManager # NULL /\ Vector(t) = D
  BY <1>1, <1>3, <1>4, MakerHas DEF DropIsSure, ToRemove, Hit, ItemFound, At
<1>6. UNCHANGED <<g_srDbCtrlManager, dbCtrlList, g_dbGenNum, buffer>> /\ D' = D
      /\ TheManager' = TheManager
  BY DEF DropIsSure, shared, D, TheManager
<1>7. i \in 1 .. D.size /\ buffer[b][i].name = me.name
  <2>1. i <= D.size /\ me.found = [data |-> b, index |-> i]
    BY <1>1, <1>2, <1>3, <1>5, MakerHas DEF Seeking
  <2>2. buffer[b][i].name = me.name
    BY <1>1, <1>5, <2>1 DEF DropIsSure, ToRemove, Hit, Matches
  <2> QED BY <1>5, <2>1, <2>2 DEF DbsIn
<1>8. PICK new : new = [me EXCEPT !.pc = "move", !.found = NULL, !.num = D.size]
  OBVIOUS
<1>9. thread' = [thread EXCEPT ![t] = new]
  BY <1>1, <1>5, <1>8 DEF DropIsSure, Vector
<1>10. /\ new.op = "drop" /\ new.pc = "move" /\ new.place = TheManager
       /\ new.num = D.size /\ new.i = i
  BY <1>2, <1>5, <1>8 DEF ThreadT
<1>11. acked'.dbs = acked.dbs \ {d \in acked.dbs : d.name = me.name}
  BY <1>1 DEF DropIsSure, TypedBy, RestTyped
<1>12. DbsIn(b, room, i)'
  <2>1. D.size \in Nat /\ (1 .. D.size) \ {0} = 1 .. D.size
    BY <1>5 DEF DbsIn
  <2>2. \A k \in (1 .. D.size) \ {i} : buffer[b][k].name # me.name
    BY <1>5, <1>7, <2>1 DEF DbsIn
  <2>3. \A k \in (1 .. D.size) \ {i} :
          [name |-> buffer[b][k].name, id |-> buffer[b][k].id] \in acked'.dbs
    BY <1>5, <1>11, <2>1, <2>2 DEF DbsIn
  <2>4. \A db \in acked'.dbs : \E k \in (1 .. D.size) \ {i} :
          db = [name |-> buffer[b][k].name, id |-> buffer[b][k].id]
    <3> TAKE db \in acked'.dbs
    <3>1. db \in acked.dbs /\ db.name # me.name
      BY <1>11
    <3>2. PICK k \in 1 .. D.size : db = [name |-> buffer[b][k].name, id |-> buffer[b][k].id]
      BY <1>5, <2>1, <3>1 DEF DbsIn
    <3>3. k # i
      BY <1>7, <3>1, <3>2
    <3> QED BY <3>2, <3>3
  <2>5. \A k, n \in (1 .. D.size) \ {i} :
          buffer[b][k].name = buffer[b][n].name \/ buffer[b][k].id = buffer[b][n].id => k = n
    BY <1>5, <2>1 DEF DbsIn
  <2>6. /\ IsArray(b)' /\ D.size <= room /\ 1 <= room /\ room <= Len(buffer[b])
        /\ \A k \in 1 .. D.size : buffer[b][k] # Garbage /\ buffer[b][k].id < g_dbGenNum
    BY <1>5, <1>6 DEF DbsIn, IsArray
  <2>7. D'.size = D.size /\ buffer' = buffer /\ g_dbGenNum' = g_dbGenNum
    BY <1>6
  <2> HIDE DEF D
  <2> QED BY <2>1, <2>3, <2>4, <2>5, <2>6, <2>7 DEF DbsIn
<1>13. DbsIn(Data(new), Room(new), Hole(new))'
  BY <1>3, <1>4, <1>6, <1>10, <1>12 DEF Data, Room, Hole
<1>14. i <= D.size
  BY <1>5, <1>7 DEF DbsIn
<1>15. Making(new)'
  BY <1>5, <1>6, <1>10, <1>13, <1>14 DEF Making, Seeking
<1> QED BY <1>5, <1>6, <1>9, <1>10, <1>15 DEF MakerKeeps, Maker

\* The vector of a new database's tables is a buffer of its own.
LEMMA LoadGenNumKeeps ==
  ASSUME NEW kind \in Kind, TypedBy(kind), RestTyped', NEW t \in Thread, Maker(thread[t]),
         DbsInv, LoadGenNum(t)
  PROVE  MakerKeeps(t)
<1>1. PICK me \in ThreadT : me = thread[t]
  BY MakerIs
<1>2. me.pc = "load" /\ me.op = "create"
  BY <1>1, MakerIs DEF LoadGenNum, At, Placed, Appending, Maker
<1>3. PICK item : item = [name |-> me.name, id |-> g_dbGenNum, list |-> NewVector(UnusedBuffer)]
  OBVIOUS
<1>4. PICK new : new = [me EXCEPT !.pc = "store", !.num = g_dbGenNum, !.item = item]
  OBVIOUS
<1>5. thread' = [thread EXCEPT ![t] = new]
  BY <1>1, <1>2, <1>3, <1>4 DEF LoadGenNum
<1>6. /\ new.op = "create" /\ new.pc = "store" /\ new.place = me.place
      /\ new.name = me.name /\ new.item.name = me.name
  BY <1>2, <1>3, <1>4 DEF ThreadT
<1>7. /\ UNCHANGED <<g_srDbCtrlManager, dbCtrlList, g_dbGenNum, acked>>
      /\ buffer' = [buffer EXCEPT ![UnusedBuffer] = NewItems]
  BY <1>1, <1>2 DEF LoadGenNum
<1>8. /\ g_srDbCtrlManager # NULL /\ me.place = TheManager /\ Creating(me)
      /\ DbsIn(D.data, D.capacity, 0) /\ D.data \in Of(kind, "dbs") /\ D.capacity \in Int
      /\ Data(me) = D.data /\ D.size \in Nat
  BY <1>1, <1>2, MakerHas
<1>9. UnusedBuffer \in Buffer /\ UnusedBuffer \notin Of(kind, "dbs")
  BY UnusedIsNone DEF LoadGenNum, Of
<1>10. PICK c \in Buffer : c = UnusedBuffer
  BY <1>9
<1>11. \A b \in Of(kind, "dbs") : IsArray(b) => SameDbs(b)
  BY <1>7, <1>9, <1>10, OtherArray
<1>12. DbsLeft(kind)
  BY <1>7, <1>11, SimpleRelThreadsAssumption DEF DbsLeft, TypedBy, RestTyped
<1>13. PICK b \in Of(kind, "dbs") : b = D.data
  BY <1>8
<1>14. PICK room \in Int : room = D.capacity
  BY <1>8
<1>15. DbsIn(b, room, 0)' /\ SameDbs(b)
  BY <1>8, <1>12, <1>13, <1>14, DbsInLeft
<1>16. D' = D /\ TheManager' = TheManager
  BY <1>7 DEF D, TheManager
<1>17. \A k \in 1 .. D.size : buffer'[b][k].name # me.name
  <2> TAKE k \in 1 .. D.size
  <2>1. k \in 1 .. Len(buffer[b]) /\ buffer[b][k] # Garbage
    BY <1>8, <1>13, DbsInRange
  <2>2. buffer[b][k].name # me.name
    BY <1>2, <1>8, <1>13 DEF Creating, Appending
  <2> QED BY <1>15, <2>1, <2>2 DEF SameDbs
<1>18. Making(new)'
  BY <1>6, <1>7, <1>8, <1>13, <1>14, <1>15, <1>16, <1>17
     DEF Making, Seeking, Creating, Data, Room, Hole, Searching, Appending, Filling
<1> QED BY <1>5, <1>6, <1>7, <1>8, <1>18 DEF MakerKeeps, Maker

LEMMA StoreGenNumKeeps ==
  ASSUME NEW kind \in Kind, TypedBy(kind), RestTyped', NEW t \in Thread, Maker(thread[t]),
         DbsInv, StoreGenNum(t)
  PROVE  MakerKeeps(t)
<1>1. PICK me \in ThreadT : me = thread[t]
  BY MakerIs
<1>2. me.pc = "store" /\ me.op = "create"
  BY <1>1, MakerIs DEF StoreGenNum, At, Placed, Appending, Maker
<1>3. PICK new : new = [me EXCEPT !.pc = "check", !.place = TheManager]
  OBVIOUS
<1>4. thread' = [thread EXCEPT ![t] = new]
  BY <1>1, <1>2, <1>3 DEF StoreGenNum
<1>5. /\ new.op = "create" /\ new.pc = "check" /\ new.place = TheManager
      /\ new.name = me.name /\ new.item = me.item
  BY <1>2, <1>3 DEF ThreadT
<1>6. me.num = g_dbGenNum /\ me.item.id = g_dbGenNum
  BY <1>1, <1>2 DEF DbsInv, Numbered
<1>7. /\ UNCHANGED <<g_srDbCtrlManager, dbCtrlList, buffer, acked>>
      /\ g_dbGenNum' = g_dbGenNum + 1
  BY <1>1, <1>6 DEF StoreGenNum
<1>8. /\ g_srDbCtrlManager # NULL /\ Creating(me)
      /\ DbsIn(D.data, D.capacity, 0) /\ D.data \in Of(kind, "dbs") /\ D.capacity \in Int
      /\ Data(me) = D.data /\ D.size \in Nat
  BY <1>1, <1>2, MakerHas
<1>9. g_dbGenNum \in Nat
  BY SimpleRelThreadsAssumption DEF TypedBy, RestTyped
<1>10. DbsLeft(kind)
  BY <1>7, <1>9, ArrayAt DEF DbsLeft, SameDbs, IsArray
<1>11. PICK b \in Of(kind, "dbs") : b = D.data
  BY <1>8
<1>12. PICK room \in Int : room = D.capacity
  BY <1>8
<1>13. DbsIn(b, room, 0)'
  BY <1>8, <1>10, <1>11, <1>12, DbsInLeft
<1>14. D' = D /\ TheManager' = TheManager
  BY <1>7 DEF D, TheManager
<1>15. \A k \in 1 .. D.size : buffer[b][k].name # me.name /\ buffer[b][k].id # me.item.id
  <2> TAKE k \in 1 .. D.size
  <2>1. buffer[b][k].name # me.name
    BY <1>2, <1>8, <1>11 DEF Creating, Appending
  <2>2. buffer[b][k] \in DbT(kind) /\ buffer[b][k].id < g_dbGenNum
    BY <1>8, <1>11, DbsInRange
  <2>3. buffer[b][k].id \in Nat
    BY <2>2 DEF DbT, Id
  <2> QED BY <1>6, <1>9, <2>1, <2>2, <2>3
<1>16. me.item.name = me.name /\ me.item.id < g_dbGenNum'
  BY <1>2, <1>6, <1>7, <1>8, <1>9 DEF Creating
<1>17. Making(new)'
  BY <1>5, <1>7, <1>8, <1>11, <1>12, <1>13, <1>14, <1>15, <1>16
     DEF Making, Seeking, Creating, Data, Room, Hole, Searching, Appending, Filling
<1> QED BY <1>4, <1>5, <1>7, <1>8, <1>17 DEF MakerKeeps, Maker

LEMMA CheckCapacityKeeps ==
  ASSUME NEW kind \in Kind, TypedBy(kind), NEW t \in Thread, Maker(thread[t]), DbsInv,
         CheckCapacity(t)
  PROVE  MakerKeeps(t)
<1>1. PICK me \in ThreadT : me = thread[t]
  BY MakerIs
<1>2. me.pc = "check" /\ me.op = "create"
  BY <1>1, MakerIs DEF CheckCapacity, At, Placed, Searching, Appending, Filling, Maker
<1>3. /\ g_srDbCtrlManager # NULL /\ Creating(me) /\ me.place = TheManager /\ Vector(t) = D
      /\ Data(me) = D.data /\ D.size \in Nat /\ D.capacity \in Nat
      /\ DbsIn(D.data, D.capacity, 0)
  BY <1>1, <1>2, MakerHas
<1>4. PICK pc : pc = IF D.size >= D.capacity THEN "realloc" ELSE "copy"
  OBVIOUS
<1>5. PICK new : new = [me EXCEPT !.pc = pc]
  OBVIOUS
<1>6. thread' = [thread EXCEPT ![t] = new]
  BY <1>1, <1>3, <1>4, <1>5 DEF CheckCapacity, Goes
<1>7. /\ new.op = "create" /\ new.pc = pc /\ new.place = TheManager
      /\ new.name = me.name /\ new.item = me.item
  BY <1>2, <1>3, <1>5 DEF ThreadT
<1>8. /\ UNCHANGED <<g_srDbCtrlManager, dbCtrlList, g_dbGenNum, buffer>> /\ acked' = acked
  BY DEF CheckCapacity, shared
<1>9. /\ DbsIn(D.data, D.capacity, 0)' /\ D' = D /\ TheManager' = TheManager
  BY <1>1, <1>2, <1>8, LocalKeeps
<1>10. /\ pc = "realloc" => D.size = D.capacity
       /\ pc = "copy" => D.size < D.capacity
       /\ pc \in {"realloc", "copy"}
  BY <1>3, <1>4 DEF DbsIn
<1>11. /\ me.item.name = me.name /\ me.item.id < g_dbGenNum
       /\ \A k \in 1 .. D.size : /\ buffer[D.data][k].name # me.name
                                 /\ buffer[D.data][k].id # me.item.id
  BY <1>2, <1>3 DEF Creating, Searching, Appending, Filling
<1>12. Making(new)'
  BY <1>3, <1>7, <1>8, <1>9, <1>10, <1>11
     DEF Making, Seeking, Creating, Data, Room, Hole, Searching, Appending, Filling
<1> QED BY <1>3, <1>6, <1>7, <1>8, <1>12 DEF MakerKeeps, Maker

\* What is in the array is kept when its items, up to the last, are as they were.
LEMMA DbsMoved ==
  ASSUME UNCHANGED <<g_srDbCtrlManager, g_dbGenNum>>, acked'.dbs = acked.dbs,
         D'.size = D.size, NEW b, NEW c, NEW room, NEW room2, DbsIn(b, room, 0),
         IsArray(c)', D.size <= room2, 1 <= room2, room2 <= Len(buffer'[c]),
         \A k \in 1 .. D.size : buffer'[c][k] = buffer[b][k]
  PROVE  DbsIn(c, room2, 0)'
<1>1. (1 .. D.size) \ {0} = 1 .. D.size
  BY DEF DbsIn
<1> HIDE DEF D
<1>2. /\ \A k \in 1 .. D'.size : buffer'[c][k] # Garbage /\ buffer'[c][k].id < g_dbGenNum'
      /\ IsArray(c)' /\ D'.size \in Nat /\ D'.size <= room2 /\ 1 <= room2
      /\ room2 <= Len(buffer'[c])
  BY DEF DbsIn
<1>3. \A k, n \in (1 .. D'.size) \ {0} :
        buffer'[c][k].name = buffer'[c][n].name \/ buffer'[c][k].id = buffer'[c][n].id => k = n
  BY <1>1 DEF DbsIn
<1>4. /\ \A k \in (1 .. D'.size) \ {0} :
           [name |-> buffer'[c][k].name, id |-> buffer'[c][k].id] \in acked'.dbs
      /\ \A db \in acked'.dbs : \E k \in (1 .. D'.size) \ {0} :
           db = [name |-> buffer'[c][k].name, id |-> buffer'[c][k].id]
  BY <1>1 DEF DbsIn
<1> QED BY <1>2, <1>3, <1>4 DEF DbsIn

LEMMA ReallocKeeps ==
  ASSUME NEW kind \in Kind, TypedBy(kind), NEW t \in Thread, Maker(thread[t]), DbsInv,
         Realloc(t)
  PROVE  MakerKeeps(t)
<1>1. PICK me \in ThreadT : me = thread[t]
  BY MakerIs
<1>2. me.pc = "realloc" /\ me.op = "create"
  BY <1>1, MakerIs DEF Realloc, At, Placed, Searching, Appending, Filling, Maker
<1>3. /\ g_srDbCtrlManager # NULL /\ Creating(me) /\ me.place = TheManager /\ Vector(t) = D
      /\ Data(me) = D.data /\ D.size \in Nat /\ D.capacity \in Nat
      /\ DbsIn(D.data, D.capacity, 0) /\ D.data \in Of(kind, "dbs")
  BY <1>1, <1>2, MakerHas
<1>4. PICK old \in Of(kind, "dbs") : old = D.data
  BY <1>3
<1>5. /\ D.size = D.capacity /\ 1 <= D.capacity /\ D.capacity <= Len(buffer[old])
      /\ IsArray(old) /\ DOMAIN buffer[old] = 1 .. Len(buffer[old])
      /\ Len(buffer[old]) \in Nat
  BY <1>2, <1>3, <1>4, DbsInRange DEF Creating, DbsIn
<1>6. PICK more : more = [i \in 1 .. 2 * D.capacity |->
                            IF i \in DOMAIN buffer[old] THEN buffer[old][i] ELSE Garbage]
  OBVIOUS
<1>7. /\ Len(more) = 2 * D.capacity
      /\ \A k \in 1 .. D.size : more[k] = buffer[old][k]
      /\ more \in Seq(DbItem \cup LabelItem \cup {Garbage})
  <2>1. \A k \in 1 .. D.size : k \in 1 .. 2 * D.capacity /\ k \in DOMAIN buffer[old]
    BY <1>3, <1>5
  <2>2. \A k \in 1 .. D.size : more[k] = buffer[old][k]
    BY <1>6, <2>1
  <2>3. PICK n \in Nat : n = 2 * D.capacity
    BY <1>3
  <2>4. DbT(kind) \subseteq DbItem
    BY DEF DbT, DbItem, Of
  <2>5. \A i \in DOMAIN buffer[old] : buffer[old][i] \in DbItem \cup LabelItem \cup {Garbage}
    BY <1>5, <2>4, ArrayAt DEF ItemT
  <2>6. PICK S : S = DbItem \cup LabelItem \cup {Garbage}
    OBVIOUS
  <2>7. more \in [1 .. n -> S]
    BY <1>6, <2>3, <2>5, <2>6
  <2>8. more \in Seq(S) /\ Len(more) = n
    BY <2>7
  <2> QED BY <2>2, <2>3, <2>6, <2>8
<1>8. UNCHANGED <<g_srDbCtrlManager, dbCtrlList, g_dbGenNum, acked>>
  BY DEF Realloc
<1>9. D' = D /\ TheManager' = TheManager
  BY <1>8 DEF D, TheManager
<1>10. PICK num \in Buffer :
         /\ thread' = [thread EXCEPT ![t].pc = "setData", ![t].num = num]
         /\ buffer'[num] = more
  <2>1. CASE /\ buffer' = [buffer EXCEPT ![old] = more]
             /\ thread' = [thread EXCEPT ![t].pc = "setData", ![t].num = old]
    BY <2>1 DEF TypedBy, Of
  <2>2. CASE /\ UnusedBuffers # {}
             /\ buffer' = [buffer EXCEPT ![UnusedBuffer] = more, ![old] = Freed]
             /\ thread' = [thread EXCEPT ![t].pc = "setData", ![t].num = UnusedBuffer]
    <3>1. UnusedBuffer \in Buffer /\ UnusedBuffer # old
      BY <2>2, UnusedIsNone DEF Of
    <3>2. buffer'[UnusedBuffer] = more
      BY <2>2, <3>1 DEF TypedBy, Of
    <3> QED BY <2>2, <3>1, <3>2
  <2> QED BY <1>3, <1>4, <1>6, <2>1, <2>2 DEF Realloc
<1>11. PICK new : new = [me EXCEPT !.pc = "setData", !.num = num]
  OBVIOUS
<1>12. thread' = [thread EXCEPT ![t] = new]
  BY <1>1, <1>10, <1>11
<1>13. /\ new.op = "create" /\ new.pc = "setData" /\ new.place = TheManager
       /\ new.name = me.name /\ new.item = me.item /\ new.num = num
  BY <1>2, <1>3, <1>11 DEF ThreadT
<1>14. IsArray(num)'
  BY <1>7, <1>10, SimpleRelThreadsAssumption DEF IsArray
<1>15. PICK room2 \in Nat : room2 = 2 * D.capacity
  BY <1>3
<1>16. DbsIn(num, room2, 0)'
  <2>1. PICK room : room = D.capacity
    OBVIOUS
  <2>2. D.size <= room2 /\ 1 <= room2 /\ room2 <= Len(buffer'[num])
    BY <1>3, <1>5, <1>7, <1>10, <1>15
  <2> QED BY <1>3, <1>4, <1>7, <1>8, <1>9, <1>10, <1>14, <2>1, <2>2, DbsMoved
<1>17. \A k \in 1 .. D.size : /\ buffer'[num][k].name # me.name
                              /\ buffer'[num][k].id # me.item.id
  BY <1>2, <1>3, <1>4, <1>7, <1>10 DEF Creating, Searching, Appending, Filling
<1>18. me.item.name = me.name /\ me.item.id < g_dbGenNum
  BY <1>2, <1>3 DEF Creating, Filling
<1>19. Making(new)'
  BY <1>3, <1>5, <1>8, <1>9, <1>13, <1>15, <1>16, <1>17, <1>18
     DEF Making, Seeking, Creating, Data, Room, Hole, Searching, Appending, Filling
<1> QED BY <1>3, <1>8, <1>12, <1>13, <1>19 DEF MakerKeeps, Maker

LEMMA SetDataKeeps ==
  ASSUME NEW kind \in Kind, TypedBy(kind), NEW t \in Thread, Maker(thread[t]), DbsInv,
         SetData(t)
  PROVE  MakerKeeps(t)
<1>1. PICK me \in ThreadT : me = thread[t]
  BY MakerIs
<1>2. me.pc = "setData" /\ me.op = "create"
  BY <1>1, MakerIs DEF SetData, At, Placed, Searching, Appending, Filling, Maker
<1>3. /\ g_srDbCtrlManager # NULL /\ g_srDbCtrlManager \in Manager
      /\ Creating(me) /\ me.place = TheManager /\ Vector(t) = D
      /\ D.size \in Nat /\ D.capacity \in Nat /\ D \in ManagerT(kind)
      /\ DbsIn(me.num, 2 * D.capacity, 0)
  BY <1>1, <1>2, MakerHas DEF Data, Room
<1>4. PICK new : new = [me EXCEPT !.pc = "copy"]
  OBVIOUS
<1>5. thread' = [thread EXCEPT ![t] = new]
  BY <1>1, <1>4 DEF SetData, Goes
<1>6. /\ new.op = "create" /\ new.pc = "copy" /\ new.place = TheManager
      /\ new.name = me.name /\ new.item = me.item
  BY <1>2, <1>3, <1>4 DEF ThreadT
<1>7. PICK vector : vector = [D EXCEPT !.data = me.num, !.capacity = 2 * D.capacity]
  OBVIOUS
<1>8. /\ dbCtrlList' = [dbCtrlList EXCEPT ![g_srDbCtrlManager] = vector]
      /\ UNCHANGED <<g_srDbCtrlManager, g_dbGenNum, acked, buffer>>
  BY <1>1, <1>3, <1>7, AtTheManager DEF SetData, SetVector
<1>9. D' = vector /\ TheManager' = TheManager
  BY <1>3, <1>8 DEF D, TheManager, TypedBy, ManagersTyped
<1>10. vector.size = D.size /\ vector.data = me.num /\ vector.capacity = 2 * D.capacity
  BY <1>3, <1>7 DEF ManagerT
<1>11. PICK b : b = me.num
  OBVIOUS
<1>12. PICK room : room = 2 * D.capacity
  OBVIOUS
<1>13. DbsIn(b, room, 0)'
  <2>1. /\ D'.size = D.size /\ DbsIn(b, room, 0) /\ IsArray(b)'
        /\ D.size <= room /\ 1 <= room /\ room <= Len(buffer'[b])
        /\ \A k \in 1 .. D.size : buffer'[b][k] = buffer[b][k]
    BY <1>3, <1>8, <1>9, <1>10, <1>11, <1>12 DEF DbsIn, IsArray
  <2> QED BY <1>8, <2>1, DbsMoved
<1>14. D.size = D.capacity /\ D.size < 2 * D.capacity
  BY <1>2, <1>3 DEF Creating, DbsIn
<1>15. /\ me.item.name = me.name /\ me.item.id < g_dbGenNum
       /\ \A k \in 1 .. D.size : buffer[b][k].name # me.name /\ buffer[b][k].id # me.item.id
  BY <1>2, <1>3, <1>11 DEF Creating, Searching, Appending, Filling, Data
<1>16. Making(new)'
  BY <1>3, <1>6, <1>8, <1>9, <1>10, <1>11, <1>12, <1>13, <1>14, <1>15
     DEF Making, Seeking, Creating, Data, Room, Hole, Searching, Appending, Filling
<1> QED BY <1>3, <1>5, <1>6, <1>8, <1>16 DEF MakerKeeps, Maker

LEMMA CopyItemKeeps ==
  ASSUME NEW kind \in Kind, TypedBy(kind), NEW t \in Thread, Maker(thread[t]), DbsInv,
         CopyItem(t)
  PROVE  MakerKeeps(t)
<1>1. PICK me \in ThreadT : me = thread[t]
  BY MakerIs
<1>2. me.pc = "copy" /\ me.op = "create"
  BY <1>1, MakerIs DEF CopyItem, At, Placed, Searching, Appending, Filling, Maker
<1>3. /\ g_srDbCtrlManager # NULL /\ Creating(me) /\ me.place = TheManager /\ Vector(t) = D
      /\ D.size \in Nat /\ D.capacity \in Nat
      /\ DbsIn(D.data, D.capacity, 0) /\ D.data \in Of(kind, "dbs")
      /\ Data(me) = D.data
  BY <1>1, <1>2, MakerHas
<1>4. PICK b \in Of(kind, "dbs") : b = D.data
  BY <1>3
<1>5. PICK new : new = [me EXCEPT !.pc = "size"]
  OBVIOUS
<1>6. thread' = [thread EXCEPT ![t] = new]
  BY <1>1, <1>5 DEF CopyItem, Goes
<1>7. /\ new.op = "create" /\ new.pc = "size" /\ new.place = TheManager
      /\ new.name = me.name /\ new.item = me.item
  BY <1>2, <1>3, <1>5 DEF ThreadT
<1>8. /\ UNCHANGED <<g_srDbCtrlManager, dbCtrlList, g_dbGenNum, acked>>
      /\ IsArray(b) /\ D.size + 1 \in DOMAIN buffer[b]
      /\ buffer' = [buffer EXCEPT ![b] = [buffer[b] EXCEPT ![D.size + 1] = me.item]]
  BY <1>1, <1>3, <1>4 DEF CopyItem, IsSlot
<1>9. D' = D /\ TheManager' = TheManager
  BY <1>8 DEF D, TheManager
<1>10. me.item \in DbT(kind) /\ me.item # Garbage
  <2>1. me.item \in DbT(kind)
    BY <1>1, <1>2, MakerIs DEF Placed, Filling, ItemT
  <2>2. me.item \in DbItem
    BY <2>1 DEF DbT, DbItem, Of
  <2> QED BY <2>1, <2>2, SimpleRelThreadsAssumption
<1>11. buffer'[b] = [buffer[b] EXCEPT ![D.size + 1] = me.item]
  BY <1>8 DEF TypedBy, Of
<1>12. /\ IsArray(b)' /\ Len(buffer'[b]) = Len(buffer[b])
       /\ buffer'[b][D.size + 1] = me.item
       /\ \A k \in 1 .. D.size : buffer'[b][k] = buffer[b][k]
  <2>1. PICK k \in {"dbs", "tables"} : k = "dbs"
    OBVIOUS
  <2>2. PICK slot \in DOMAIN buffer[b] : slot = D.size + 1
    BY <1>8
  <2>3. b \in Of(kind, k) /\ me.item \in ItemT(kind, k) \cup {Garbage}
    BY <1>10, <2>1 DEF ItemT
  <2>4. IsArray(b) /\ buffer' = [buffer EXCEPT ![b] = [buffer[b] EXCEPT ![slot] = me.item]]
    BY <1>8, <2>2
  <2>5. Len(buffer'[b]) = Len(buffer[b])
    BY <2>3, <2>4, WrittenTyped
  <2>6. IsArray(b)'
    BY <2>3, <2>4, WrittenTyped
  <2>7. \A j \in 1 .. D.size : j # D.size + 1 /\ j \in DOMAIN buffer[b]
    BY <1>3, <1>4, DbsInRange
  <2>8. \A j \in 1 .. D.size : buffer'[b][j] = buffer[b][j]
    BY <1>11, <2>7
  <2> QED BY <1>8, <1>11, <2>5, <2>6, <2>8
<1>13. PICK room : room = D.capacity
  OBVIOUS
<1>14. DbsIn(b, room, 0)'
  <2>1. /\ DbsIn(b, room, 0) /\ D'.size = D.size /\ D.size <= room /\ 1 <= room
        /\ room <= Len(buffer'[b])
    BY <1>3, <1>4, <1>9, <1>12, <1>13 DEF DbsIn
  <2> QED BY <1>8, <1>12, <2>1, DbsMoved
<1>15. /\ me.item.name = me.name /\ me.item.id < g_dbGenNum /\ D.size < D.capacity
       /\ \A k \in 1 .. D.size : /\ buffer'[b][k].name # me.name
                                 /\ buffer'[b][k].id # me.item.id
  BY <1>2, <1>3, <1>4, <1>12 DEF Creating, Searching, Appending, Filling
<1>16. Making(new)'
  BY <1>3, <1>4, <1>7, <1>8, <1>9, <1>10, <1>12, <1>13, <1>14, <1>15
     DEF Making, Seeking, Creating, Data, Room, Hole, Searching, Appending, Filling
<1> QED BY <1>3, <1>6, <1>7, <1>8, <1>16 DEF MakerKeeps, Maker

LEMMA AddSizeKeeps ==
  ASSUME NEW kind \in Kind, TypedBy(kind), NEW t \in Thread, Maker(thread[t]), DbsInv,
         AddSize(t)
  PROVE  MakerKeeps(t)
<1>1. PICK me \in ThreadT : me = thread[t]
  BY MakerIs
<1>2. me.pc = "size" /\ me.op = "create"
  BY <1>1, MakerIs DEF AddSize, At, Placed, Searching, Appending, Filling, Maker
<1>3. /\ g_srDbCtrlManager # NULL /\ g_srDbCtrlManager \in Manager
      /\ Creating(me) /\ me.place = TheManager /\ Vector(t) = D
      /\ D.size \in Nat /\ D.capacity \in Nat /\ D \in ManagerT(kind)
      /\ DbsIn(D.data, D.capacity, 0) /\ Data(me) = D.data
  BY <1>1, <1>2, MakerHas
<1>4. PICK n \in Nat : n = D.size
  BY <1>3
<1>5. PICK b : b = D.data
  OBVIOUS
<1>6. PICK room : room = D.capacity
  OBVIOUS
<1>7. PICK vector : vector = [D EXCEPT !.size = n + 1]
  OBVIOUS
<1>8. /\ dbCtrlList' = [dbCtrlList EXCEPT ![g_srDbCtrlManager] = vector]
      /\ UNCHANGED <<g_srDbCtrlManager, g_dbGenNum, buffer>>
      /\ thread' = [thread EXCEPT ![t] = Idle]
  BY <1>1, <1>3, <1>4, <1>7, AtTheManager DEF AddSize, SetVector, Answers
<1>9. D' = vector
  BY <1>3, <1>8 DEF D, TypedBy, ManagersTyped
<1>10. D'.size = n + 1 /\ D'.data = b /\ D'.capacity = room
  BY <1>3, <1>5, <1>6, <1>7, <1>9 DEF ManagerT
<1>11. PICK db : db = [name |-> buffer[b][n + 1].name, id |-> buffer[b][n + 1].id]
  OBVIOUS
<1>12. /\ buffer[b][n + 1] # Garbage /\ n < room
       /\ buffer[b][n + 1].name = me.name /\ buffer[b][n + 1].id = me.item.id
       /\ me.item.id < g_dbGenNum /\ me.item.name = me.name
       /\ \A k \in 1 .. n : buffer[b][k].name # me.name /\ buffer[b][k].id # me.item.id
  BY <1>2, <1>3, <1>4, <1>5, <1>6 DEF Creating, Searching, Appending, Filling
<1>13. acked'.dbs = acked.dbs \cup {db}
  BY <1>1, <1>2, <1>11, <1>12 DEF AddSize, TypedBy, RestTyped
<1>14. DbsIn(b, room, 0) /\ D.size = n
  BY <1>3, <1>4, <1>5, <1>6
<1>15. \A k \in 1 .. n + 1 : k \in 1 .. n \/ k = n + 1
  OBVIOUS
<1>16. n + 1 \in 1 .. n + 1 /\ \A k \in 1 .. n : k \in 1 .. n + 1 /\ k # n + 1 /\ k # 0
  OBVIOUS
<1>17. \A k \in 1 .. n + 1 : buffer[b][k] # Garbage /\ buffer[b][k].id < g_dbGenNum
  BY <1>12, <1>14, <1>15 DEF DbsIn
<1>18. \A k, j \in 1 .. n + 1 :
         buffer[b][k].name = buffer[b][j].name \/ buffer[b][k].id = buffer[b][j].id => k = j
  <2>1. \A k, j \in 1 .. n :
          buffer[b][k].name = buffer[b][j].name \/ buffer[b][k].id = buffer[b][j].id => k = j
    BY <1>14, <1>16 DEF DbsIn
  <2> QED BY <1>12, <1>15, <2>1
<1>19. \A k \in 1 .. n + 1 :
         [name |-> buffer[b][k].name, id |-> buffer[b][k].id] \in acked'.dbs
  <2>1. \A k \in 1 .. n :
          [name |-> buffer[b][k].name, id |-> buffer[b][k].id] \in acked.dbs
    BY <1>14, <1>16 DEF DbsIn
  <2> QED BY <1>11, <1>13, <1>15, <2>1
<1>20. \A d \in acked'.dbs : \E k \in 1 .. n + 1 :
         d = [name |-> buffer[b][k].name, id |-> buffer[b][k].id]
  <2>1. \A d \in acked.dbs : \E k \in 1 .. n :
          d = [name |-> buffer[b][k].name, id |-> buffer[b][k].id]
    BY <1>14 DEF DbsIn
  <2> QED BY <1>11, <1>13, <1>16, <2>1
<1>21. (1 .. n + 1) \ {0} = 1 .. n + 1
  OBVIOUS
<1>22. IsArray(b)' /\ n + 1 <= room /\ 1 <= room /\ room <= Len(buffer'[b]) /\ n + 1 \in Nat
  BY <1>3, <1>6, <1>8, <1>12, <1>14 DEF DbsIn, IsArray
<1>23. DbsIn(b, room, 0)'
  BY <1>8, <1>10, <1>17, <1>18, <1>19, <1>20, <1>21, <1>22 DEF DbsIn
<1>24. DbsIn(D.data, D.capacity, 0)'
  BY <1>10, <1>23
<1>25. ~ Maker(Idle)
  BY DEF Idle, Maker
<1> QED BY <1>3, <1>8, <1>24, <1>25 DEF MakerKeeps

\* The hole goes up with the items that are moved down.
LEMMA MoveItemKeeps ==
  ASSUME NEW kind \in Kind, TypedBy(kind), NEW t \in Thread, Maker(thread[t]), DbsInv,
         MoveItem(t)
  PROVE  MakerKeeps(t)
<1>1. PICK me \in ThreadT : me = thread[t]
  BY MakerIs
<1>2. me.pc = "move" /\ me.op = "drop"
  BY <1>1, MakerIs DEF MoveItem, At, Placed
<1>3. /\ g_srDbCtrlManager # NULL /\ me.place = TheManager /\ Vector(t) = D
      /\ D.size \in Nat /\ D.capacity \in Nat /\ Data(me) \in Of(kind, "dbs")
      /\ DbsIn(D.data, D.capacity, me.i) /\ Data(me) = D.data
  BY <1>1, <1>2, MakerHas DEF Hole
<1>4. PICK n \in Nat : n = D.size
  BY <1>3
<1>5. PICK b \in Of(kind, "dbs") : b = D.data
  BY <1>3
<1>6. PICK room \in Int : room = D.capacity
  BY <1>3
<1>7. PICK i \in Nat \ {0} : i = me.i
  BY DEF ThreadT
<1>8. PICK new : new = [me EXCEPT !.i = i + 1]
  OBVIOUS
<1>9. /\ UNCHANGED <<g_srDbCtrlManager, dbCtrlList, g_dbGenNum, acked>>
      /\ buffer' = [buffer EXCEPT ![b] = [buffer[b] EXCEPT ![i] = buffer[b][i + 1]]]
      /\ i < me.num /\ thread' = [thread EXCEPT ![t] = new] /\ IsItem(b, i + 1)
  BY <1>1, <1>3, <1>5, <1>7, <1>8 DEF MoveItem
<1>10. /\ new.op = "drop" /\ new.pc = "move" /\ new.place = TheManager
       /\ new.num = me.num /\ new.i = i + 1
  BY <1>2, <1>3, <1>8 DEF ThreadT
<1>11. me.num = n /\ i < n
  BY <1>1, <1>2, <1>4, <1>9, MakerIs DEF Making
<1>12. D' = D /\ TheManager' = TheManager
  BY <1>9 DEF D, TheManager
<1>13. DbsIn(b, room, i)
  BY <1>3, <1>5, <1>6, <1>7
<1>14. /\ IsArray(b)' /\ Len(buffer'[b]) = Len(buffer[b])
       /\ \A k \in 1 .. n : buffer'[b][k] = buffer[b][IF k = i THEN i + 1 ELSE k]
  <2>1. PICK k \in {"dbs", "tables"} : k = "dbs"
    OBVIOUS
  <2>2. PICK item : item = buffer[b][i + 1]
    OBVIOUS
  <2>3. DOMAIN buffer[b] = 1 .. Len(buffer[b]) /\ IsArray(b) /\ n <= Len(buffer[b])
        /\ Len(buffer[b]) \in Nat
    <3>1. /\ DOMAIN buffer[b] = 1 .. Len(buffer[b]) /\ IsArray(b) /\ D.size <= room
          /\ Len(buffer[b]) \in Nat /\ room <= Len(buffer[b])
      BY <1>13, DbsInRange
    <3> QED BY <1>4, <3>1
  <2>4. i \in DOMAIN buffer[b] /\ b \in Of(kind, k) /\ item \in ItemT(kind, k) \cup {Garbage}
    BY <1>9, <1>11, <2>1, <2>2, <2>3, ItemAt
  <2>5. buffer' = [buffer EXCEPT ![b] = [buffer[b] EXCEPT ![i] = item]]
    BY <1>9, <2>2
  <2>6. Len(buffer'[b]) = Len(buffer[b])
    BY <2>3, <2>4, <2>5, WrittenTyped
  <2>7. IsArray(b)'
    BY <2>3, <2>4, <2>5, WrittenTyped
  <2>8. buffer'[b] = [buffer[b] EXCEPT ![i] = item]
    BY <2>5 DEF TypedBy, Of
  <2>9. \A j \in 1 .. n : j \in DOMAIN buffer[b]
    BY <2>3
  <2>10. \A j \in 1 .. n : buffer'[b][j] = buffer[b][IF j = i THEN i + 1 ELSE j]
    BY <2>2, <2>8, <2>9
  <2> QED BY <2>6, <2>7, <2>10
<1>15. PICK from \in [1 .. n -> 1 .. n] :
         /\ \A k \in 1 .. n : from[k] = IF k = i THEN i + 1 ELSE k
  <2>1. \A k \in 1 .. n : (IF k = i THEN i + 1 ELSE k) \in 1 .. n
    BY <1>11
  <2>2. [k \in 1 .. n |-> IF k = i THEN i + 1 ELSE k] \in [1 .. n -> 1 .. n]
    BY <2>1
  <2> QED BY <2>2
<1>16. /\ \A k \in (1 .. n) \ {i + 1} : from[k] \in (1 .. n) \ {i}
       /\ \A k, j \in (1 .. n) \ {i + 1} : from[k] = from[j] => k = j
       /\ \A k \in (1 .. n) \ {i} : \E j \in (1 .. n) \ {i + 1} : from[j] = k
  <2>1. \A k \in (1 .. n) \ {i + 1} : from[k] \in (1 .. n) \ {i}
    BY <1>11, <1>15
  <2>2. \A k, j \in (1 .. n) \ {i + 1} : from[k] = from[j] => k = j
    BY <1>11, <1>15
  <2>3. ASSUME NEW k \in (1 .. n) \ {i}
        PROVE  \E j \in (1 .. n) \ {i + 1} : from[j] = k
    <3>1. CASE k = i + 1
      <4>1. i \in (1 .. n) \ {i + 1}
        BY <1>11
      <4>2. from[i] = k
        BY <1>15, <3>1, <4>1
      <4> QED BY <4>1, <4>2
    <3>2. CASE k # i + 1
      <4>1. k \in (1 .. n) \ {i + 1} /\ from[k] = k
        BY <1>15, <2>3, <3>2
      <4> QED BY <4>1
    <3> QED BY <3>1, <3>2
  <2> QED BY <2>1, <2>2, <2>3
<1>17. \A k \in 1 .. n : buffer'[b][k] = buffer[b][from[k]]
  BY <1>14, <1>15
<1>18. D'.size = n /\ g_dbGenNum' = g_dbGenNum /\ acked' = acked
  BY <1>4, <1>9, <1>12
<1>19. DbsIn(b, room, i + 1)'
  <2>1. \A k \in 1 .. n : buffer'[b][k] # Garbage /\ buffer'[b][k].id < g_dbGenNum
    <3>1. \A k \in 1 .. n : buffer[b][k] # Garbage /\ buffer[b][k].id < g_dbGenNum
      BY <1>4, <1>13 DEF DbsIn
    <3> QED BY <1>15, <1>17, <3>1
  <2>2. \A k, j \in (1 .. n) \ {i + 1} :
          buffer'[b][k].name = buffer'[b][j].name \/ buffer'[b][k].id = buffer'[b][j].id
            => k = j
    <3> TAKE k, j \in (1 .. n) \ {i + 1}
    <3>1. from[k] \in (1 .. n) \ {i} /\ from[j] \in (1 .. n) \ {i}
      BY <1>16
    <3>2. \/ buffer[b][from[k]].name = buffer[b][from[j]].name
          \/ buffer[b][from[k]].id = buffer[b][from[j]].id
          => from[k] = from[j]
      BY <1>4, <1>13, <3>1 DEF DbsIn
    <3> QED BY <1>16, <1>17, <3>2
  <2>3. \A k \in (1 .. n) \ {i + 1} :
          [name |-> buffer'[b][k].name, id |-> buffer'[b][k].id] \in acked.dbs
    <3> TAKE k \in (1 .. n) \ {i + 1}
    <3>1. from[k] \in (1 .. n) \ {i} /\ buffer'[b][k] = buffer[b][from[k]]
      BY <1>16, <1>17
    <3> QED BY <1>4, <1>13, <3>1 DEF DbsIn
  <2>4. \A db \in acked.dbs : \E k \in (1 .. n) \ {i + 1} :
          db = [name |-> buffer'[b][k].name, id |-> buffer'[b][k].id]
    <3> TAKE db \in acked.dbs
    <3>1. PICK j \in (1 .. n) \ {i} : db = [name |-> buffer[b][j].name, id |-> buffer[b][j].id]
      BY <1>4, <1>13 DEF DbsIn
    <3>2. PICK k \in (1 .. n) \ {i + 1} : from[k] = j
      BY <1>16
    <3>3. db = [name |-> buffer'[b][k].name, id |-> buffer'[b][k].id]
      BY <1>17, <3>1, <3>2
    <3> QED BY <3>3
  <2>5. n \in Nat /\ n <= room /\ 1 <= room /\ room <= Len(buffer'[b])
    BY <1>4, <1>13, <1>14 DEF DbsIn
  <2> QED BY <1>14, <1>18, <2>1, <2>2, <2>3, <2>4, <2>5 DEF DbsIn
<1>20. DbsIn(Data(new), Room(new), Hole(new))'
  BY <1>5, <1>6, <1>10, <1>12, <1>19 DEF Data, Room, Hole
<1>21. Making(new)'
  BY <1>3, <1>4, <1>9, <1>10, <1>11, <1>12, <1>20 DEF Making, Seeking
<1> QED BY <1>3, <1>9, <1>10, <1>21 DEF MakerKeeps, Maker

LEMMA SubtractSizeKeeps ==
  ASSUME NEW kind \in Kind, TypedBy(kind), NEW t \in Thread, Maker(thread[t]), DbsInv,
         SubtractSize(t)
  PROVE  MakerKeeps(t)
<1>1. PICK me \in ThreadT : me = thread[t]
  BY MakerIs
<1>2. me.pc = "move" /\ me.op = "drop"
  BY <1>1, MakerIs DEF SubtractSize, At, Placed
<1>3. /\ g_srDbCtrlManager # NULL /\ g_srDbCtrlManager \in Manager
      /\ me.place = TheManager /\ Vector(t) = D /\ D \in ManagerT(kind)
      /\ D.size \in Nat /\ DbsIn(D.data, D.capacity, me.i)
  BY <1>1, <1>2, MakerHas DEF Hole
<1>4. PICK n \in Nat : n = D.size
  BY <1>3
<1>5. PICK b : b = D.data
  OBVIOUS
<1>6. PICK room : room = D.capacity
  OBVIOUS
<1>7. me.i = n /\ n >= 1
  <2>1. me.num = n /\ me.i <= n /\ me.i >= me.num
    BY <1>1, <1>2, <1>4, MakerIs DEF Making, SubtractSize
  <2>2. me.i \in Nat \ {0}
    BY DEF ThreadT
  <2> QED BY <2>1, <2>2
<1>8. PICK vector : vector = [D EXCEPT !.size = n - 1]
  OBVIOUS
<1>9. /\ dbCtrlList' = [dbCtrlList EXCEPT ![g_srDbCtrlManager] = vector]
      /\ UNCHANGED <<g_srDbCtrlManager, g_dbGenNum, buffer, acked>>
      /\ thread' = [thread EXCEPT ![t] = Idle]
  BY <1>1, <1>3, <1>4, <1>8, AtTheManager DEF SubtractSize, SetVector, Answers
<1>10. D' = vector
  BY <1>3, <1>9 DEF D, TypedBy, ManagersTyped
<1>11. D'.size = n - 1 /\ D'.data = b /\ D'.capacity = room
  BY <1>3, <1>5, <1>6, <1>8, <1>10 DEF ManagerT
<1>12. DbsIn(b, room, n) /\ D.size = n
  BY <1>3, <1>4, <1>5, <1>6, <1>7
<1>13. (1 .. n - 1) \ {0} = (1 .. n) \ {n} /\ \A k \in 1 .. n - 1 : k \in 1 .. n
  BY <1>7
<1>14. /\ \A k \in 1 .. n - 1 : buffer[b][k] # Garbage /\ buffer[b][k].id < g_dbGenNum
       /\ n - 1 \in Nat /\ n - 1 <= room /\ IsArray(b)'
  <2>1. \A k \in 1 .. n - 1 : buffer[b][k] # Garbage /\ buffer[b][k].id < g_dbGenNum
    BY <1>12, <1>13 DEF DbsIn
  <2>2. room \in Nat
    BY <1>3, <1>6 DEF ManagerT
  <2>3. n - 1 \in Nat /\ n - 1 <= room /\ IsArray(b)'
    BY <1>7, <1>9, <1>12, <2>2 DEF DbsIn, IsArray
  <2> QED BY <2>1, <2>3
<1>15. DbsIn(b, room, 0)'
  BY <1>9, <1>11, <1>12, <1>13, <1>14 DEF DbsIn
<1>16. DbsIn(D.data, D.capacity, 0)'
  BY <1>11, <1>15
<1>17. ~ Maker(Idle)
  BY DEF Idle, Maker
<1> QED BY <1>3, <1>9, <1>16, <1>17 DEF MakerKeeps

\* It finds what it goes on to use.
LEMMA MakerNeverStrays ==
  ASSUME NEW kind \in Kind, TypedBy(kind), NEW t \in Thread, Maker(thread[t]), DbsInv
  PROVE  ~ NoTarget(t)
<1>1. PICK me \in ThreadT : me = thread[t] /\ Placed(me, kind) /\ Making(me)
  BY MakerIs
<1>2. CASE me.pc \notin {"search", "data", "item", "check", "setData", "size", "realloc", "copy",
                         "move", "row", "count"}
  BY <1>1, <1>2 DEF NoTarget
<1>3. CASE me.pc \in {"row", "count"}
  BY <1>1, <1>3 DEF Placed, Maker
<1>4. CASE me.pc \in {"search", "data", "item", "check", "setData", "size", "realloc",
                       "copy", "move"}
  <2>1. /\ me.place = TheManager /\ Vector(t) = D /\ IsVector(me.place)
        /\ VectorAt(me.place) = D /\ D.size \in Nat
        /\ DbsIn(Data(me), Room(me), Hole(me)) /\ Data(me) \in Of(kind, "dbs")
        /\ me.pc # "setData" => Data(me) = D.data /\ Room(me) = D.capacity
        /\ me.op = "create" => Creating(me)
        /\ D.capacity \in Nat
    BY <1>1, <1>4, MakerHas, AtTheManager
  <2>2. CASE me.pc \in {"search", "data", "check", "setData", "size"}
    BY <1>1, <2>1, <2>2 DEF NoTarget
  <2>3. CASE me.pc \in {"item", "realloc", "copy", "move"}
    <3>1. PICK b \in Of(kind, "dbs") : b = D.data
      BY <2>1, <2>3
    <3>2. PICK room \in Int : room = D.capacity
      BY <2>1
    <3>3. DbsIn(b, room, Hole(me))
      BY <2>1, <2>3, <3>1, <3>2
    <3>4. /\ IsArray(b) /\ room <= Len(buffer[b]) /\ Len(buffer[b]) \in Nat
          /\ DOMAIN buffer[b] = 1 .. Len(buffer[b])
          /\ \A k \in 1 .. D.size : IsItem(b, k)
      BY <3>3, DbsInRange DEF IsItem
    <3>5. me.i \in Nat \ {0}
      BY DEF ThreadT
    <3>6. CASE me.pc = "item"
      <4>1. me.i <= D.size /\ me.found = [data |-> b, index |-> me.i]
        BY <1>1, <3>1, <3>6 DEF Making, Seeking
      <4>2. IsItem(b, me.i)
        BY <2>1, <3>4, <3>5, <4>1
      <4> QED BY <1>1, <3>6, <4>1, <4>2 DEF NoTarget
    <3>7. CASE me.pc = "realloc"
      BY <1>1, <2>1, <3>1, <3>4, <3>7 DEF NoTarget
    <3>8. CASE me.pc = "copy"
      <4>1. D.size < D.capacity
        BY <1>1, <2>1, <3>8 DEF Placed, Searching, Appending, Filling, Maker, Creating
      <4>2. D.size + 1 \in 1 .. Len(buffer[b])
        BY <2>1, <3>2, <3>4, <4>1
      <4>3. IsSlot(D)
        BY <3>1, <3>4, <4>2 DEF IsSlot
      <4> QED BY <1>1, <2>1, <3>8, <4>3 DEF NoTarget
    <3>9. CASE me.pc = "move"
      <4>1. me.i < me.num => IsItem(b, me.i + 1)
        BY <1>1, <2>1, <3>4, <3>5, <3>9 DEF Making
      <4> QED BY <1>1, <2>1, <3>1, <3>9, <4>1 DEF NoTarget
    <3> QED BY <2>3, <3>6, <3>7, <3>8, <3>9
  <2> QED BY <1>4, <2>2, <2>3
<1> QED BY <1>2, <1>3, <1>4

LEMMA MakerStepKeeps ==
  ASSUME NEW kind \in Kind, TypedBy(kind), RestTyped', NEW t \in Thread, Step(t),
         Maker(thread[t]), DbsInv, "ids" \notin races', "dbs" \notin races'
  PROVE  DbsInv'
<1>1. thread \in [Thread -> ThreadT] /\ Placed(thread[t], kind)
  BY MakerIs
<1>2. MakerKeeps(t)
  <2>1. CASE Request(t)
    BY <2>1, OneMakerKept DEF DbsInv
  <2>2. CASE Manage(t)
    <3>1. ~ OpenDb(t)
      BY <1>1 DEF OpenDb, At, Placed, Maker
    <3> QED BY <2>2, <3>1, GetDbCtrlManagerKeeps, PublishKeeps, InitVectorKeeps DEF Manage
  <2>3. CASE Search(t)
    <3>1. ~ RowIsFor(t)
      BY DEF RowIsFor, Maker
    <3> QED BY <2>3, <3>1, ReadSizeKeeps, ReadDataKeeps, SearchGoesOnKeeps,
               SearchEndsKeeps, NameIsFreeKeeps, SearchAgainKeeps, DropIsSureKeeps DEF Search
  <2>4. CASE AppendItem(t)
    BY <2>4, LoadGenNumKeeps, StoreGenNumKeeps, CheckCapacityKeeps, ReallocKeeps,
       SetDataKeeps, CopyItemKeeps, AddSizeKeeps DEF AppendItem
  <2>5. CASE Change(t)
    <3>1. ~ ReadRowCnt(t) /\ ~ WriteRowCnt(t)
      BY <1>1 DEF ReadRowCnt, WriteRowCnt, At, Placed, Maker
    <3> QED BY <2>5, <3>1, MoveItemKeeps, SubtractSizeKeeps DEF Change
  <2>6. ~ Strays(t)
    BY MakerNeverStrays DEF Strays
  <2> QED BY <2>1, <2>2, <2>3, <2>4, <2>5, <2>6 DEF Step
<1>3. PICK new : /\ thread' = [thread EXCEPT ![t] = new]
                 /\ Maker(new) => Making(new)'
                 /\ g_srDbCtrlManager' = NULL => acked'.dbs = {}
                 /\ ~ Maker(new) /\ g_srDbCtrlManager' # NULL => DbsIn(D.data, D.capacity, 0)'
  BY <1>2 DEF MakerKeeps
<1>4. thread'[t] = new
  BY <1>1, <1>3
<1>5. Maker(thread'[t]) => Making(thread[t])'
  BY <1>3, <1>4
<1>6. ~ Maker(thread'[t]) /\ g_srDbCtrlManager' # NULL => DbsIn(D.data, D.capacity, 0)'
  BY <1>3, <1>4
<1> QED BY <1>3, <1>5, <1>6, MakerKeepsDbs

\* DbsInv as long as the requests do not meet.
DbsCalm == NoRace({"ids", "dbs"}) => DbsInv

LEMMA DbsInvKept == Typed /\ Typed' /\ DbsCalm /\ [Next]_vars => DbsCalm'
<1> SUFFICES ASSUME Typed, Typed', DbsCalm, [Next]_vars, NoRace({"ids", "dbs"})'
             PROVE  DbsInv'
  BY DEF DbsCalm
<1>1. PICK kind \in Kind : TypedBy(kind)
  BY DEF Typed
<1>2. RestTyped'
  BY DEF Typed, TypedBy
<1>3. "ids" \notin races' /\ "dbs" \notin races'
  BY DEF NoRace
<1>4. ASSUME NEW t \in Thread, Step(t) PROVE DbsInv'
  <2>1. races \subseteq races'
    BY <1>1, <1>4, OthersStay
  <2>2. DbsInv
    BY <1>3, <2>1 DEF DbsCalm, NoRace
  <2> QED BY <1>1, <1>2, <1>3, <1>4, <2>2, OthersKeepDbs, MakerStepKeeps
<1>5. CASE UNCHANGED vars
  <2>1. races' = races
    BY <1>5 DEF vars
  <2>2. DbsInv
    BY <1>3, <2>1 DEF DbsCalm, NoRace
  <2>3. UNCHANGED <<g_srDbCtrlManager, dbCtrlList, g_dbGenNum, buffer, thread, acked>>
    BY <1>5 DEF vars
  <2>4. Numbered' /\ OneMaker'
    BY <2>2, <2>3 DEF DbsInv, Numbered, OneMaker
  <2>5. DbsLeft(kind)
    BY <1>1, <2>3, ArrayAt, SimpleRelThreadsAssumption
       DEF DbsLeft, SameDbs, IsArray, TypedBy, RestTyped
  <2>6. DbsIn(D.data, D.capacity, 0) => DbsIn(D.data, D.capacity, 0)'
    <3>1. PICK b : b = D.data
      OBVIOUS
    <3>2. PICK room : room = D.capacity
      OBVIOUS
    <3>3. D' = D /\ acked'.dbs = acked.dbs
      BY <2>3 DEF D
    <3>4. DbsIn(b, room, 0) => DbsIn(b, room, 0)'
      BY <2>3, <3>3, DbsSame
    <3> QED BY <3>1, <3>2, <3>3, <3>4
  <2>7. Settled'
    BY <2>2, <2>3, <2>6 DEF DbsInv, Settled
  <2>8. ASSUME NEW u \in Thread, Maker(thread'[u]) PROVE Making(thread[u])'
    <3>1. PICK me \in ThreadT : me = thread[u]
      BY <1>1 DEF TypedBy, ThreadsTyped
    <3>2. Placed(me, kind) /\ Maker(me) /\ Making(me) /\ me = thread'[u]
      BY <1>1, <2>2, <2>3, <2>8, <3>1 DEF TypedBy, ThreadsTyped, DbsInv
    <3>3. Making(me)'
      BY <1>1, <1>2, <2>5, <3>2, MakingLeft
    <3> QED BY <3>2, <3>3
  <2> QED BY <2>4, <2>7, <2>8 DEF DbsInv
<1> QED BY <1>4, <1>5 DEF Next, Step

\* While no two requests make or drop databases at once, and no two take an id at
\* once, the one that makes or drops a database knows what it needs to: how far
\* its search has come, the id that is its own, the one superfluous item of its
\* memmove (DMSrCreateDb, DMSrDropDb, DbVectorAppendItem, DbVectorRemoveItem).
THEOREM SrDbsInvariant == Spec => []DbsCalm
<1>1. Init => DbsCalm
  BY DbsInit DEF DbsCalm
<1>2. Typed /\ Typed' /\ DbsCalm /\ [Next]_vars => DbsCalm'
  BY DbsInvKept
<1> QED BY <1>1, <1>2, SrThreadsTyped, PTL DEF Spec

\* Databases whose creation was answered are found under their name and id, and
\* nothing else is, whatever other threads do to tables and rows meanwhile, as
\* long as no two requests make or drop databases, or take ids, at once
\* (DMSrCreateDb, DMSrDropDb, GenSrDbId).
THEOREM SrDbsKept == Spec => []DbsKept
<1>1. Typed /\ DbsCalm => DbsKept
  <2> SUFFICES ASSUME Typed, DbsCalm, NoRace({"ids", "dbs"}), ~ Changing PROVE DbsKept
    BY DEF DbsKept
  <2>1. DbsInv
    BY DEF DbsCalm
  <2> QED BY <2>1, DbsKeptHere
<1> QED BY <1>1, SrThreadsTyped, SrDbsInvariant, PTL

-----------------------------------------------------------------------------
(* The tables, as long as besides none is made while its database is       *)
(* dropped or gets another one, no vector grows under a request, and none  *)
(* is written while a search is between reading its size and its data.     *)

\* Where the databases are, and their vectors, for a request in the middle of a
\* realloc, and for any other.
Array(me) == IF me.op = "create" /\ me.pc = "setData" THEN me.num ELSE D.data

ListOf(me, k) ==
  IF me.op = "table" /\ me.pc = "setData" /\ me.place.index = k
    THEN [buffer[D.data][k].list EXCEPT !.data = me.num, !.capacity = 2 * @]
    ELSE buffer[Array(me)][k].list

Lists(me) == [k \in 1 .. D.size |-> ListOf(me, k)]

\* A vector all of whose items are there.
Whole(v) ==
  /\ IsArray(v.data) /\ v.size \in Nat /\ v.size <= v.capacity /\ 1 <= v.capacity
  /\ v.capacity <= Len(buffer[v.data])
  /\ \A j \in 1 .. v.size : buffer[v.data][j] # Garbage

\* The databases of the array b have these lists, each its own, with its tables.
TablesIn(b, hole, list) ==
  /\ \A k \in 1 .. D.size : Whole(list[k])
  /\ \A k, n \in (1 .. D.size) \ {hole} : list[k].data = list[n].data => k = n
  /\ \A k \in (1 .. D.size) \ {hole} : \A j \in 1 .. list[k].size :
       /\ buffer[list[k].data][j].dbId = buffer[b][k].id
       /\ \A n \in 1 .. list[k].size :
            buffer[list[k].data][j].name = buffer[list[k].data][n].name => j = n
  /\ \A table \in acked.tables : \E k \in (1 .. D.size) \ {hole} :
       /\ buffer[b][k].id = table.dbId
       /\ \E j \in 1 .. list[k].size : buffer[list[k].data][j].id = table.id

TablesAs(me) == TablesIn(Array(me), Hole(me), Lists(me))

Special(me) == me.pc \in {"setData", "move"}

Vectors == g_srDbCtrlManager # NULL /\ \A t \in Thread : thread[t].pc # "initVector"

\* The request in the middle of a realloc or a memmove, and an idle one if none is.
Standing ==
  IF \E t \in Thread : Special(thread[t])
    THEN {thread[t] : t \in {u \in Thread : Special(thread[u])}}
    ELSE {Idle}

Tables ==
  /\ ~ Vectors => acked.tables = {}
  /\ Vectors => \A me \in Standing : TablesAs(me)

\* What the request that creates a database knows of its new vector.
NewDb(me) ==
  me.pc \in {"store"} \cup Filling =>
    /\ Whole(me.item.list) /\ me.item.list.size = 0
    /\ \A k \in 1 .. D.size : ListOf(me, k).data # me.item.list.data
    /\ me.pc = "size" => buffer[D.data][D.size + 1] = me.item

\* What a request for a table knows of its database.
TableAt(me) ==
  me.pc \in Appending \/ (me.pc \in Searching /\ me.pass = 2) =>
    LET k == me.place.index
        v == ListOf(me, k)
    IN  /\ Vectors /\ me.place.data = D.data /\ k \in 1 .. D.size
        /\ buffer[D.data][k].id = me.dbId
        /\ \A j \in 1 .. v.size :
             (me.pc \in Searching => j < me.i) => buffer[v.data][j].name # me.name
        /\ Seeking(me, v)
        /\ me.pc \in {"store"} \cup Filling =>
             me.item.name = me.name /\ me.item.dbId = me.dbId
        /\ me.pc \in {"realloc", "setData"} =>
             v.size = buffer[D.data][k].list.capacity
        /\ me.pc \in {"copy", "size"} => v.size < v.capacity
        /\ me.pc = "size" =>
             /\ buffer[v.data][v.size + 1] # Garbage
             /\ buffer[v.data][v.size + 1].name = me.item.name
             /\ buffer[v.data][v.size + 1].id = me.item.id
             /\ buffer[v.data][v.size + 1].dbId = me.item.dbId

\* There is a database, and its vector is whole.
WholeAt(place) ==
  IsItem(place.data, place.index) /\ Whole(buffer[place.data][place.index].list)

\* What a request for a row knows: its pointers may be to what has been moved, or
\* dropped, but they are to an item.
RowAt(me) ==
  /\ me.pc \in Searching /\ me.pass = 2 =>
       /\ WholeAt(me.place)
       /\ me.pc = "data" => me.i <= buffer[me.place.data][me.place.index].list.size
       /\ me.pc = "item" => IsItem(me.found.data, me.found.index)
  /\ me.pc = "data" /\ me.pass = 1 => WholeAt([data |-> D.data, index |-> me.i])
  /\ me.pc = "item" /\ me.pass = 1 => WholeAt(me.found)
  /\ me.pc \in {"row", "count"} => IsItem(me.place.data, me.place.index)

Knows(me) ==
  /\ me.op \in {"table", "insert"} =>
       /\ me.pass \in {1, 2}
       /\ me.pc \in Searching /\ me.pass = 1 =>
            /\ g_srDbCtrlManager # NULL /\ me.place = TheManager
            /\ me.op = "table" => Seeking(me, D)
  /\ me.op = "create" => NewDb(me)
  /\ me.op = "table" => TableAt(me)
  /\ me.op = "insert" => RowAt(me)

\* No request is under way while a vector is in the middle of a realloc.
Alone ==
  \A t, u \in Thread : thread[t].pc = "setData" /\ thread[u].op # "none" => u = t

Apart ==
  \A t, u \in Thread : thread[t].op = "table" =>
    /\ thread[u].op # "drop"
    /\ thread[u].op = "table" /\ thread[u].dbId = thread[t].dbId => u = t

TablesInv == Alone /\ Apart /\ Sane /\ Tables /\ \A t \in Thread : Knows(thread[t])


\* Requests that can be in the middle of something.
LEMMA StandingIs ==
  ASSUME NEW kind \in Kind, TypedBy(kind), DbsInv, Alone
  PROVE  /\ \A t \in Thread : Special(thread[t]) => Standing = {thread[t]}
         /\ (\A t \in Thread : ~ Special(thread[t])) => Standing = {Idle}
<1>1. ASSUME NEW t \in Thread, NEW u \in Thread, Special(thread[t]), Special(thread[u])
      PROVE  u = t
  <2>1. /\ thread[t].op # "none" /\ thread[u].op # "none"
        /\ thread[t].pc = "move" => Maker(thread[t])
        /\ thread[u].pc = "move" => Maker(thread[u])
    BY <1>1 DEF TypedBy, ThreadsTyped, Begun, Placed, Special, Maker
  <2> QED BY <1>1, <2>1 DEF Special, Alone, DbsInv, OneMaker
<1> QED BY <1>1 DEF Standing

\* Where the databases are.
LEMMA DbsAs ==
  ASSUME NEW kind \in Kind, TypedBy(kind), DbsInv, Alone, Vectors, NEW me \in Standing
  PROVE  /\ Array(me) \in Of(kind, "dbs")
         /\ \E room \in Int : DbsIn(Array(me), room, Hole(me))
<1>1. CASE \A t \in Thread : ~ Special(thread[t])
  <2>1. Array(me) = D.data /\ Hole(me) = 0
    BY <1>1, StandingIs DEF Idle, Array, Hole
  <2>2. DbsIn(D.data, D.capacity, 0)
    <3>1. CASE \A t \in Thread : ~ Maker(thread[t])
      BY <3>1 DEF DbsInv, Settled, Vectors
    <3>2. ASSUME NEW t \in Thread, Maker(thread[t]) PROVE DbsIn(D.data, D.capacity, 0)
      <4>1. Making(thread[t]) /\ thread[t].pc # "initVector" /\ g_srDbCtrlManager # NULL
        BY <3>2 DEF DbsInv, Vectors
      <4>2. /\ Data(thread[t]) = D.data /\ Room(thread[t]) = D.capacity
            /\ Hole(thread[t]) = 0
        BY <1>1 DEF Data, Room, Hole, Special
      <4> QED BY <4>1, <4>2 DEF Making
    <3> QED BY <3>1, <3>2
  <2>3. D.data \in Of(kind, "dbs") /\ D.capacity \in Int
    BY <2>2, DTyped DEF DbsIn, Vectors
  <2> QED BY <2>1, <2>2, <2>3
<1>2. ASSUME NEW t \in Thread, Special(thread[t])
      PROVE  /\ Array(me) \in Of(kind, "dbs")
             /\ \E room \in Int : DbsIn(Array(me), room, Hole(me))
  <2>1. me = thread[t] /\ me \in ThreadT /\ Placed(me, kind)
    BY <1>2, StandingIs DEF TypedBy, ThreadsTyped
  <2>2. CASE Maker(me)
    <3>1. Making(me) /\ g_srDbCtrlManager # NULL /\ me.pc # "initVector"
      BY <1>2, <2>1, <2>2 DEF DbsInv, Vectors, Special
    <3>2. Data(me) \in Of(kind, "dbs") /\ Room(me) \in Int /\ DbsIn(Data(me), Room(me), Hole(me))
      BY <2>1, <2>2, <3>1, DataTyped DEF Making
    <3>3. Array(me) = Data(me)
      BY <1>2, <2>1, <2>2 DEF Array, Data, Special, Placed, Maker, Searching, Appending, Filling
    <3> QED BY <3>2, <3>3
  <2>3. CASE ~ Maker(me)
    <3>1. me.pc = "setData" /\ me.op = "table"
      BY <1>2, <2>1, <2>3 DEF Special, Placed, Maker, Searching, Appending, Filling
    <3>2. \A u \in Thread : ~ Maker(thread[u])
      BY <2>1, <2>3, <3>1 DEF Alone, Maker
    <3>3. DbsIn(D.data, D.capacity, 0)
      BY <3>2 DEF DbsInv, Settled, Vectors
    <3>4. D.data \in Of(kind, "dbs") /\ D.capacity \in Int
      BY <3>3, DTyped DEF DbsIn, Vectors
    <3>5. Array(me) = D.data /\ Hole(me) = 0
      BY <3>1 DEF Array, Hole
    <3> QED BY <3>3, <3>4, <3>5
  <2> QED BY <2>2, <2>3
<1> QED BY <1>1, <1>2

\* The vectors of the databases.
LEMMA ListsTyped ==
  ASSUME NEW kind \in Kind, TypedBy(kind), DbsInv, Alone, Vectors, NEW me \in Standing,
         NEW k \in 1 .. D.size
  PROVE  /\ IsItem(Array(me), k) /\ buffer[Array(me)][k] \in DbT(kind)
         /\ Lists(me)[k] = ListOf(me, k)
         /\ ListOf(me, k) \in [data : Of(kind, "tables"), size : Int, capacity : Nat]
         /\ D.size \in Nat
<1>1. PICK b \in Of(kind, "dbs") : b = Array(me)
  BY DbsAs
<1>2. PICK room \in Int : DbsIn(b, room, Hole(me))
  BY <1>1, DbsAs
<1>3. /\ IsArray(b) /\ DOMAIN buffer[b] = 1 .. Len(buffer[b]) /\ D.size \in Nat
      /\ k \in 1 .. Len(buffer[b]) /\ buffer[b][k] # Garbage /\ buffer[b][k] \in DbT(kind)
  BY <1>2, DbsInRange
<1>4. buffer[b][k].list \in [data : Of(kind, "tables"), size : Int, capacity : Nat]
  BY <1>3 DEF DbT
<1>5. ListOf(me, k) \in [data : Of(kind, "tables"), size : Int, capacity : Nat]
  <2>1. CASE me.op = "table" /\ me.pc = "setData" /\ me.place.index = k
    <3>1. Array(me) = D.data
      BY <2>1 DEF Array
    <3>2. me.num \in Of(kind, "tables")
      <4>1. \E t \in Thread : me = thread[t]
        BY <2>1 DEF Standing, Idle
      <4> QED BY <2>1, <4>1 DEF TypedBy, ThreadsTyped, Placed
    <3>3. PICK list \in [data : Of(kind, "tables"), size : Int, capacity : Nat] :
            list = buffer[b][k].list
      BY <1>4
    <3>4. PICK num \in Of(kind, "tables") : num = me.num
      BY <3>2
    <3>5. PICK capacity \in Nat : capacity = 2 * list.capacity
      OBVIOUS
    <3>6. ListOf(me, k) = [list EXCEPT !.data = num, !.capacity = capacity]
      BY <1>1, <2>1, <3>1, <3>3, <3>4, <3>5 DEF ListOf
    <3> QED BY <3>6
  <2>2. CASE ~ (me.op = "table" /\ me.pc = "setData" /\ me.place.index = k)
    BY <1>1, <1>4, <2>2 DEF ListOf
  <2> QED BY <2>1, <2>2
<1> QED BY <1>1, <1>3, <1>5 DEF IsItem, Lists

-----------------------------------------------------------------------------
(* What most steps leave of the tables.                                    *)

\* The array b holds the same tables before and after.
SameTables(b) ==
  /\ IsArray(b)' /\ Len(buffer'[b]) = Len(buffer[b]) /\ DOMAIN buffer'[b] = DOMAIN buffer[b]
  /\ \A i \in 1 .. Len(buffer[b]) : buffer[b][i] # Garbage =>
       /\ buffer'[b][i] # Garbage
       /\ buffer'[b][i].name = buffer[b][i].name /\ buffer'[b][i].id = buffer[b][i].id
       /\ buffer'[b][i].dbId = buffer[b][i].dbId

TablesLeft(kind) ==
  /\ UNCHANGED <<g_srDbCtrlManager, dbCtrlList>> /\ acked'.tables = acked.tables
  /\ \A b \in Of(kind, "dbs") : buffer'[b] = buffer[b]
  /\ \A b \in Of(kind, "tables") : IsArray(b) => SameTables(b)

\* The databases have other arrays, and their vectors too, but what is in them is
\* the same.
LEMMA TablesMoved ==
  ASSUME NEW b, NEW c, NEW hole, NEW list, NEW list2, TablesIn(b, hole, list),
         D'.size = D.size, acked'.tables = acked.tables,
         \A k, n \in (1 .. D.size) \ {hole} : list2[k].data = list2[n].data => k = n,
         \A k \in 1 .. D.size :
           /\ Whole(list2[k])' /\ list2[k].size = list[k].size
           /\ buffer'[c][k].id = buffer[b][k].id
           /\ \A j \in 1 .. list[k].size :
                /\ buffer'[list2[k].data][j].name = buffer[list[k].data][j].name
                /\ buffer'[list2[k].data][j].id = buffer[list[k].data][j].id
                /\ buffer'[list2[k].data][j].dbId = buffer[list[k].data][j].dbId
  PROVE  TablesIn(c, hole, list2)'
<1> HIDE DEF D
<1>1. \A k \in 1 .. D'.size : Whole(list2[k])'
  OBVIOUS
<1>2. \A k, n \in (1 .. D'.size) \ {hole} : list2[k].data = list2[n].data => k = n
  OBVIOUS
<1>3. ASSUME NEW k \in (1 .. D'.size) \ {hole}, NEW j \in 1 .. list2[k].size
      PROVE  /\ buffer'[list2[k].data][j].dbId = buffer'[c][k].id
             /\ \A n \in 1 .. list2[k].size :
                  buffer'[list2[k].data][j].name = buffer'[list2[k].data][n].name => j = n
  <2>1. k \in (1 .. D.size) \ {hole} /\ j \in 1 .. list[k].size
        /\ list2[k].size = list[k].size
    BY <1>3
  <2>2. /\ buffer[list[k].data][j].dbId = buffer[b][k].id
        /\ \A n \in 1 .. list[k].size :
             buffer[list[k].data][j].name = buffer[list[k].data][n].name => j = n
    BY <2>1 DEF TablesIn
  <2> QED BY <2>1, <2>2
<1>4. ASSUME NEW table \in acked'.tables
      PROVE  \E k \in (1 .. D'.size) \ {hole} :
               /\ buffer'[c][k].id = table.dbId
               /\ \E j \in 1 .. list2[k].size : buffer'[list2[k].data][j].id = table.id
  <2>1. PICK k \in (1 .. D.size) \ {hole} :
          /\ buffer[b][k].id = table.dbId
          /\ \E j \in 1 .. list[k].size : buffer[list[k].data][j].id = table.id
    BY <1>4 DEF TablesIn
  <2>2. PICK j \in 1 .. list[k].size : buffer[list[k].data][j].id = table.id
    BY <2>1
  <2>3. /\ list2[k].size = list[k].size /\ buffer'[c][k].id = buffer[b][k].id
        /\ buffer'[list2[k].data][j].id = buffer[list[k].data][j].id
    OBVIOUS
  <2> QED BY <2>1, <2>2, <2>3
<1> QED BY <1>1, <1>2, <1>3, <1>4 DEF TablesIn

LEMMA WholeLeft ==
  ASSUME NEW kind \in Kind, TypedBy(kind), NEW v,
         v \in [data : Of(kind, "tables"), size : Int, capacity : Nat],
         Whole(v), SameTables(v.data)
  PROVE  /\ Whole(v)'
         /\ \A j \in 1 .. v.size :
              /\ buffer'[v.data][j].name = buffer[v.data][j].name
              /\ buffer'[v.data][j].id = buffer[v.data][j].id
              /\ buffer'[v.data][j].dbId = buffer[v.data][j].dbId
<1>1. PICK b \in Of(kind, "tables") : b = v.data
  OBVIOUS
<1>2. IsArray(b) /\ Len(buffer[b]) \in Nat
  BY <1>1, ArrayAt DEF Whole
<1>3. \A j \in 1 .. v.size : j \in 1 .. Len(buffer[b]) /\ buffer[b][j] # Garbage
  <2>1. v.capacity <= Len(buffer[b]) /\ v.size <= v.capacity /\ v.size \in Nat
        /\ v.capacity \in Nat
        /\ \A j \in 1 .. v.size : buffer[b][j] # Garbage
    BY <1>1 DEF Whole
  <2>2. ASSUME NEW j \in 1 .. v.size PROVE j \in 1 .. Len(buffer[b])
    BY <1>2, <2>1, <2>2
  <2> QED BY <2>1, <2>2
<1> QED BY <1>1, <1>3 DEF Whole, SameTables

LEMMA TablesAsLeft ==
  ASSUME NEW kind \in Kind, TypedBy(kind), DbsInv, Alone, Vectors, TablesLeft(kind),
         NEW me \in Standing, TablesAs(me)
  PROVE  TablesAs(me)'
<1>1. D' = D
  BY DEF D, TablesLeft
<1>2. PICK b \in Of(kind, "dbs") : b = Array(me)
  BY DbsAs
<1>3. PICK hole : hole = Hole(me)
  OBVIOUS
<1>4. PICK list : list = Lists(me)
  OBVIOUS
<1>5. Array(me)' = b /\ Hole(me)' = hole
  BY <1>1, <1>2, <1>3 DEF Array, Hole
<1>6. buffer'[b] = buffer[b]
  BY DEF TablesLeft
<1>7. \A k \in 1 .. D.size : ListOf(me, k)' = ListOf(me, k)
  <2>1. me.op = "table" => Array(me) = D.data
    BY DEF Array
  <2> QED BY <1>1, <1>2, <1>5, <1>6, <2>1 DEF ListOf
<1>8. Lists(me)' = list
  BY <1>1, <1>4, <1>7 DEF Lists
<1>9. TablesIn(b, hole, list)
  BY <1>2, <1>3, <1>4 DEF TablesAs
<1>10. ASSUME NEW k \in 1 .. D.size
       PROVE  /\ Whole(list[k])'
              /\ \A j \in 1 .. list[k].size :
                   /\ buffer'[list[k].data][j].name = buffer[list[k].data][j].name
                   /\ buffer'[list[k].data][j].id = buffer[list[k].data][j].id
                   /\ buffer'[list[k].data][j].dbId = buffer[list[k].data][j].dbId
  <2>1. PICK v \in [data : Of(kind, "tables"), size : Int, capacity : Nat] : v = list[k]
    BY <1>4, ListsTyped
  <2>2. Whole(v)
    BY <1>9, <2>1 DEF TablesIn
  <2>3. SameTables(v.data)
    BY <2>1, <2>2 DEF TablesLeft, Whole
  <2>4. /\ Whole(v)'
        /\ \A j \in 1 .. v.size :
             /\ buffer'[v.data][j].name = buffer[v.data][j].name
             /\ buffer'[v.data][j].id = buffer[v.data][j].id
             /\ buffer'[v.data][j].dbId = buffer[v.data][j].dbId
    BY <2>2, <2>3, WholeLeft
  <2> QED BY <2>1, <2>4
<1>11. TablesIn(b, hole, list)'
  <2>1. \A k, n \in (1 .. D.size) \ {hole} : list[k].data = list[n].data => k = n
    BY <1>9 DEF TablesIn
  <2>2. D'.size = D.size /\ acked'.tables = acked.tables
    BY <1>1 DEF TablesLeft
  <2> QED BY <1>6, <1>9, <1>10, <2>1, <2>2, TablesMoved
<1> QED BY <1>5, <1>8, <1>11 DEF TablesAs

\* The vector that a request for a table works on.
LEMMA TableList ==
  ASSUME NEW kind \in Kind, TypedBy(kind), DbsInv, TablesInv, NEW t \in Thread,
         thread[t].op = "table",
         thread[t].pc \in Appending \/ (thread[t].pc \in Searching /\ thread[t].pass = 2)
  PROVE  \E me \in Standing :
           /\ me = IF thread[t].pc = "setData" THEN thread[t] ELSE Idle
           /\ Vectors /\ TablesAs(me) /\ thread[t].place.index \in 1 .. D.size
           /\ Array(me) = D.data /\ Hole(me) = 0 /\ D.data \in Of(kind, "dbs")
           /\ thread[t].place.data = D.data
           /\ Lists(me)[thread[t].place.index] = ListOf(thread[t], thread[t].place.index)
           /\ Whole(ListOf(thread[t], thread[t].place.index))
           /\ ListOf(thread[t], thread[t].place.index)
                \in [data : Of(kind, "tables"), size : Int, capacity : Nat]
           /\ thread[t].pc # "setData" =>
                ListOf(thread[t], thread[t].place.index)
                  = buffer[D.data][thread[t].place.index].list
<1>1. PICK me : me = IF thread[t].pc = "setData" THEN thread[t] ELSE Idle
  OBVIOUS
<1>2. TableAt(thread[t])
  BY DEF TablesInv, Knows
<1>3. PICK k : k = thread[t].place.index
  OBVIOUS
<1>4. Vectors /\ k \in 1 .. D.size /\ thread[t].place.data = D.data
  BY <1>2, <1>3 DEF TableAt
<1>5. me \in Standing
  <2>1. CASE thread[t].pc = "setData"
    BY <1>1, <2>1, StandingIs DEF Special, TablesInv
  <2>2. CASE thread[t].pc # "setData"
    <3>1. \A u \in Thread : ~ Special(thread[u])
      <4> SUFFICES ASSUME NEW u \in Thread, Special(thread[u]) PROVE FALSE
        OBVIOUS
      <4>1. CASE thread[u].pc = "move"
        <5>1. thread[u].op = "drop"
          BY <4>1 DEF TypedBy, ThreadsTyped, Placed
        <5> QED BY <5>1 DEF TablesInv, Apart
      <4>2. CASE thread[u].pc = "setData"
        BY <2>2, <4>2 DEF TablesInv, Alone
      <4> QED BY <4>1, <4>2 DEF Special
    <3> QED BY <1>1, <2>2, <3>1, StandingIs DEF TablesInv
  <2> QED BY <2>1, <2>2
<1>6. TablesAs(me) /\ Array(me) = D.data /\ Hole(me) = 0
  BY <1>1, <1>4, <1>5 DEF TablesInv, Tables, Array, Hole, Idle
<1>7. D.data \in Of(kind, "dbs")
  BY <1>4, <1>5, <1>6, DbsAs DEF TablesInv
<1>8. ListOf(me, k) = ListOf(thread[t], k)
  BY <1>1 DEF ListOf, Array, Idle
<1>9. /\ ListOf(me, k) \in [data : Of(kind, "tables"), size : Int, capacity : Nat]
      /\ Lists(me)[k] = ListOf(me, k)
  BY <1>4, <1>5, ListsTyped DEF TablesInv
<1>10. Whole(ListOf(me, k))
  BY <1>4, <1>6, <1>9 DEF TablesAs, TablesIn
<1>11. thread[t].pc # "setData" => ListOf(thread[t], k) = buffer[D.data][k].list
  BY DEF ListOf, Array
<1> QED BY <1>1, <1>3, <1>4, <1>5, <1>6, <1>7, <1>8, <1>9, <1>10, <1>11

\* A vector that an item of the databases' array has.
LEMMA ItemList ==
  ASSUME NEW kind \in Kind, TypedBy(kind), NEW place, InItem(place, kind, "dbs"),
         IsItem(place.data, place.index)
  PROVE  buffer[place.data][place.index].list
           \in [data : Of(kind, "tables"), size : Int, capacity : Nat]
<1>1. PICK k \in {"dbs", "tables"} : k = "dbs"
  OBVIOUS
<1>2. place.data \in Of(kind, k)
  BY <1>1 DEF InItem
<1> QED BY <1>1, <1>2, ItemAt

\* A database that a request has found stays, with its vector.
LEMMA WholeAtIs ==
  ASSUME NEW kind \in Kind, TypedBy(kind),
         NEW place \in [data : {NULL} \cup Of(kind, "dbs"), index : Nat \ {0}], WholeAt(place)
  PROVE  /\ InItem(place, kind, "dbs") /\ IsItem(place.data, place.index)
         /\ Whole(buffer[place.data][place.index].list)
         /\ buffer[place.data][place.index].list
              \in [data : Of(kind, "tables"), size : Int, capacity : Nat]
<1>1. IsItem(place.data, place.index) /\ Whole(buffer[place.data][place.index].list)
  BY DEF WholeAt
<1>2. place.data # NULL
  BY <1>1, SimpleRelThreadsAssumption DEF IsItem, IsArray
<1>3. InItem(place, kind, "dbs")
  BY <1>2 DEF InItem
<1> QED BY <1>1, <1>3, ItemList

LEMMA WholeAtLeft ==
  ASSUME NEW kind \in Kind, TypedBy(kind), TablesLeft(kind),
         NEW place \in [data : {NULL} \cup Of(kind, "dbs"), index : Nat \ {0}], WholeAt(place)
  PROVE  WholeAt(place)' /\ buffer'[place.data] = buffer[place.data]
<1>1. PICK v \in [data : Of(kind, "tables"), size : Int, capacity : Nat] :
        /\ v = buffer[place.data][place.index].list /\ Whole(v)
        /\ InItem(place, kind, "dbs") /\ IsItem(place.data, place.index)
  BY WholeAtIs
<1>2. buffer'[place.data] = buffer[place.data]
  BY <1>1 DEF InItem, TablesLeft
<1>3. Whole(v)'
  <2>1. SameTables(v.data)
    BY <1>1 DEF Whole, TablesLeft
  <2> QED BY <1>1, <2>1, WholeLeft
<1>4. IsItem(place.data, place.index)'
  BY <1>1, <1>2 DEF IsItem, IsArray
<1> QED BY <1>1, <1>2, <1>3, <1>4 DEF WholeAt

LEMMA TableItemLeft ==
  ASSUME NEW kind \in Kind, TypedBy(kind), TablesLeft(kind),
         NEW place \in [data : {NULL} \cup Of(kind, "tables"), index : Nat],
         IsItem(place.data, place.index)
  PROVE  IsItem(place.data, place.index)'
<1>1. place.data \in Of(kind, "tables") /\ IsArray(place.data)
  BY SimpleRelThreadsAssumption DEF IsItem, IsArray
<1>2. SameTables(place.data)
  BY <1>1 DEF TablesLeft
<1>3. DOMAIN buffer[place.data] = 1 .. Len(buffer[place.data])
  BY <1>1, ArrayAt
<1> QED BY <1>2, <1>3 DEF IsItem, SameTables

LEMMA KnowsLeft ==
  ASSUME NEW kind \in Kind, TypedBy(kind), DbsInv, TablesInv, TablesLeft(kind),
         Vectors => Vectors', NEW t \in Thread, NEW me \in ThreadT, me = thread[t]
  PROVE  Knows(me)'
<1>1. D' = D /\ TheManager' = TheManager /\ UNCHANGED g_srDbCtrlManager
  BY DEF D, TheManager, TablesLeft
<1>2. Knows(me) /\ Placed(me, kind)
  BY DEF TablesInv, TypedBy, ThreadsTyped
<1>3. Array(me)' = Array(me)
  BY <1>1 DEF Array
<1>4. ASSUME me.op = "create" PROVE NewDb(me)'
  <2> SUFFICES ASSUME me.pc \in {"store"} \cup Filling PROVE NewDb(me)'
    BY DEF NewDb
  <2>1. Making(me) /\ Maker(me)
    BY <1>4 DEF DbsInv, Maker
  <2>2. g_srDbCtrlManager # NULL /\ me.pc # "initVector"
    BY <2>1 DEF Making, Filling
  <2>3. Data(me) \in Of(kind, "dbs")
    BY <1>2, <2>1, <2>2, DataTyped
  <2>4. Data(me) = Array(me)
    BY <1>4 DEF Data, Array
  <2>5. buffer'[Array(me)] = buffer[Array(me)]
    BY <2>3, <2>4 DEF TablesLeft
  <2>6. \A k : ListOf(me, k)' = ListOf(me, k)
    BY <1>3, <1>4, <2>5 DEF ListOf
  <2>7. PICK v \in [data : Of(kind, "tables"), size : Int, capacity : Nat] : v = me.item.list
    BY <1>2, <1>4 DEF Placed, ItemT, DbT
  <2>8. NewDb(me)
    BY <1>2, <1>4 DEF Knows
  <2>9. Whole(v) /\ SameTables(v.data)
    BY <2>7, <2>8 DEF NewDb, Whole, TablesLeft
  <2>10. Whole(v)'
    BY <2>9, WholeLeft
  <2>11. me.pc = "size" => Array(me) = D.data
    BY DEF Array
  <2> QED BY <1>1, <2>5, <2>6, <2>7, <2>8, <2>10, <2>11 DEF NewDb
<1>5. ASSUME me.op = "table" PROVE TableAt(me)'
  <2> SUFFICES ASSUME me.pc \in Appending \/ (me.pc \in Searching /\ me.pass = 2)
               PROVE  TableAt(me)'
    BY DEF TableAt
  <2>1. TableAt(me)
    BY <1>2, <1>5 DEF Knows
  <2>2. PICK k : k = me.place.index
    OBVIOUS
  <2>3. /\ Vectors /\ k \in 1 .. D.size /\ D.data \in Of(kind, "dbs")
        /\ Whole(ListOf(me, k))
        /\ ListOf(me, k) \in [data : Of(kind, "tables"), size : Int, capacity : Nat]
    BY <1>5, <2>2, TableList
  <2>4. PICK v \in [data : Of(kind, "tables"), size : Int, capacity : Nat] : v = ListOf(me, k)
    BY <2>3
  <2>5. buffer'[D.data] = buffer[D.data] /\ SameTables(v.data) /\ IsArray(v.data)
    BY <2>3, <2>4 DEF TablesLeft, Whole
  <2>6. ListOf(me, k)' = v
    BY <1>1, <1>5, <2>4, <2>5 DEF ListOf, Array
  <2>7. \A j \in 1 .. v.size : buffer'[v.data][j].name = buffer[v.data][j].name
    BY <2>3, <2>4, <2>5, WholeLeft
  <2>8. me.pc = "size" => /\ v.size + 1 \in 1 .. Len(buffer[v.data])
                          /\ buffer[v.data][v.size + 1] # Garbage
    <3> SUFFICES ASSUME me.pc = "size"
                 PROVE  v.size + 1 \in 1 .. Len(buffer[v.data])
      BY <2>1, <2>2, <2>4 DEF TableAt
    <3>1. v.size < v.capacity
      BY <2>1, <2>2, <2>4 DEF TableAt
    <3>2. v.capacity <= Len(buffer[v.data]) /\ v.size \in Nat
      BY <2>3, <2>4 DEF Whole
    <3>3. Len(buffer[v.data]) \in Nat
      BY <2>5, ArrayAt
    <3> QED BY <3>1, <3>2, <3>3
  <2>9. me.pc = "size" =>
          /\ buffer'[v.data][v.size + 1] # Garbage
          /\ buffer'[v.data][v.size + 1].name = buffer[v.data][v.size + 1].name
          /\ buffer'[v.data][v.size + 1].id = buffer[v.data][v.size + 1].id
          /\ buffer'[v.data][v.size + 1].dbId = buffer[v.data][v.size + 1].dbId
    BY <2>5, <2>8 DEF SameTables
  <2>10. /\ Vectors' /\ me.place.data = D'.data /\ k \in 1 .. D'.size
         /\ buffer'[D'.data][k].id = me.dbId
         /\ \A j \in 1 .. v.size :
              (me.pc \in Searching => j < me.i) => buffer'[v.data][j].name # me.name
    <3>1. \A j \in 1 .. v.size :
            (me.pc \in Searching => j < me.i) => buffer[v.data][j].name # me.name
      BY <2>1, <2>2, <2>4 DEF TableAt
    <3>2. me.place.data = D.data /\ buffer[D.data][k].id = me.dbId
      BY <2>1, <2>2 DEF TableAt
    <3> HIDE DEF D
    <3> QED BY <1>1, <2>3, <2>5, <2>7, <3>1, <3>2
  <2>11. /\ me.pc \in {"store"} \cup Filling =>
              me.item.name = me.name /\ me.item.dbId = me.dbId
         /\ me.pc \in {"realloc", "setData"} =>
              v.size = buffer'[D'.data][k].list.capacity
         /\ me.pc \in {"copy", "size"} => v.size < v.capacity
         /\ Seeking(me, v)
    BY <1>1, <2>1, <2>2, <2>4, <2>5 DEF TableAt
  <2>12. me.pc = "size" =>
           /\ buffer'[v.data][v.size + 1] # Garbage
           /\ buffer'[v.data][v.size + 1].name = me.item.name
           /\ buffer'[v.data][v.size + 1].id = me.item.id
           /\ buffer'[v.data][v.size + 1].dbId = me.item.dbId
    <3> SUFFICES ASSUME me.pc = "size"
                 PROVE  /\ buffer[v.data][v.size + 1].name = me.item.name
                        /\ buffer[v.data][v.size + 1].id = me.item.id
                        /\ buffer[v.data][v.size + 1].dbId = me.item.dbId
      BY <2>9
    <3> QED BY <2>1, <2>2, <2>4 DEF TableAt
  <2> HIDE DEF D
  <2> QED BY <2>2, <2>6, <2>10, <2>11, <2>12 DEF TableAt
<1>6. ASSUME me.op = "insert" PROVE RowAt(me)'
  <2>1. RowAt(me)
    BY <1>2, <1>6 DEF Knows
  <2>2. ASSUME me.pc \in Searching, me.pass = 2
        PROVE  /\ WholeAt(me.place)'
               /\ buffer'[me.place.data] = buffer[me.place.data]
    <3>1. PICK place \in [data : {NULL} \cup Of(kind, "dbs"), index : Nat \ {0}] :
            place = me.place /\ WholeAt(place)
      BY <1>2, <1>6, <2>1, <2>2 DEF RowAt, Placed, Sought, InItem
    <3> QED BY <3>1, WholeAtLeft
  <2>3. ASSUME me.pc = "item", me.pass = 2 PROVE IsItem(me.found.data, me.found.index)'
    <3>1. PICK place \in [data : {NULL} \cup Of(kind, "tables"), index : Nat] :
            place = me.found /\ IsItem(place.data, place.index)
      BY <1>2, <1>6, <2>1, <2>3 DEF RowAt, Placed, Sought, Searching
    <3> QED BY <3>1, TableItemLeft
  <2>4. ASSUME me.pc = "data", me.pass = 1
        PROVE  WholeAt([data |-> D.data, index |-> me.i])'
    <3>1. PICK place : place = [data |-> D.data, index |-> me.i]
      OBVIOUS
    <3>2. WholeAt(place)
      BY <2>1, <2>4, <3>1 DEF RowAt
    <3>3. g_srDbCtrlManager # NULL
      BY <1>2, <1>6, <2>4 DEF Knows, Searching
    <3>4. D.data \in {NULL} \cup Of(kind, "dbs")
      BY <3>3, DTyped DEF ManagerT
    <3>5. place \in [data : {NULL} \cup Of(kind, "dbs"), index : Nat \ {0}]
      BY <3>1, <3>4 DEF ThreadT
    <3>6. WholeAt(place)'
      BY <3>2, <3>5, WholeAtLeft
    <3> QED BY <1>1, <3>1, <3>6
  <2>5. ASSUME me.pc = "item", me.pass = 1 PROVE WholeAt(me.found)'
    <3>1. PICK place \in [data : {NULL} \cup Of(kind, "dbs"), index : Nat \ {0}] :
            place = me.found /\ WholeAt(place)
      BY <1>2, <1>6, <2>1, <2>5 DEF RowAt, Placed, Sought, Searching
    <3> QED BY <3>1, WholeAtLeft
  <2>6. ASSUME me.pc \in {"row", "count"} PROVE IsItem(me.place.data, me.place.index)'
    <3>1. PICK place \in [data : {NULL} \cup Of(kind, "tables"), index : Nat] :
            place = me.place /\ IsItem(place.data, place.index)
      BY <1>2, <1>6, <2>1, <2>6 DEF RowAt, Placed, InItem
    <3> QED BY <3>1, TableItemLeft
  <2>7. me.pc = "data" /\ me.pass = 2 =>
          me.i <= buffer'[me.place.data][me.place.index].list.size
    BY <2>1, <2>2 DEF RowAt, Searching
  <2> QED BY <2>2, <2>3, <2>4, <2>5, <2>6, <2>7 DEF RowAt
<1> QED BY <1>1, <1>2, <1>4, <1>5, <1>6 DEF Knows, Seeking

-----------------------------------------------------------------------------
(* Which requests meet.                                                    *)

LEMMA RequestIs ==
  ASSUME NEW kind \in Kind, TypedBy(kind), NEW t \in Thread, Request(t)
  PROVE  \E new \in ThreadT :
           /\ thread' = [thread EXCEPT ![t] = new] /\ thread'[t] = new
           /\ thread[t].op = "none" /\ thread[t].pc = "idle"
           /\ new.op # "none" /\ new.pc \in {"manager", "open"} /\ new.pass = 1
           /\ \A u \in Others(t) : Race(new, thread[u]) \subseteq races'
           /\ Growing => "growth" \in races'
           /\ UNCHANGED <<g_srDbCtrlManager, dbCtrlList, g_dbGenNum, buffer, acked>>
<1>1. PICK op, pc, name, dbId, labelId :
        /\ Begin(t, op, pc, name, dbId, labelId)
        /\ pc \in {"manager", "open"} /\ op \in {"create", "drop", "table", "insert"}
        /\ name \in DbName \cup LabelName \cup {NULL}
        /\ dbId \in Nat \cup {NULL} /\ labelId \in Nat \cup {NULL}
  <2>1. Asked \subseteq Nat
    BY SimpleRelThreadsAssumption DEF Asked, Id
  <2> QED BY <2>1 DEF Request
<1>2. PICK new : new = [Idle EXCEPT !.op = op, !.pc = pc, !.name = name,
                                    !.dbId = dbId, !.labelId = labelId]
  OBVIOUS
<1>3. Idle \in ThreadT /\ Idle.pass = 1
  BY IdleTyped DEF Idle
<1>4. new \in ThreadT /\ new.op = op /\ new.pc = pc /\ new.pass = 1
  BY <1>1, <1>2, <1>3 DEF ThreadT, Pc
<1>5. /\ thread' = [thread EXCEPT ![t] = new] /\ thread[t].pc = "idle"
      /\ UNCHANGED <<g_srDbCtrlManager, dbCtrlList, g_dbGenNum, buffer, acked>>
      /\ races' = races \cup (UNION {Race(new, thread[u]) : u \in Others(t)})
                        \cup (IF Growing THEN {"growth"} ELSE {})
  BY <1>1, <1>2 DEF Begin, At, shared
<1>6. thread[t].op = "none" /\ thread'[t] = new
  BY <1>5 DEF TypedBy, ThreadsTyped, Begun
<1>7. \A u \in Others(t) : Race(new, thread[u]) \subseteq races'
  BY <1>5
<1>8. Growing => "growth" \in races'
  BY <1>5
<1> QED BY <1>1, <1>4, <1>5, <1>6, <1>7, <1>8

\* What a request was asked for does not change.
LEMMA StepFields ==
  ASSUME NEW kind \in Kind, TypedBy(kind), NEW t \in Thread, Step(t), ~ Request(t)
  PROVE  /\ \/ thread'[t] = Idle
            \/ /\ thread'[t].op = thread[t].op /\ thread'[t].name = thread[t].name
               /\ thread'[t].dbId = thread[t].dbId /\ thread'[t].labelId = thread[t].labelId
         /\ thread'[t].pc = "setData" => Realloc(t)
         /\ thread'[t].pc = "initVector" => Publish(t)
<1>1. thread \in [Thread -> ThreadT] /\ thread[t] \in ThreadT
  BY DEF TypedBy, ThreadsTyped
<1>2. CASE Manage(t)
  <2>1. CASE GetDbCtrlManager(t) \/ OpenDb(t)
    BY <1>1, <2>1 DEF GetDbCtrlManager, OpenDb, Searches, Goes, At, ThreadT
  <2>2. CASE Publish(t) \/ InitVector(t)
    BY <1>1, <2>2 DEF Publish, InitVector, Searches, Goes, ThreadT
  <2> QED BY <1>2, <2>1, <2>2 DEF Manage
<1>3. CASE Search(t)
  <2>1. CASE ReadSize(t) \/ ReadData(t) \/ SearchGoesOn(t) \/ SearchEnds(t) \/ NameIsFree(t)
    BY <1>1, <2>1 DEF ReadSize, ReadData, SearchGoesOn, SearchEnds, NameIsFree, Goes, Answers,
                      Idle, At, ThreadT
  <2>2. CASE SearchAgain(t) \/ DropIsSure(t) \/ RowIsFor(t)
    BY <1>1, <2>2 DEF SearchAgain, DropIsSure, RowIsFor, At, ThreadT
  <2> QED BY <1>3, <2>1, <2>2 DEF Search
<1>4. CASE AppendItem(t)
  <2>1. CASE LoadGenNum(t)
    BY <1>1, <2>1 DEF LoadGenNum, ThreadT
  <2>2. CASE StoreGenNum(t) \/ CheckCapacity(t) \/ Realloc(t)
    BY <1>1, <2>2 DEF StoreGenNum, CheckCapacity, Realloc, Goes, ThreadT
  <2>3. CASE SetData(t) \/ CopyItem(t) \/ AddSize(t)
    BY <1>1, <2>3 DEF SetData, CopyItem, AddSize, Goes, Answers, Idle, ThreadT
  <2> QED BY <1>4, <2>1, <2>2, <2>3 DEF AppendItem
<1>5. CASE Change(t)
  BY <1>1, <1>5 DEF Change, MoveItem, SubtractSize, ReadRowCnt, WriteRowCnt, Answers, Idle,
                    At, ThreadT
<1>6. CASE Strays(t)
  BY <1>1, <1>6 DEF Strays, Goes, ThreadT
<1> QED BY <1>2, <1>3, <1>4, <1>5, <1>6 DEF Step

LEMMA AloneKept ==
  ASSUME NEW kind \in Kind, TypedBy(kind), NEW t \in Thread, Step(t), Alone,
         "growth" \notin races'
  PROVE  Alone'
<1>1. \A u \in Thread : u # t => thread'[u] = thread[u]
  BY OthersStay
<1>2. CASE Request(t)
  <2>1. /\ thread'[t].pc # "setData" /\ ~ Growing
    BY <1>2, RequestIs
  <2> QED BY <1>1, <2>1 DEF Alone, Growing
<1>3. CASE Realloc(t)
  <2>1. \A u \in Thread : u # t => thread[u].op = "none"
    BY <1>3 DEF Realloc, Others
  <2>2. \A u \in Thread : u # t => thread[u].pc # "setData"
    BY <2>1 DEF TypedBy, ThreadsTyped, Begun
  <2> QED BY <1>1, <2>1, <2>2 DEF Alone
<1>4. CASE ~ Request(t) /\ ~ Realloc(t)
  <2>1. thread'[t].pc # "setData" /\ (thread'[t].op # "none" => thread[t].op # "none")
    BY <1>4, StepFields DEF Idle
  <2> QED BY <1>1, <2>1 DEF Alone
<1> QED BY <1>2, <1>3, <1>4

LEMMA ApartKept ==
  ASSUME NEW kind \in Kind, TypedBy(kind), NEW t \in Thread, Step(t), Apart,
         "tables" \notin races'
  PROVE  Apart'
<1>1. \A u \in Thread : u # t => thread'[u] = thread[u]
  BY OthersStay
<1>2. CASE Request(t)
  <2>1. PICK new \in ThreadT : /\ thread'[t] = new
                               /\ \A u \in Others(t) : Race(new, thread[u]) \subseteq races'
    BY <1>2, RequestIs
  <2>2. ASSUME NEW u \in Thread, u # t
        PROVE  /\ ~ (new.op = "table" /\ thread[u].op = "drop")
               /\ ~ (new.op = "drop" /\ thread[u].op = "table")
               /\ ~ (new.op = "table" /\ thread[u].op = "table" /\ new.dbId = thread[u].dbId)
    <3>1. thread[u].op # "none" => u \in Others(t)
      BY <2>2 DEF Others
    <3>2. "tables" \notin Race(new, thread[u]) \/ thread[u].op = "none"
      BY <2>1, <3>1
    <3> QED BY <3>2 DEF Race
  <2> QED BY <1>1, <2>1, <2>2 DEF Apart
<1>3. CASE ~ Request(t)
  <2>1. \/ thread'[t].op = "none"
        \/ thread'[t].op = thread[t].op /\ thread'[t].dbId = thread[t].dbId
    BY <1>3, StepFields DEF Idle
  <2> QED BY <1>1, <2>1 DEF Apart
<1> QED BY <1>2, <1>3

\* What a request for a table or a row finds while it searches the databases.
LEMMA SearchedDbs ==
  ASSUME NEW kind \in Kind, TypedBy(kind), DbsInv, TablesInv, NEW t \in Thread,
         thread[t].op \in {"table", "insert"}, thread[t].pc \in Searching, thread[t].pass = 1
  PROVE  /\ VectorAt(thread[t].place) = D /\ IsVector(thread[t].place) /\ D.size \in Nat
         /\ \A k \in 1 .. D.size : /\ Vectors /\ D.data \in Of(kind, "dbs")
                                  /\ IsItem(D.data, k)
                                  /\ Whole(buffer[D.data][k].list)
<1>1. g_srDbCtrlManager # NULL /\ thread[t].place = TheManager
  BY DEF TablesInv, Knows
<1>2. \A u \in Thread : thread[u].pc # "setData"
  BY DEF TablesInv, Alone, Searching
<1>3. CASE ~ Vectors
  <2>1. PICK u \in Thread : thread[u].pc = "initVector"
    BY <1>1, <1>3 DEF Vectors
  <2>2. Making(thread[u])
    BY <2>1 DEF TypedBy, ThreadsTyped, Placed, DbsInv, Maker
  <2>3. D.size = 0
    BY <2>1, <2>2 DEF Making
  <2> QED BY <1>1, <2>3, AtTheManager
<1>4. CASE Vectors
  <2>1. PICK he : he \in Standing
    BY StandingIs DEF TablesInv
  <2>2. Array(he) = D.data /\ he.pc # "setData"
    <3>1. he = Idle \/ \E u \in Thread : he = thread[u]
      BY <2>1 DEF Standing
    <3> QED BY <1>2, <3>1 DEF Array, Idle
  <2>3. PICK b \in Of(kind, "dbs") : b = D.data
    BY <1>4, <2>1, <2>2, DbsAs DEF TablesInv
  <2>4. PICK room \in Int : DbsIn(b, room, Hole(he))
    BY <1>4, <2>1, <2>2, <2>3, DbsAs DEF TablesInv
  <2>5. D.size \in Nat /\ \A k \in 1 .. D.size : IsItem(b, k)
    BY <2>4, DbsInRange DEF IsItem
  <2>6. TablesAs(he)
    BY <1>4, <2>1 DEF TablesInv, Tables
  <2>7. \A k \in 1 .. D.size : Whole(buffer[D.data][k].list)
    <3> TAKE k \in 1 .. D.size
    <3>1. Lists(he)[k] = ListOf(he, k)
      BY <1>4, <2>1, ListsTyped DEF TablesInv
    <3>2. ListOf(he, k) = buffer[D.data][k].list
      BY <2>2 DEF ListOf
    <3> QED BY <2>6, <3>1, <3>2 DEF TablesAs, TablesIn
  <2> QED BY <1>1, <1>4, <2>3, <2>5, <2>7, AtTheManager
<1> QED BY <1>3, <1>4

\* No request for a table or a row goes astray either.
LEMMA NobodyGoesWild ==
  ASSUME NEW kind \in Kind, TypedBy(kind), DbsInv, TablesInv, NEW t \in Thread
  PROVE  ~ NoTarget(t)
<1>1. PICK me \in ThreadT : me = thread[t] /\ Placed(me, kind) /\ Begun(me) /\ Knows(me)
  BY DEF TypedBy, ThreadsTyped, TablesInv
<1>2. CASE Maker(me)
  BY <1>1, <1>2, MakerNeverStrays
<1>3. CASE me.op = "none"
  BY <1>1, <1>3 DEF Begun, NoTarget
<1>4. CASE me.op \in {"table", "insert"} /\ me.pc \in Searching /\ me.pass = 1
  <2>1. g_srDbCtrlManager # NULL /\ me.place = TheManager
    BY <1>1, <1>4 DEF Knows
  <2>2. VectorAt(me.place) = D /\ IsVector(me.place)
    BY <2>1, AtTheManager
  <2>3. me.pc = "item" => IsItem(me.found.data, me.found.index)
    <3>1. CASE me.op = "table" /\ me.pc = "item"
      <4>1. D.size \in Nat /\ \A k \in 1 .. D.size : IsItem(D.data, k)
        BY <1>1, <1>4, SearchedDbs
      <4>2. me.i <= D.size /\ me.found = [data |-> D.data, index |-> me.i]
        BY <1>1, <1>4, <3>1 DEF Knows, Seeking
      <4>3. me.i \in 1 .. D.size
        BY <1>1, <4>1, <4>2 DEF TypedBy, ThreadsTyped, ThreadT
      <4> QED BY <4>1, <4>2, <4>3
    <3>2. CASE me.op = "insert" /\ me.pc = "item"
      BY <1>1, <1>4, <3>2 DEF Knows, RowAt, WholeAt
    <3> QED BY <1>4, <3>1, <3>2
  <2> QED BY <1>1, <1>4, <2>2, <2>3 DEF NoTarget, Searching
<1>5. CASE me.op = "table" /\ (me.pc \in Appending \/ (me.pc \in Searching /\ me.pass = 2))
  <2>1. InItem(me.place, kind, "dbs") /\ ~ IsManager(me.place)
        /\ VectorAt(me.place) = buffer[me.place.data][me.place.index].list
    <3>1. InItem(me.place, kind, "dbs")
      BY <1>1, <1>5 DEF Placed, Sought
    <3> QED BY <3>1, VectorTyped
  <2>2. PICK he \in Standing :
           /\ he = IF me.pc = "setData" THEN me ELSE Idle
           /\ Vectors /\ me.place.index \in 1 .. D.size
           /\ Array(he) = D.data
           /\ me.place.data = D.data
           /\ Whole(ListOf(me, me.place.index))
           /\ ListOf(me, me.place.index)
                \in [data : Of(kind, "tables"), size : Int, capacity : Nat]
           /\ me.pc # "setData" =>
                ListOf(me, me.place.index) = buffer[D.data][me.place.index].list
    BY <1>1, <1>5, TableList
  <2>3. IsItem(me.place.data, me.place.index)
    BY <2>2, ListsTyped DEF TablesInv
  <2>4. IsVector(me.place)
    BY <2>1, <2>3 DEF IsVector
  <2>5. CASE me.pc = "setData"
    BY <1>1, <2>4, <2>5 DEF NoTarget
  <2>6. CASE me.pc # "setData"
    <3>1. PICK v \in [data : Of(kind, "tables"), size : Int, capacity : Nat] :
            v = VectorAt(me.place)
      BY <2>1, <2>2, <2>6
    <3>2. Whole(v) /\ v = ListOf(me, me.place.index) /\ v = Vector(t)
      BY <1>1, <2>1, <2>2, <2>6, <3>1 DEF Vector
    <3>3. PICK b \in Of(kind, "tables") : b = v.data
      OBVIOUS
    <3>4. /\ IsArray(b) /\ DOMAIN buffer[b] = 1 .. Len(buffer[b]) /\ Len(buffer[b]) \in Nat
          /\ v.capacity <= Len(buffer[b]) /\ v.size \in Nat /\ v.size <= v.capacity
          /\ \A j \in 1 .. v.size : buffer[b][j] # Garbage
      BY <3>2, <3>3, ArrayAt DEF Whole
    <3>5. CASE me.pc = "item"
      <4>1. me.i <= v.size /\ me.found = [data |-> b, index |-> me.i]
        BY <1>1, <1>5, <3>2, <3>3, <3>5 DEF Knows, TableAt, Seeking
      <4>2. me.i \in Nat \ {0}
        BY <1>1 DEF TypedBy, ThreadsTyped, ThreadT
      <4>3. me.i \in 1 .. v.size /\ me.i \in 1 .. Len(buffer[b])
        BY <3>4, <4>1, <4>2
      <4> QED BY <1>1, <3>4, <3>5, <4>1, <4>3 DEF NoTarget, IsItem
    <3>6. CASE me.pc = "copy"
      <4>1. v.size < v.capacity
        BY <1>1, <1>5, <3>2, <3>6 DEF Knows, TableAt
      <4>2. v.size + 1 \in 1 .. Len(buffer[b])
        BY <3>4, <4>1
      <4>3. IsSlot(v)
        BY <3>3, <3>4, <4>2 DEF IsSlot
      <4> QED BY <1>1, <2>4, <3>2, <3>6, <4>3 DEF NoTarget
    <3>7. CASE me.pc = "realloc"
      BY <1>1, <2>4, <3>2, <3>3, <3>4, <3>7 DEF NoTarget
    <3>8. CASE me.pc \in {"search", "data", "load", "store", "check", "size"}
      BY <1>1, <2>4, <3>8 DEF NoTarget
    <3> QED BY <1>5, <2>6, <3>5, <3>6, <3>7, <3>8 DEF Searching, Appending, Filling
  <2> QED BY <2>5, <2>6
<1>6. CASE me.op = "insert" /\ me.pc \in Searching /\ me.pass = 2
  <2>1. InItem(me.place, kind, "dbs") /\ IsItem(me.place.data, me.place.index)
    BY <1>1, <1>6 DEF Placed, Sought, Knows, RowAt, WholeAt
  <2>2. IsVector(me.place)
    BY <2>1, VectorTyped DEF IsVector
  <2>3. me.pc = "item" => IsItem(me.found.data, me.found.index)
    BY <1>1, <1>6 DEF Knows, RowAt
  <2> QED BY <1>1, <1>6, <2>2, <2>3 DEF NoTarget, Searching
<1>7. CASE me.op = "insert" /\ me.pc \in {"row", "count"}
  <2>1. IsItem(me.place.data, me.place.index)
    BY <1>1, <1>7 DEF Knows, RowAt
  <2> QED BY <1>1, <1>7, <2>1 DEF NoTarget
<1>8. CASE me.pc \notin {"search", "data", "item", "check", "setData", "size", "realloc",
                         "copy", "move", "row", "count"}
  BY <1>1, <1>8 DEF NoTarget
<1>9. ASSUME me.op \in {"table", "insert"}, me.pc \in Searching PROVE me.pass \in {1, 2}
  BY <1>1, <1>9 DEF Knows
<1> QED BY <1>1, <1>2, <1>3, <1>4, <1>5, <1>6, <1>7, <1>8, <1>9
        DEF Placed, Searching, Appending, Filling, Maker, ThreadT

-----------------------------------------------------------------------------
(* Steps that leave the tables as they are.                                *)

\* What a request knows is of what is shared.
LEMMA KnowsSame ==
  ASSUME UNCHANGED <<g_srDbCtrlManager, dbCtrlList, buffer>>, Vectors => Vectors',
         NEW me, Knows(me)
  PROVE  Knows(me)'
<1>1. D' = D /\ TheManager' = TheManager
  BY DEF D, TheManager
<1>2. \A b : IsArray(b)' <=> IsArray(b)
  BY DEF IsArray
<1>3. \A b, i : IsItem(b, i)' <=> IsItem(b, i)
  BY <1>2 DEF IsItem
<1>4. \A v : Whole(v)' <=> Whole(v)
  BY <1>2 DEF Whole
<1>5. \A k : ListOf(me, k)' = ListOf(me, k)
  BY <1>1 DEF ListOf, Array
<1>6. NewDb(me) => NewDb(me)'
  BY <1>1, <1>4, <1>5 DEF NewDb
<1>7. TableAt(me) => TableAt(me)'
  BY <1>1, <1>5 DEF TableAt, Seeking
<1>8. RowAt(me) => RowAt(me)'
  BY <1>1, <1>3, <1>4 DEF RowAt, WholeAt
<1> QED BY <1>1, <1>6, <1>7, <1>8 DEF Knows, Seeking

LEMMA StandingSame ==
  ASSUME thread \in [Thread -> ThreadT], NEW t \in Thread, NEW new,
         thread' = [thread EXCEPT ![t] = new], ~ Special(thread[t]), ~ Special(new)
  PROVE  Standing' = Standing
<1>1. \A u \in Thread : /\ Special(thread'[u]) <=> Special(thread[u])
                        /\ Special(thread[u]) => thread'[u] = thread[u]
  OBVIOUS
<1>2. {thread'[u] : u \in {w \in Thread : Special(thread'[w])}}
        = {thread[u] : u \in {w \in Thread : Special(thread[w])}}
  BY <1>1
<1> QED BY <1>1, <1>2 DEF Standing

LEMMA TablesQuiet ==
  ASSUME NEW kind \in Kind, TypedBy(kind), DbsInv, TablesInv, Alone', Apart',
         NEW t \in Thread, NEW new, thread' = [thread EXCEPT ![t] = new],
         TablesLeft(kind), ~ Special(thread[t]), ~ Special(new),
         thread[t].pc # "initVector", new.pc \notin {"initVector", "wild"},
         (Vectors => Vectors') => Knows(new)'
  PROVE  TablesInv'
<1>1. thread \in [Thread -> ThreadT]
  BY DEF TypedBy, ThreadsTyped
<1>2. Vectors' <=> Vectors
  BY <1>1 DEF TablesLeft, Vectors
<1>3. Sane'
  BY <1>1 DEF TablesInv, Sane
<1>4. ASSUME NEW u \in Thread PROVE Knows(thread[u])'
  <2>1. CASE u = t
    BY <1>1, <1>2, <2>1
  <2>2. CASE u # t
    <3>1. PICK me \in ThreadT : me = thread[u]
      BY <1>1
    <3>2. Knows(me)'
      BY <1>2, <3>1, KnowsLeft
    <3> QED BY <1>1, <2>2, <3>1, <3>2
  <2> QED BY <2>1, <2>2
<1>5. Standing' = Standing
  BY <1>1, StandingSame
<1>6. Tables'
  <2>1. ~ Vectors' => acked'.tables = {}
    BY <1>2 DEF TablesInv, Tables, TablesLeft
  <2>2. ASSUME Vectors, NEW me \in Standing PROVE TablesAs(me)'
    BY <2>2, TablesAsLeft DEF TablesInv, Tables
  <2> QED BY <1>2, <1>5, <2>1, <2>2 DEF Tables
<1> QED BY <1>3, <1>4, <1>6 DEF TablesInv

\* A step of which the others see nothing.
LEMMA TablesLocal ==
  ASSUME NEW kind \in Kind, TypedBy(kind), DbsInv, TablesInv, Alone', Apart',
         NEW t \in Thread, NEW new, thread' = [thread EXCEPT ![t] = new],
         UNCHANGED <<g_srDbCtrlManager, dbCtrlList, buffer>>,
         acked'.tables = acked.tables,
         ~ Special(thread[t]), ~ Special(new),
         thread[t].pc # "initVector", new.pc \notin {"initVector", "wild"},
         Knows(new)
  PROVE  TablesInv'
<1>1. TablesLeft(kind)
  <2>1. \A b \in Of(kind, "tables") : IsArray(b) => SameTables(b)
    BY DEF SameTables, IsArray
  <2> QED BY <2>1 DEF TablesLeft
<1> QED BY <1>1, TablesQuiet, KnowsSame

LEMMA IdleKnows == Knows(Idle) /\ ~ Special(Idle) /\ Idle.pc = "idle"
  BY DEF Knows, Idle, Special

LEMMA RequestKeepsTables ==
  ASSUME NEW kind \in Kind, TypedBy(kind), DbsInv, TablesInv, Alone', Apart',
         NEW t \in Thread, Request(t)
  PROVE  TablesInv'
<1>1. PICK new \in ThreadT :
        /\ thread' = [thread EXCEPT ![t] = new] /\ thread[t].pc = "idle"
        /\ new.pc \in {"manager", "open"} /\ new.pass = 1
        /\ UNCHANGED <<g_srDbCtrlManager, dbCtrlList, g_dbGenNum, buffer, acked>>
  BY RequestIs
<1>2. Knows(new)
  BY <1>1 DEF Knows, NewDb, TableAt, RowAt, Searching, Appending, Filling
<1> QED BY <1>1, <1>2, TablesLocal DEF Special

LEMMA GetDbCtrlManagerKeepsTables ==
  ASSUME NEW kind \in Kind, TypedBy(kind), DbsInv, TablesInv, Alone', Apart',
         NEW t \in Thread, GetDbCtrlManager(t)
  PROVE  TablesInv'
<1>1. PICK me \in ThreadT : me = thread[t] /\ Placed(me, kind)
  BY DEF TypedBy, ThreadsTyped
<1>2. me.pc = "manager" /\ me.op \in {"create", "drop"}
  BY <1>1 DEF GetDbCtrlManager, At, Placed
<1>3. PICK new : /\ thread' = [thread EXCEPT ![t] = new]
                 /\ new.op = me.op /\ new.pc \in {"search", "publish"}
  <2>1. PICK a : a = [me EXCEPT !.pc = "search", !.place = TheManager, !.i = 1]
    OBVIOUS
  <2>2. PICK b : b = [me EXCEPT !.pc = "publish"]
    OBVIOUS
  <2>3. a.op = me.op /\ a.pc = "search" /\ b.op = me.op /\ b.pc = "publish"
    BY <2>1, <2>2 DEF ThreadT
  <2>4. thread' = [thread EXCEPT ![t] = a] \/ thread' = [thread EXCEPT ![t] = b]
    BY <1>1, <2>1, <2>2 DEF GetDbCtrlManager, Searches, Goes
  <2> QED BY <2>3, <2>4
<1>4. Knows(new)
  BY <1>2, <1>3 DEF Knows, NewDb, Filling
<1> QED BY <1>1, <1>2, <1>3, <1>4, TablesLocal DEF Special, GetDbCtrlManager, shared

LEMMA OpenDbKeepsTables ==
  ASSUME NEW kind \in Kind, TypedBy(kind), DbsInv, TablesInv, Alone', Apart',
         NEW t \in Thread, OpenDb(t)
  PROVE  TablesInv'
<1>1. PICK me \in ThreadT : me = thread[t] /\ Placed(me, kind) /\ Knows(me)
  BY DEF TypedBy, ThreadsTyped, TablesInv
<1>2. me.pc = "open" /\ me.op \in {"table", "insert"} /\ me.pass = 1
  BY <1>1 DEF OpenDb, At, Placed
<1>3. PICK new : /\ thread' = [thread EXCEPT ![t] = new]
                 /\ new.pc \in {"search", "open"} /\ Knows(new)
  <2>1. CASE g_srDbCtrlManager # NULL
    <3>1. PICK new : new = [me EXCEPT !.pc = "search", !.place = TheManager, !.i = 1]
      OBVIOUS
    <3>2. /\ new.op = me.op /\ new.pc = "search" /\ new.place = TheManager
          /\ new.pass = me.pass
      BY <3>1 DEF ThreadT
    <3>3. Knows(new)
      BY <1>2, <2>1, <3>2 DEF Knows, TableAt, Seeking, RowAt, Searching, Appending, Filling
    <3> QED BY <1>1, <2>1, <3>1, <3>2, <3>3 DEF OpenDb, Searches
  <2>2. CASE g_srDbCtrlManager = NULL
    <3>1. thread' = [thread EXCEPT ![t] = me]
      BY <1>1, <2>2 DEF OpenDb, TypedBy, ThreadsTyped
    <3> QED BY <1>1, <1>2, <3>1
  <2> QED BY <2>1, <2>2
<1> QED BY <1>1, <1>2, <1>3, TablesLocal DEF Special, OpenDb

\* Where a search of a request for a table or a row is.
LEMMA SearchedAt ==
  ASSUME NEW kind \in Kind, TypedBy(kind), DbsInv, TablesInv, NEW t \in Thread,
         NEW me \in ThreadT, me = thread[t], me.pc \in Searching, me.pass = 2
  PROVE  /\ me.op = "table" =>
              /\ VectorAt(me.place) = ListOf(me, me.place.index)
              /\ VectorAt(me.place) \in
                   [data : Of(kind, "tables"), size : Int, capacity : Nat]
              /\ Array(me) = D.data
         /\ me.op = "insert" =>
              /\ VectorAt(me.place) = buffer[me.place.data][me.place.index].list
              /\ Whole(VectorAt(me.place)) /\ WholeAt(me.place)
              /\ VectorAt(me.place) \in
                   [data : Of(kind, "tables"), size : Int, capacity : Nat]
<1>1. Placed(me, kind) /\ Knows(me)
  BY DEF TypedBy, ThreadsTyped, TablesInv
<1>2. ASSUME me.op \in {"table", "insert"}
      PROVE  /\ InItem(me.place, kind, "dbs")
             /\ VectorAt(me.place) = buffer[me.place.data][me.place.index].list
  <2>1. InItem(me.place, kind, "dbs")
    BY <1>1, <1>2 DEF Placed, Sought
  <2> QED BY <2>1, VectorTyped
<1>3. ASSUME me.op = "table"
      PROVE  /\ VectorAt(me.place) = ListOf(me, me.place.index)
             /\ VectorAt(me.place) \in
                  [data : Of(kind, "tables"), size : Int, capacity : Nat]
             /\ Array(me) = D.data
  <2>1. /\ me.place.data = D.data
        /\ ListOf(me, me.place.index) = buffer[D.data][me.place.index].list
        /\ ListOf(me, me.place.index)
             \in [data : Of(kind, "tables"), size : Int, capacity : Nat]
    BY <1>3, TableList DEF Searching
  <2> QED BY <1>2, <1>3, <2>1 DEF Array
<1>4. ASSUME me.op = "insert"
      PROVE  /\ Whole(VectorAt(me.place)) /\ WholeAt(me.place)
             /\ VectorAt(me.place) \in
                  [data : Of(kind, "tables"), size : Int, capacity : Nat]
  <2>1. PICK place \in [data : {NULL} \cup Of(kind, "dbs"), index : Nat \ {0}] :
          place = me.place /\ WholeAt(place)
    BY <1>1, <1>2, <1>4 DEF Knows, RowAt, InItem
  <2> QED BY <1>2, <1>4, <2>1, WholeAtIs
<1> QED BY <1>2, <1>3, <1>4

LEMMA ReadSizeKeepsTables ==
  ASSUME NEW kind \in Kind, TypedBy(kind), DbsInv, TablesInv, Alone', Apart',
         NEW t \in Thread, ReadSize(t)
  PROVE  TablesInv'
<1>1. PICK me \in ThreadT : me = thread[t] /\ Placed(me, kind) /\ Knows(me)
  BY DEF TypedBy, ThreadsTyped, TablesInv
<1>2. me.pc = "search" /\ me.i <= VectorAt(me.place).size
  BY <1>1 DEF ReadSize, MoreItems, At
<1>3. PICK new : new = [me EXCEPT !.pc = "data"]
  OBVIOUS
<1>4. /\ thread' = [thread EXCEPT ![t] = new]
      /\ UNCHANGED <<g_srDbCtrlManager, dbCtrlList, buffer, acked>>
  BY <1>1, <1>3 DEF ReadSize, Goes, shared
<1>5. /\ new.op = me.op /\ new.pc = "data" /\ new.place = me.place /\ new.pass = me.pass
      /\ new.i = me.i /\ new.name = me.name /\ new.dbId = me.dbId
  BY <1>3 DEF ThreadT
<1>6. ASSUME me.pass = 2, me.op \in {"table", "insert"} PROVE Knows(new)
  <2>1. CASE me.op = "table"
    <3>1. TableAt(me) /\ VectorAt(me.place) = ListOf(me, me.place.index)
      BY <1>1, <1>2, <1>6, <2>1, SearchedAt DEF Knows, Searching
    <3>2. ListOf(new, me.place.index) = ListOf(me, me.place.index)
      BY <1>2, <1>5 DEF ListOf, Array
    <3>3. TableAt(new)
      BY <1>2, <1>5, <1>6, <3>1, <3>2 DEF TableAt, Seeking, Searching, Appending, Filling
    <3> QED BY <1>5, <1>6, <2>1, <3>3 DEF Knows
  <2>2. CASE me.op = "insert"
    <3>1. /\ VectorAt(me.place) = buffer[me.place.data][me.place.index].list
          /\ WholeAt(me.place)
      BY <1>1, <1>2, <1>6, <2>2, SearchedAt DEF Searching
    <3> QED BY <1>2, <1>5, <1>6, <2>2, <3>1 DEF Knows, RowAt
  <2> QED BY <1>6, <2>1, <2>2
<1>7. ASSUME me.pass = 1, me.op \in {"table", "insert"} PROVE Knows(new)
  <2>1. /\ VectorAt(me.place) = D /\ D.size \in Nat
        /\ \A k \in 1 .. D.size : IsItem(D.data, k) /\ Whole(buffer[D.data][k].list)
    BY <1>1, <1>2, <1>7, SearchedDbs DEF Searching
  <2>2. me.i \in 1 .. D.size
    BY <1>2, <2>1 DEF ThreadT
  <2>3. WholeAt([data |-> D.data, index |-> me.i])
    BY <2>1, <2>2 DEF WholeAt
  <2>4. g_srDbCtrlManager # NULL /\ me.place = TheManager
    BY <1>1, <1>2, <1>7 DEF Knows, Searching
  <2> QED BY <1>2, <1>5, <1>7, <2>1, <2>3, <2>4
          DEF Knows, TableAt, RowAt, Seeking, Searching, Appending, Filling
<1>8. Knows(new)
  <2>1. CASE me.op \in {"table", "insert"}
    <3>1. me.pass \in {1, 2}
      BY <1>1, <2>1 DEF Knows
    <3> QED BY <1>6, <1>7, <2>1, <3>1
  <2>2. CASE me.op \notin {"table", "insert"}
    BY <1>5, <2>2 DEF Knows, NewDb, Filling
  <2> QED BY <2>1, <2>2
<1> QED BY <1>1, <1>2, <1>4, <1>5, <1>8, TablesLocal DEF Special

LEMMA ReadDataKeepsTables ==
  ASSUME NEW kind \in Kind, TypedBy(kind), DbsInv, TablesInv, Alone', Apart',
         NEW t \in Thread, ReadData(t)
  PROVE  TablesInv'
<1>1. PICK me \in ThreadT : me = thread[t] /\ Placed(me, kind) /\ Knows(me)
  BY DEF TypedBy, ThreadsTyped, TablesInv
<1>2. me.pc = "data"
  BY <1>1 DEF ReadData, At
<1>3. PICK found : found = [data |-> VectorAt(me.place).data, index |-> me.i]
  OBVIOUS
<1>4. PICK new : new = [me EXCEPT !.pc = "item", !.found = found]
  OBVIOUS
<1>5. /\ thread' = [thread EXCEPT ![t] = new]
      /\ UNCHANGED <<g_srDbCtrlManager, dbCtrlList, buffer, acked>>
  BY <1>1, <1>3, <1>4 DEF ReadData, shared
<1>6. /\ new.op = me.op /\ new.pc = "item" /\ new.place = me.place /\ new.pass = me.pass
      /\ new.i = me.i /\ new.name = me.name /\ new.dbId = me.dbId /\ new.found = found
  BY <1>4 DEF ThreadT
<1>7. ASSUME me.pass = 2, me.op \in {"table", "insert"} PROVE Knows(new)
  <2>1. CASE me.op = "table"
    <3>1. TableAt(me) /\ VectorAt(me.place) = ListOf(me, me.place.index)
      BY <1>1, <1>2, <1>7, <2>1, SearchedAt DEF Knows, Searching
    <3>2. ListOf(new, me.place.index) = ListOf(me, me.place.index)
      BY <1>2, <1>6 DEF ListOf, Array
    <3>3. TableAt(new)
      BY <1>2, <1>3, <1>6, <1>7, <3>1, <3>2
         DEF TableAt, Seeking, Searching, Appending, Filling
    <3> QED BY <1>6, <1>7, <2>1, <3>3 DEF Knows
  <2>2. CASE me.op = "insert"
    <3>1. /\ VectorAt(me.place) = buffer[me.place.data][me.place.index].list
          /\ Whole(VectorAt(me.place)) /\ WholeAt(me.place)
          /\ VectorAt(me.place) \in
               [data : Of(kind, "tables"), size : Int, capacity : Nat]
      BY <1>1, <1>2, <1>7, <2>2, SearchedAt DEF Searching
    <3>2. PICK v \in [data : Of(kind, "tables"), size : Int, capacity : Nat] :
            v = VectorAt(me.place) /\ Whole(v)
      BY <3>1
    <3>3. me.i <= v.size
      BY <1>1, <1>2, <1>7, <2>2, <3>1, <3>2 DEF Knows, RowAt, Searching
    <3>4. DOMAIN buffer[v.data] = 1 .. Len(buffer[v.data]) /\ Len(buffer[v.data]) \in Nat
      BY <3>2, ArrayAt DEF Whole
    <3>5. me.i \in 1 .. v.size /\ me.i \in 1 .. Len(buffer[v.data])
      <4>1. /\ v.size \in Nat /\ v.size <= v.capacity /\ v.capacity <= Len(buffer[v.data])
            /\ me.i \in Nat \ {0} /\ v.capacity \in Nat
        BY <3>2 DEF Whole, ThreadT
      <4> QED BY <3>3, <3>4, <4>1
    <3>6. IsItem(v.data, me.i)
      BY <3>2, <3>4, <3>5 DEF Whole, IsItem
    <3>7. found.data = v.data /\ found.index = me.i
      BY <1>3, <3>2
    <3> QED BY <1>6, <1>7, <2>2, <3>1, <3>6, <3>7 DEF Knows, RowAt
  <2> QED BY <1>7, <2>1, <2>2
<1>8. ASSUME me.pass = 1, me.op \in {"table", "insert"} PROVE Knows(new)
  <2>1. VectorAt(me.place) = D
    BY <1>1, <1>2, <1>8, SearchedDbs DEF Searching
  <2>2. found = [data |-> D.data, index |-> me.i]
    BY <1>3, <2>1
  <2>3. me.op = "insert" => WholeAt(found)
    BY <1>1, <1>2, <1>8, <2>2 DEF Knows, RowAt
  <2>4. g_srDbCtrlManager # NULL /\ me.place = TheManager /\ (me.op = "table" => me.i <= D.size)
    BY <1>1, <1>2, <1>8 DEF Knows, Seeking, Searching
  <2> QED BY <1>2, <1>6, <1>8, <2>2, <2>3, <2>4
          DEF Knows, TableAt, RowAt, Seeking, Searching, Appending, Filling
<1>9. Knows(new)
  <2>1. CASE me.op \in {"table", "insert"}
    <3>1. me.pass \in {1, 2}
      BY <1>1, <2>1 DEF Knows
    <3> QED BY <1>7, <1>8, <2>1, <3>1
  <2>2. CASE me.op \notin {"table", "insert"}
    BY <1>6, <2>2 DEF Knows, NewDb, Filling
  <2> QED BY <2>1, <2>2
<1> QED BY <1>1, <1>2, <1>5, <1>6, <1>9, TablesLocal DEF Special

LEMMA SearchGoesOnKeepsTables ==
  ASSUME NEW kind \in Kind, TypedBy(kind), DbsInv, TablesInv, Alone', Apart',
         NEW t \in Thread, SearchGoesOn(t)
  PROVE  TablesInv'
<1>1. PICK me \in ThreadT : me = thread[t] /\ Placed(me, kind) /\ Knows(me)
  BY DEF TypedBy, ThreadsTyped, TablesInv
<1>2. me.pc = "item" /\ ItemFound(t) /\ ~ Hit(t)
  BY <1>1 DEF SearchGoesOn, ItemFound, At
<1>3. PICK new : new = [me EXCEPT !.pc = "search", !.i = me.i + 1, !.found = NULL]
  OBVIOUS
<1>4. /\ thread' = [thread EXCEPT ![t] = new]
      /\ UNCHANGED <<g_srDbCtrlManager, dbCtrlList, buffer, acked>>
  BY <1>1, <1>3 DEF SearchGoesOn, shared
<1>5. /\ new.op = me.op /\ new.pc = "search" /\ new.place = me.place /\ new.pass = me.pass
      /\ new.i = me.i + 1 /\ new.name = me.name /\ new.dbId = me.dbId
  BY <1>2, <1>3 DEF ThreadT
<1>6. ASSUME me.op = "table", me.pass = 2 PROVE TableAt(new)
  <2>1. TableAt(me) /\ me.i \in Nat
    BY <1>1, <1>6 DEF Knows, ThreadT
  <2>2. PICK k : k = me.place.index
    OBVIOUS
  <2>3. PICK v \in [data : Of(kind, "tables"), size : Int, capacity : Nat] :
          v = ListOf(me, k) /\ v = buffer[D.data][k].list
    BY <1>1, <1>2, <1>6, <2>2, TableList DEF Searching
  <2>4. ListOf(new, k) = v
    BY <1>2, <1>5, <2>3 DEF ListOf, Array
  <2>5. me.found = [data |-> v.data, index |-> me.i]
    BY <1>2, <1>6, <2>1, <2>2, <2>3 DEF TableAt, Seeking, Searching
  <2>6. buffer[v.data][me.i].name # me.name
    BY <1>1, <1>2, <1>6, <2>5 DEF Hit, Matches
  <2>7. \A j \in 1 .. v.size : j < me.i => buffer[v.data][j].name # me.name
    BY <1>2, <1>6, <2>1, <2>2, <2>3 DEF TableAt, Searching
  <2>8. ASSUME NEW j \in 1 .. v.size, j < new.i PROVE buffer[v.data][j].name # me.name
    <3>1. j < me.i \/ j = me.i
      BY <1>5, <2>1, <2>8
    <3> QED BY <2>6, <2>7, <3>1
  <2>9. Vectors /\ me.place.data = D.data /\ k \in 1 .. D.size /\ buffer[D.data][k].id = me.dbId
    BY <1>2, <1>6, <2>1, <2>2 DEF TableAt, Searching
  <2> QED BY <1>5, <2>2, <2>4, <2>8, <2>9 DEF TableAt, Seeking, Searching, Appending, Filling
<1>7. Knows(new)
  <2>1. CASE me.op = "insert"
    BY <1>1, <1>2, <1>5, <2>1 DEF Knows, RowAt, Searching
  <2>2. CASE me.op = "table"
    <3>1. TableAt(new)
      BY <1>5, <1>6, <2>2 DEF TableAt, Seeking, Searching, Appending, Filling
    <3> QED BY <1>1, <1>2, <1>5, <2>2, <3>1 DEF Knows, Seeking, Searching
  <2>3. CASE me.op \notin {"insert", "table"}
    BY <1>1, <1>2, <1>5, <2>3 DEF Knows, NewDb, Filling
  <2> QED BY <2>1, <2>2, <2>3
<1> QED BY <1>1, <1>2, <1>4, <1>5, <1>7, TablesLocal DEF Special

LEMMA SearchEndsKeepsTables ==
  ASSUME NEW kind \in Kind, TypedBy(kind), DbsInv, TablesInv, Alone', Apart',
         NEW t \in Thread, SearchEnds(t)
  PROVE  TablesInv'
<1>1. /\ thread' = [thread EXCEPT ![t] = Idle] /\ thread[t].pc \in {"search", "item"}
      /\ UNCHANGED <<g_srDbCtrlManager, dbCtrlList, buffer, acked>>
  BY DEF SearchEnds, NoMore, ToRemove, Hit, ItemFound, Answers, At, shared
<1> QED BY <1>1, IdleKnows, TablesLocal DEF Special

LEMMA NameIsFreeKeepsTables ==
  ASSUME NEW kind \in Kind, TypedBy(kind), DbsInv, TablesInv, Alone', Apart',
         NEW t \in Thread, NameIsFree(t)
  PROVE  TablesInv'
<1>1. PICK me \in ThreadT : me = thread[t] /\ Placed(me, kind) /\ Knows(me)
  BY DEF TypedBy, ThreadsTyped, TablesInv
<1>2. /\ me.pc = "search" /\ ~ (me.i <= VectorAt(me.place).size)
      /\ me.op = "create" \/ (me.op = "table" /\ me.pass = 2)
  BY <1>1 DEF NameIsFree, NoMore, MoreItems, ForFreeName, At
<1>3. PICK new : new = [me EXCEPT !.pc = "load"]
  OBVIOUS
<1>4. /\ thread' = [thread EXCEPT ![t] = new]
      /\ UNCHANGED <<g_srDbCtrlManager, dbCtrlList, buffer, acked>>
  BY <1>1, <1>3 DEF NameIsFree, Goes, shared
<1>5. /\ new.op = me.op /\ new.pc = "load" /\ new.place = me.place /\ new.pass = me.pass
      /\ new.name = me.name /\ new.dbId = me.dbId
  BY <1>3 DEF ThreadT
<1>6. ASSUME me.op = "table" PROVE TableAt(new)
  <2>1. TableAt(me) /\ me.i \in Nat
    BY <1>1, <1>6 DEF Knows, ThreadT
  <2>2. PICK k : k = me.place.index
    OBVIOUS
  <2>3. PICK v \in [data : Of(kind, "tables"), size : Int, capacity : Nat] :
          v = ListOf(me, k) /\ v = buffer[D.data][k].list
    BY <1>1, <1>2, <1>6, <2>2, TableList DEF Searching
  <2>4. ListOf(new, k) = v
    BY <1>5, <2>3 DEF ListOf, Array
  <2>5. VectorAt(me.place) = v
    BY <1>1, <1>2, <1>6, <2>2, <2>3, SearchedAt DEF Searching
  <2>6. \A j \in 1 .. v.size : j < me.i => buffer[v.data][j].name # me.name
    BY <1>2, <1>6, <2>1, <2>2, <2>3 DEF TableAt, Searching
  <2>7. \A j \in 1 .. v.size : buffer[v.data][j].name # me.name
    <3>1. \A j \in 1 .. v.size : j < me.i
      BY <1>2, <2>1, <2>5
    <3> QED BY <2>6, <3>1
  <2>8. Vectors /\ me.place.data = D.data /\ k \in 1 .. D.size /\ buffer[D.data][k].id = me.dbId
    BY <1>2, <1>6, <2>1, <2>2 DEF TableAt, Searching
  <2> QED BY <1>5, <2>2, <2>4, <2>7, <2>8 DEF TableAt, Seeking, Searching, Appending, Filling
<1>7. Knows(new)
  BY <1>1, <1>2, <1>5, <1>6 DEF Knows, NewDb, Filling
<1> QED BY <1>1, <1>2, <1>4, <1>5, <1>7, TablesLocal DEF Special

LEMMA SearchAgainKeepsTables ==
  ASSUME NEW kind \in Kind, TypedBy(kind), DbsInv, TablesInv, Alone', Apart',
         NEW t \in Thread, SearchAgain(t)
  PROVE  TablesInv'
<1>1. PICK me \in ThreadT : me = thread[t] /\ Placed(me, kind) /\ Knows(me)
  BY DEF TypedBy, ThreadsTyped, TablesInv
<1>2. /\ me.pc = "item" /\ Hit(t)
      /\ \/ me.op = "drop" /\ me.pass < 3
         \/ me.op \in {"table", "insert"} /\ me.pass = 1
  BY <1>1 DEF SearchAgain, ForNextSearch, Hit, ItemFound, At
<1>3. PICK place : place = IF me.op = "drop" THEN TheManager ELSE me.found
  OBVIOUS
<1>4. PICK new : new = [me EXCEPT !.pc = "search", !.pass = me.pass + 1,
                                  !.place = place, !.i = 1, !.found = NULL]
  OBVIOUS
<1>5. /\ thread' = [thread EXCEPT ![t] = new]
      /\ UNCHANGED <<g_srDbCtrlManager, dbCtrlList, buffer, acked>>
  BY <1>1, <1>3, <1>4 DEF SearchAgain, shared
<1>6. /\ new.op = me.op /\ new.pc = "search" /\ new.place = place /\ new.pass = me.pass + 1
      /\ new.i = 1 /\ new.name = me.name /\ new.dbId = me.dbId
  BY <1>2, <1>4 DEF ThreadT
<1>7. ASSUME me.op \in {"table", "insert"} PROVE Knows(new)
  <2>1. new.pass = 2 /\ place = me.found
    BY <1>2, <1>3, <1>6, <1>7
  <2>2. CASE me.op = "table"
    <3>1. /\ D.size \in Nat /\ \A k \in 1 .. D.size : Vectors
      BY <1>1, <1>2, <1>7, SearchedDbs DEF Searching
    <3>2. PICK k : k = me.i
      OBVIOUS
    <3>3. place = [data |-> D.data, index |-> k] /\ k <= D.size
      BY <1>1, <1>2, <2>1, <2>2, <3>2 DEF Knows, Seeking, Searching
    <3>4. k \in 1 .. D.size
      BY <3>1, <3>2, <3>3 DEF ThreadT
    <3>5. buffer[D.data][k].id = me.dbId
      BY <1>1, <1>2, <1>7, <2>1, <2>2, <3>3 DEF Hit, Matches
    <3>6. place.data = D.data /\ place.index = k
      BY <3>3
    <3>7. \A j \in 1 .. ListOf(new, k).size : ~ (j < new.i)
      BY <1>6
    <3>8. TableAt(new)
      BY <1>6, <3>1, <3>4, <3>5, <3>6, <3>7
         DEF TableAt, Seeking, Searching, Appending, Filling
    <3> QED BY <1>6, <2>1, <2>2, <3>8 DEF Knows
  <2>3. CASE me.op = "insert"
    <3>1. WholeAt(me.found)
      BY <1>1, <1>2, <2>3 DEF Knows, RowAt
    <3> QED BY <1>6, <2>1, <2>3, <3>1 DEF Knows, RowAt
  <2> QED BY <1>7, <2>2, <2>3
<1>8. Knows(new)
  BY <1>2, <1>6, <1>7 DEF Knows
<1> QED BY <1>1, <1>2, <1>5, <1>6, <1>8, TablesLocal DEF Special

LEMMA RowIsForKeepsTables ==
  ASSUME NEW kind \in Kind, TypedBy(kind), DbsInv, TablesInv, Alone', Apart',
         NEW t \in Thread, RowIsFor(t)
  PROVE  TablesInv'
<1>1. PICK me \in ThreadT : me = thread[t] /\ Placed(me, kind) /\ Knows(me)
  BY DEF TypedBy, ThreadsTyped, TablesInv
<1>2. me.pc = "item" /\ Hit(t) /\ me.op = "insert" /\ me.pass = 2
  BY <1>1 DEF RowIsFor, Hit, ItemFound, At
<1>3. PICK place : place = me.found
  OBVIOUS
<1>4. PICK new : new = [me EXCEPT !.pc = "row", !.place = place, !.found = NULL]
  OBVIOUS
<1>5. /\ thread' = [thread EXCEPT ![t] = new]
      /\ UNCHANGED <<g_srDbCtrlManager, dbCtrlList, buffer, acked>>
  BY <1>1, <1>3, <1>4 DEF RowIsFor, shared
<1>6. new.op = me.op /\ new.pc = "row" /\ new.place = place /\ new.pass = me.pass
  BY <1>4 DEF ThreadT
<1>7. IsItem(place.data, place.index)
  BY <1>1, <1>2, <1>3, HitTyped
<1>8. Knows(new)
  BY <1>2, <1>6, <1>7 DEF Knows, RowAt, Searching
<1> QED BY <1>1, <1>2, <1>5, <1>6, <1>8, TablesLocal DEF Special

LEMMA StoreGenNumKeepsTables ==
  ASSUME NEW kind \in Kind, TypedBy(kind), DbsInv, TablesInv, Alone', Apart',
         NEW t \in Thread, StoreGenNum(t)
  PROVE  TablesInv'
<1>1. PICK me \in ThreadT : me = thread[t] /\ Placed(me, kind) /\ Knows(me)
  BY DEF TypedBy, ThreadsTyped, TablesInv
<1>2. me.pc = "store" /\ me.op \in {"create", "table"}
  BY <1>1 DEF StoreGenNum, At, Placed, Appending
<1>3. PICK place : place = IF me.op = "create" THEN TheManager ELSE me.place
  OBVIOUS
<1>4. PICK new : new = [me EXCEPT !.pc = "check", !.place = place]
  OBVIOUS
<1>5. /\ thread' = [thread EXCEPT ![t] = new]
      /\ UNCHANGED <<g_srDbCtrlManager, dbCtrlList, buffer, acked>>
  BY <1>1, <1>3, <1>4 DEF StoreGenNum
<1>6. /\ new.op = me.op /\ new.pc = "check" /\ new.pass = me.pass /\ new.item = me.item
      /\ new.name = me.name /\ new.dbId = me.dbId
      /\ me.op = "table" => new.place = me.place
  BY <1>2, <1>3, <1>4 DEF ThreadT
<1>7. \A k : ListOf(new, k) = ListOf(me, k)
  BY <1>2, <1>6 DEF ListOf, Array
<1>8. CASE me.op = "create"
  <2>1. NewDb(me)
    BY <1>1, <1>8 DEF Knows
  <2>2. NewDb(new)
    BY <1>2, <1>6, <1>7, <2>1 DEF NewDb, Filling
  <2>3. Knows(new)
    BY <1>6, <1>8, <2>2 DEF Knows
  <2> QED BY <1>1, <1>2, <1>5, <1>6, <2>3, TablesLocal DEF Special
<1>9. CASE me.op = "table"
  <2>1. TableAt(me)
    BY <1>1, <1>9 DEF Knows
  <2>2. TableAt(new)
    BY <1>2, <1>6, <1>7, <1>9, <2>1 DEF TableAt, Seeking, Searching, Appending, Filling
  <2>3. Knows(new)
    BY <1>1, <1>6, <1>9, <2>2 DEF Knows, Searching
  <2> QED BY <1>1, <1>2, <1>5, <1>6, <2>3, TablesLocal DEF Special
<1> QED BY <1>2, <1>8, <1>9

LEMMA CheckCapacityKeepsTables ==
  ASSUME NEW kind \in Kind, TypedBy(kind), DbsInv, TablesInv, Alone', Apart',
         NEW t \in Thread, CheckCapacity(t)
  PROVE  TablesInv'
<1>1. PICK me \in ThreadT : me = thread[t] /\ Placed(me, kind) /\ Knows(me)
  BY DEF TypedBy, ThreadsTyped, TablesInv
<1>2. me.pc = "check" /\ me.op \in {"create", "table"}
  BY <1>1 DEF CheckCapacity, At, Placed, Searching, Appending, Filling
<1>3. PICK pc : pc = IF Vector(t).size >= Vector(t).capacity THEN "realloc" ELSE "copy"
  OBVIOUS
<1>4. PICK new : new = [me EXCEPT !.pc = pc]
  OBVIOUS
<1>5. /\ thread' = [thread EXCEPT ![t] = new]
      /\ UNCHANGED <<g_srDbCtrlManager, dbCtrlList, buffer, acked>>
  BY <1>1, <1>3, <1>4 DEF CheckCapacity, Goes, shared
<1>6. /\ new.op = me.op /\ new.pc = pc /\ new.pass = me.pass /\ new.item = me.item
      /\ new.name = me.name /\ new.dbId = me.dbId /\ new.place = me.place
      /\ pc \in {"realloc", "copy"}
  BY <1>3, <1>4 DEF ThreadT
<1>7. \A k : ListOf(new, k) = ListOf(me, k)
  BY <1>2, <1>6 DEF ListOf, Array
<1>8. CASE me.op = "create"
  <2>1. NewDb(me)
    BY <1>1, <1>8 DEF Knows
  <2>2. NewDb(new)
    BY <1>2, <1>6, <1>7, <2>1 DEF NewDb, Filling
  <2>3. Knows(new)
    BY <1>6, <1>8, <2>2 DEF Knows
  <2> QED BY <1>1, <1>2, <1>5, <1>6, <2>3, TablesLocal DEF Special
<1>9. CASE me.op = "table"
  <2>1. TableAt(me)
    BY <1>1, <1>9 DEF Knows
  <2>2. PICK k : k = me.place.index
    OBVIOUS
  <2>3. PICK v \in [data : Of(kind, "tables"), size : Int, capacity : Nat] :
          v = ListOf(me, k) /\ v = buffer[D.data][k].list /\ Whole(v)
          /\ me.place.data = D.data
    BY <1>1, <1>2, <1>9, <2>2, TableList DEF Searching, Appending, Filling
  <2>4. Vector(t) = v
    <3>1. InItem(me.place, kind, "dbs")
      BY <1>1, <1>2, <1>9 DEF Placed, Searching, Appending, Filling
    <3> QED BY <1>1, <2>2, <2>3, <3>1, VectorTyped DEF Vector
  <2>5. /\ pc = "realloc" => v.size = v.capacity
        /\ pc = "copy" => v.size < v.capacity
    <3>1. v.size \in Nat /\ v.capacity \in Nat /\ v.size <= v.capacity
      BY <2>3 DEF Whole
    <3> QED BY <1>3, <2>4, <3>1
  <2>6. /\ Vectors /\ me.place.data = D.data /\ k \in 1 .. D.size
        /\ buffer[D.data][k].id = me.dbId
        /\ \A j \in 1 .. v.size : buffer[v.data][j].name # me.name
        /\ me.item.name = me.name /\ me.item.dbId = me.dbId
    BY <1>2, <2>1, <2>2, <2>3 DEF TableAt, Seeking, Searching, Appending, Filling
  <2>7. ListOf(new, k) = v
    BY <1>7, <2>3
  <2>8. TableAt(new)
    <3>1. new.place.data = D.data /\ new.place.index = k /\ new.pc \notin Searching \cup {"size"}
      BY <1>6, <2>2, <2>3 DEF Searching
    <3>2. new.pc = "realloc" => v.size = buffer[D.data][k].list.capacity
      BY <1>6, <2>3, <2>5
    <3> HIDE DEF D
    <3> QED BY <1>6, <2>5, <2>6, <2>7, <3>1, <3>2 DEF TableAt, Seeking, Searching
  <2>9. Knows(new)
    BY <1>1, <1>6, <1>9, <2>8 DEF Knows, Searching
  <2> QED BY <1>1, <1>2, <1>5, <1>6, <2>9, TablesLocal DEF Special
<1> QED BY <1>2, <1>8, <1>9

LEMMA LoadGenNumKeepsTables ==
  ASSUME NEW kind \in Kind, TypedBy(kind), DbsInv, TablesInv, Alone', Apart',
         NEW t \in Thread, LoadGenNum(t)
  PROVE  TablesInv'
<1>1. PICK me \in ThreadT : me = thread[t] /\ Placed(me, kind) /\ Knows(me)
  BY DEF TypedBy, ThreadsTyped, TablesInv
<1>2. me.pc = "load" /\ me.op \in {"create", "table"}
  BY <1>1 DEF LoadGenNum, At, Placed, Appending
<1>3. CASE me.op = "create"
  <2>1. PICK c \in Buffer : c = UnusedBuffer /\ kind[c] = "none"
    BY UnusedIsNone DEF LoadGenNum
  <2>2. PICK item : item = [name |-> me.name, id |-> g_dbGenNum, list |-> NewVector(c)]
    OBVIOUS
  <2>3. PICK new : new = [me EXCEPT !.pc = "store", !.num = g_dbGenNum, !.item = item]
    OBVIOUS
  <2>4. /\ thread' = [thread EXCEPT ![t] = new]
        /\ buffer' = [buffer EXCEPT ![c] = NewItems]
        /\ UNCHANGED <<g_srDbCtrlManager, dbCtrlList, acked>>
    BY <1>1, <1>3, <2>1, <2>2, <2>3 DEF LoadGenNum
  <2>5. new.op = "create" /\ new.pc = "store" /\ new.item = item
    BY <1>3, <2>3 DEF ThreadT
  <2>6. \A b \in Buffer : b # c => buffer'[b] = buffer[b]
    BY <2>4 DEF TypedBy
  <2>7. TablesLeft(kind)
    <3>1. \A b \in Of(kind, "dbs") \cup Of(kind, "tables") : buffer'[b] = buffer[b]
      BY <2>1, <2>6 DEF Of
    <3>2. \A b \in Of(kind, "tables") : IsArray(b) => SameTables(b)
      BY <3>1 DEF SameTables, IsArray
    <3> QED BY <2>4, <3>1, <3>2 DEF TablesLeft
  <2>8. item.list = NewVector(c)
    BY <2>2
  <2>9. Whole(NewVector(c))' /\ NewVector(c).size = 0 /\ NewVector(c).data = c
    <3>1. /\ NewItems \in Seq(DbItem \cup LabelItem \cup {Garbage})
          /\ Len(NewItems) = DB_VECTOR_INIT_CAPACITY
      <4>1. NewItems \in [1 .. DB_VECTOR_INIT_CAPACITY ->
                            DbItem \cup LabelItem \cup {Garbage}]
        BY DEF NewItems
      <4> QED BY <4>1, SimpleRelThreadsAssumption
    <3>2. buffer'[c] = NewItems
      BY <2>4 DEF TypedBy
    <3>3. IsArray(c)'
      BY <3>1, <3>2, SimpleRelThreadsAssumption DEF IsArray
    <3>4. /\ NewVector(c).data = c /\ NewVector(c).size = 0
          /\ NewVector(c).capacity = DB_VECTOR_INIT_CAPACITY
      BY DEF NewVector
    <3> QED BY <3>1, <3>2, <3>3, <3>4, SimpleRelThreadsAssumption DEF Whole
  <2>10. D' = D
    BY <2>4 DEF D
  <2>11. \A k \in 1 .. D.size : ListOf(new, k)'.data # c
    <3> TAKE k \in 1 .. D.size
    <3>1. D.data \in Of(kind, "dbs") /\ DbsIn(D.data, D.capacity, 0) /\ D.capacity \in Nat
      BY <1>1, <1>2, <1>3, MakerHas DEF Maker
    <3>2. PICK b \in Of(kind, "dbs") : b = D.data
      BY <3>1
    <3>3. PICK room \in Int : room = D.capacity
      BY <3>1
    <3>4. buffer[b][k] \in DbT(kind)
      BY <3>1, <3>2, <3>3, DbsInRange
    <3>5. buffer[b][k].list.data \in Of(kind, "tables")
      BY <3>4 DEF DbT
    <3>6. buffer'[b] = buffer[b]
      BY <2>7 DEF TablesLeft
    <3>7. ListOf(new, k)' = buffer[b][k].list
      BY <2>5, <2>10, <3>2, <3>6 DEF ListOf, Array
    <3> QED BY <2>1, <3>5, <3>7 DEF Of
  <2>12. NewDb(new)'
    BY <2>5, <2>8, <2>9, <2>10, <2>11 DEF NewDb
  <2>13. Knows(new)'
    BY <2>5, <2>12 DEF Knows
  <2> QED BY <1>1, <1>2, <2>4, <2>5, <2>7, <2>13, TablesQuiet DEF Special
<1>4. CASE me.op = "table"
  <2>1. PICK item : item = [name |-> me.name, id |-> g_dbGenNum, dbId |-> me.dbId,
                            rowCnt |-> 0]
    OBVIOUS
  <2>2. PICK new : new = [me EXCEPT !.pc = "store", !.num = g_dbGenNum, !.item = item]
    OBVIOUS
  <2>3. /\ thread' = [thread EXCEPT ![t] = new]
        /\ UNCHANGED <<g_srDbCtrlManager, dbCtrlList, buffer, acked>>
    BY <1>1, <1>4, <2>1, <2>2 DEF LoadGenNum
  <2>4. /\ new.op = "table" /\ new.pc = "store" /\ new.item = item /\ new.pass = me.pass
        /\ new.name = me.name /\ new.dbId = me.dbId /\ new.place = me.place
        /\ item.name = me.name /\ item.dbId = me.dbId
    BY <1>4, <2>1, <2>2 DEF ThreadT
  <2>5. \A k : ListOf(new, k) = ListOf(me, k)
    BY <1>2, <2>4 DEF ListOf, Array
  <2>6. TableAt(me)
    BY <1>1, <1>4 DEF Knows
  <2>7. TableAt(new)
    BY <1>2, <2>4, <2>5, <2>6 DEF TableAt, Seeking, Searching, Appending, Filling
  <2>8. Knows(new)
    BY <1>1, <1>4, <2>4, <2>7 DEF Knows, Searching
  <2> QED BY <1>1, <1>2, <2>3, <2>4, <2>8, TablesLocal DEF Special
<1> QED BY <1>2, <1>3, <1>4

LEMMA ReadRowCntKeepsTables ==
  ASSUME NEW kind \in Kind, TypedBy(kind), DbsInv, TablesInv, Alone', Apart',
         NEW t \in Thread, ReadRowCnt(t)
  PROVE  TablesInv'
<1>1. PICK me \in ThreadT : me = thread[t] /\ Placed(me, kind) /\ Knows(me)
  BY DEF TypedBy, ThreadsTyped, TablesInv
<1>2. me.pc = "row" /\ me.op = "insert"
  BY <1>1 DEF ReadRowCnt, At, Placed
<1>3. PICK num : num = buffer[me.place.data][me.place.index].rowCnt
  OBVIOUS
<1>4. PICK new : new = [me EXCEPT !.pc = "count", !.num = num]
  OBVIOUS
<1>5. /\ thread' = [thread EXCEPT ![t] = new]
      /\ UNCHANGED <<g_srDbCtrlManager, dbCtrlList, buffer, acked>>
  BY <1>1, <1>3, <1>4 DEF ReadRowCnt, shared
<1>6. new.op = "insert" /\ new.pc = "count" /\ new.place = me.place /\ new.pass = me.pass
  BY <1>2, <1>4 DEF ThreadT
<1>7. Knows(new)
  BY <1>1, <1>2, <1>6 DEF Knows, RowAt, Searching
<1> QED BY <1>1, <1>2, <1>5, <1>6, <1>7, TablesLocal DEF Special

LEMMA WriteRowCntKeepsTables ==
  ASSUME NEW kind \in Kind, TypedBy(kind), DbsInv, TablesInv, Alone', Apart',
         NEW t \in Thread, WriteRowCnt(t)
  PROVE  TablesInv'
<1>1. PICK me \in ThreadT : me = thread[t] /\ Placed(me, kind) /\ Knows(me)
  BY DEF TypedBy, ThreadsTyped, TablesInv
<1>2. /\ me.pc = "count" /\ me.op = "insert" /\ IsItem(me.place.data, me.place.index)
      /\ InItem(me.place, kind, "tables")
  BY <1>1 DEF WriteRowCnt, At, Placed
<1>3. PICK k \in {"dbs", "tables"} : k = "tables"
  OBVIOUS
<1>4. PICK d \in Of(kind, k) : d = me.place.data
  BY <1>2, <1>3 DEF InItem
<1>5. PICK i : i = me.place.index
  OBVIOUS
<1>6. /\ buffer[d][i] \in LabelItem /\ i \in DOMAIN buffer[d] /\ IsArray(d)
      /\ DOMAIN buffer[d] = 1 .. Len(buffer[d])
  BY <1>2, <1>3, <1>4, <1>5, ItemAt, ArrayAt DEF IsItem
<1>7. PICK item : item = [buffer[d][i] EXCEPT !.rowCnt = me.num + 1]
  OBVIOUS
<1>8. item \in LabelItem
  <2>1. PICK n \in Nat : n = me.num + 1
    BY DEF ThreadT
  <2>2. PICK old \in LabelItem : old = buffer[d][i]
    BY <1>6
  <2>3. item = [old EXCEPT !.rowCnt = n]
    BY <1>7, <2>1, <2>2
  <2> QED BY <2>3 DEF LabelItem
<1>9. /\ item.name = buffer[d][i].name /\ item.id = buffer[d][i].id
      /\ item.dbId = buffer[d][i].dbId /\ item # Garbage
  BY <1>6, <1>7, <1>8, SimpleRelThreadsAssumption DEF LabelItem
<1>10. /\ buffer' = [buffer EXCEPT ![d] = [buffer[d] EXCEPT ![i] = item]]
       /\ thread' = [thread EXCEPT ![t] = Idle]
       /\ UNCHANGED <<g_srDbCtrlManager, dbCtrlList>>
       /\ acked' = [acked EXCEPT !.rows[me.labelId] = @ + 1]
  BY <1>1, <1>4, <1>5, <1>7 DEF WriteRowCnt, Answers
<1>11. /\ buffer'[d] = [buffer[d] EXCEPT ![i] = item]
       /\ Len(buffer'[d]) = Len(buffer[d]) /\ IsArray(d)'
       /\ \A j \in DOMAIN buffer[d] : buffer'[d][j] = IF j = i THEN item ELSE buffer[d][j]
       /\ \A c \in Buffer : c # d => buffer'[c] = buffer[c]
  <2>1. item \in ItemT(kind, k) \cup {Garbage}
    BY <1>3, <1>8 DEF ItemT
  <2>2. /\ IsArray(d) /\ i \in DOMAIN buffer[d]
        /\ buffer' = [buffer EXCEPT ![d] = [buffer[d] EXCEPT ![i] = item]]
    BY <1>6, <1>10
  <2>3. IsArray(d)'
    BY <2>1, <2>2, WrittenTyped
  <2>4. Len(buffer'[d]) = Len(buffer[d])
    BY <2>1, <2>2, WrittenTyped
  <2>5. d \in Buffer /\ buffer \in [Buffer -> {buffer[b] : b \in Buffer}]
    BY DEF Of, TypedBy
  <2>6. /\ buffer'[d] = [buffer[d] EXCEPT ![i] = item]
        /\ \A c \in Buffer : c # d => buffer'[c] = buffer[c]
    BY <1>10, <2>5
  <2> QED BY <2>3, <2>4, <2>6
<1>12. TablesLeft(kind)
  <2>1. \A b \in Of(kind, "dbs") : b # d /\ b \in Buffer
    BY <1>3 DEF Of
  <2>2. SameTables(d)
    BY <1>6, <1>9, <1>11 DEF SameTables
  <2>3. ASSUME NEW b \in Of(kind, "tables"), IsArray(b), b # d PROVE SameTables(b)
    BY <1>11, <2>3 DEF Of, SameTables, IsArray
  <2>4. acked'.tables = acked.tables
    BY <1>10 DEF TypedBy, RestTyped
  <2> QED BY <1>10, <1>11, <2>1, <2>2, <2>3, <2>4 DEF TablesLeft
<1>13. Knows(Idle)'
  BY DEF Knows, Idle
<1> QED BY <1>1, <1>2, <1>10, <1>12, <1>13, IdleKnows, TablesQuiet DEF Special

-----------------------------------------------------------------------------
(* Steps that change the tables, or where they are.                        *)

\* Requests that make or drop what tables lie in do not meet.
LEMMA NobodyElse ==
  ASSUME NEW kind \in Kind, TypedBy(kind), DbsInv, TablesInv, NEW t \in Thread,
         thread[t].op \in {"create", "drop", "table"}
  PROVE  /\ \A u \in Thread : u # t => ~ Special(thread[u])
         /\ Standing = {IF Special(thread[t]) THEN thread[t] ELSE Idle}
<1>1. ASSUME NEW u \in Thread, u # t, Special(thread[u]) PROVE FALSE
  <2>1. thread[u].op # "none"
    BY <1>1 DEF TypedBy, ThreadsTyped, Begun, Special
  <2>2. CASE thread[u].pc = "setData"
    BY <1>1, <2>2 DEF TablesInv, Alone
  <2>3. CASE thread[u].pc = "move"
    <3>1. thread[u].op = "drop"
      BY <2>3 DEF TypedBy, ThreadsTyped, Placed
    <3> QED BY <1>1, <3>1 DEF DbsInv, OneMaker, Maker, TablesInv, Apart
  <2> QED BY <1>1, <2>2, <2>3 DEF Special
<1>2. CASE Special(thread[t])
  <2>1. Standing = {thread[t]}
    BY <1>2, StandingIs DEF TablesInv
  <2> QED BY <1>1, <1>2, <2>1
<1>3. CASE ~ Special(thread[t])
  <2>1. Standing = {Idle}
    BY <1>1, <1>3, StandingIs DEF TablesInv
  <2> QED BY <1>1, <1>3, <2>1
<1> QED BY <1>2, <1>3

LEMMA StandingAfter ==
  ASSUME thread \in [Thread -> ThreadT], NEW t \in Thread, NEW new,
         thread' = [thread EXCEPT ![t] = new],
         \A u \in Thread : u # t => ~ Special(thread[u])
  PROVE  Standing' = {IF Special(new) THEN new ELSE Idle}
<1>1. \A u \in Thread : thread'[u] = IF u = t THEN new ELSE thread[u]
  OBVIOUS
<1>2. CASE Special(new)
  <2>1. {u \in Thread : Special(thread'[u])} = {t}
    BY <1>1, <1>2
  <2>2. \E u \in Thread : Special(thread'[u])
    BY <1>1, <1>2
  <2>3. Standing' = {thread'[u] : u \in {w \in Thread : Special(thread'[w])}}
    BY <2>2 DEF Standing
  <2> QED BY <1>1, <1>2, <2>1, <2>3
<1>3. CASE ~ Special(new)
  BY <1>1, <1>3 DEF Standing
<1> QED BY <1>2, <1>3

LEMMA TablesStep ==
  ASSUME NEW kind \in Kind, TypedBy(kind), DbsInv, TablesInv, Alone', Apart',
         NEW t \in Thread, thread[t].op \in {"create", "drop", "table"},
         NEW new, thread' = [thread EXCEPT ![t] = new], new.pc # "wild",
         ~ Vectors' => acked'.tables = {},
         Vectors' => TablesAs(IF Special(new) THEN new ELSE Idle)',
         Knows(new)',
         \A u \in Thread : \A me \in ThreadT : u # t /\ me = thread[u] => Knows(me)'
  PROVE  TablesInv'
<1>1. thread \in [Thread -> ThreadT]
  BY DEF TypedBy, ThreadsTyped
<1>2. Sane'
  BY <1>1 DEF TablesInv, Sane
<1>3. \A u \in Thread : u # t => ~ Special(thread[u])
  BY NobodyElse
<1>4. Standing' = {IF Special(new) THEN new ELSE Idle}
  BY <1>1, <1>3, StandingAfter
<1>5. Tables'
  BY <1>4 DEF Tables
<1>6. ASSUME NEW u \in Thread PROVE Knows(thread[u])'
  <2>1. PICK me : me = thread'[u]
    OBVIOUS
  <2>2. Knows(me)'
    BY <1>1, <2>1
  <2> QED BY <2>1, <2>2
<1> QED BY <1>2, <1>5, <1>6 DEF TablesInv

LEMMA PublishKeepsTables ==
  ASSUME NEW kind \in Kind, TypedBy(kind), DbsInv, TablesInv, Alone', Apart',
         NEW t \in Thread, Publish(t)
  PROVE  TablesInv'
<1>1. PICK me \in ThreadT : me = thread[t] /\ Placed(me, kind)
  BY DEF TypedBy, ThreadsTyped
<1>2. me.pc = "publish" /\ me.op \in {"create", "drop"}
  BY <1>1 DEF Publish, At, Placed
<1>3. PICK new : new = [me EXCEPT !.pc = "initVector"]
  OBVIOUS
<1>4. thread' = [thread EXCEPT ![t] = new] /\ UNCHANGED <<buffer, acked>>
  BY <1>1, <1>3 DEF Publish, Goes
<1>5. new.op = me.op /\ new.pc = "initVector"
  BY <1>3 DEF ThreadT
<1>6. g_srDbCtrlManager = NULL
  BY <1>1, <1>2 DEF DbsInv, Maker, Making
<1>7. ~ Vectors /\ acked.tables = {}
  BY <1>6 DEF Vectors, TablesInv, Tables
<1>8. ~ Vectors'
  BY <1>4, <1>5 DEF Vectors, TypedBy, ThreadsTyped
<1>9. ASSUME NEW u \in Thread, NEW you \in ThreadT, u # t, you = thread[u]
      PROVE  Knows(you)'
  <2>1. Knows(you) /\ ~ Maker(you)
    BY <1>1, <1>2, <1>9 DEF TablesInv, DbsInv, OneMaker, Maker
  <2>2. ~ (you.op \in {"table", "insert"} /\ you.pc \in Searching /\ you.pass = 1)
    BY <1>6, <2>1 DEF Knows
  <2>3. you.op = "table" => TableAt(you)'
    BY <1>7, <2>1 DEF Knows, TableAt
  <2>4. you.op = "insert" => RowAt(you)'
    BY <1>4, <2>1, <2>2 DEF Knows, RowAt, WholeAt, IsItem, IsArray, Whole, Searching
  <2> QED BY <2>1, <2>2, <2>3, <2>4 DEF Knows, Maker
<1>10. Knows(new)'
  BY <1>2, <1>5 DEF Knows, NewDb, Filling
<1> QED BY <1>1, <1>2, <1>4, <1>5, <1>7, <1>8, <1>9, <1>10, TablesStep

\* Items that are there stay, and so do vectors that are whole.
RowsLeft(kind) ==
  /\ \A b \in Of(kind, "dbs") : \A i : IsItem(b, i) /\ Whole(buffer[b][i].list) =>
       IsItem(b, i)' /\ Whole(buffer[b][i].list)'
  /\ \A b \in Of(kind, "tables") : \A i : IsItem(b, i) => IsItem(b, i)'

\* A request for a row that has read the size of its database's vector is not
\* behind the end of that vector.
StillReads(me) ==
  me.op = "insert" /\ me.pc = "data" /\ me.pass = 2 =>
    me.i <= buffer'[me.place.data][me.place.index].list.size

LEMMA ReadingAt ==
  ASSUME NEW kind \in Kind, TypedBy(kind), NEW me \in ThreadT, Placed(me, kind), Knows(me),
         me.op = "insert", me.pc = "data", me.pass = 2
  PROVE  /\ me.place \in [data : Of(kind, "dbs"), index : Nat \ {0}]
         /\ IsItem(me.place.data, me.place.index)
         /\ me.i <= buffer[me.place.data][me.place.index].list.size
<1>1. PICK place \in [data : {NULL} \cup Of(kind, "dbs"), index : Nat \ {0}] :
        /\ place = me.place /\ WholeAt(place)
        /\ me.i <= buffer[place.data][place.index].list.size
  BY DEF Knows, RowAt, Placed, Sought, InItem, Searching
<1>2. place.data \in Of(kind, "dbs") /\ IsItem(place.data, place.index)
  BY <1>1, WholeAtIs DEF InItem
<1> QED BY <1>1, <1>2

LEMMA ReadsElsewhere ==
  ASSUME NEW kind \in Kind, TypedBy(kind), NEW b \in Of(kind, "dbs"), NEW i,
         "lists" \notin Meets(b, i),
         \A c \in Of(kind, "dbs") : c # b => buffer'[c] = buffer[c],
         \A j \in DOMAIN buffer[b] : j # i => buffer'[b][j] = buffer[b][j],
         NEW u \in Thread, NEW me \in ThreadT, me = thread[u], Placed(me, kind), Knows(me)
  PROVE  StillReads(me)
<1> SUFFICES ASSUME me.op = "insert", me.pc = "data", me.pass = 2 PROVE StillReads(me)
  BY DEF StillReads
<1>1. PICK place \in [data : Of(kind, "dbs"), index : Nat \ {0}] :
        /\ place = me.place /\ IsItem(place.data, place.index)
        /\ me.i <= buffer[place.data][place.index].list.size
  BY ReadingAt
<1>2. place # [data |-> b, index |-> i]
  BY <1>1 DEF Meets
<1>3. place.data # b \/ place.index # i
  BY <1>2
<1>4. buffer'[place.data][place.index] = buffer[place.data][place.index]
  BY <1>1, <1>3 DEF IsItem
<1> QED BY <1>1, <1>4 DEF StillReads

LEMMA RowAtLeft ==
  ASSUME NEW kind \in Kind, TypedBy(kind), RowsLeft(kind), NEW me \in ThreadT, me.op = "insert",
         Placed(me, kind), Knows(me), StillReads(me), IsArray(D.data) => D'.data = D.data
  PROVE  RowAt(me)'
<1>1. RowAt(me)
  BY DEF Knows
<1>2. ASSUME NEW place \in [data : {NULL} \cup Of(kind, "dbs"), index : Nat \ {0}],
             WholeAt(place)
      PROVE  WholeAt(place)' /\ IsArray(place.data)
  <2>1. InItem(place, kind, "dbs") /\ IsItem(place.data, place.index)
    BY <1>2, WholeAtIs
  <2> QED BY <1>2, <2>1 DEF WholeAt, RowsLeft, InItem, IsItem
<1>3. ASSUME NEW place \in [data : {NULL} \cup Of(kind, "tables"), index : Nat],
             IsItem(place.data, place.index)
      PROVE  IsItem(place.data, place.index)'
  <2>1. place.data \in Of(kind, "tables")
    BY <1>3, SimpleRelThreadsAssumption DEF IsItem, IsArray
  <2> QED BY <1>3, <2>1 DEF RowsLeft
<1>4. ASSUME me.pc \in Searching, me.pass = 2 PROVE WholeAt(me.place)'
  <2>1. PICK place \in [data : {NULL} \cup Of(kind, "dbs"), index : Nat \ {0}] :
          place = me.place /\ WholeAt(place)
    BY <1>1, <1>4 DEF RowAt, Placed, Sought, InItem
  <2> QED BY <1>2, <2>1
<1>5. ASSUME me.pc = "item", me.pass = 2 PROVE IsItem(me.found.data, me.found.index)'
  <2>1. PICK place \in [data : {NULL} \cup Of(kind, "tables"), index : Nat] :
          place = me.found /\ IsItem(place.data, place.index)
    BY <1>1, <1>5 DEF RowAt, Placed, Sought, Searching
  <2> QED BY <1>3, <2>1
<1>6. ASSUME me.pc = "data", me.pass = 1 PROVE WholeAt([data |-> D.data, index |-> me.i])'
  <2>1. PICK place : place = [data |-> D.data, index |-> me.i]
    OBVIOUS
  <2>2. WholeAt(place) /\ g_srDbCtrlManager # NULL
    BY <1>1, <1>6, <2>1 DEF Knows, RowAt, Searching
  <2>3. D.data \in {NULL} \cup Of(kind, "dbs")
    BY <2>2, DTyped DEF ManagerT
  <2>4. place \in [data : {NULL} \cup Of(kind, "dbs"), index : Nat \ {0}]
    BY <2>1, <2>3 DEF ThreadT
  <2>5. WholeAt(place)' /\ IsArray(place.data)
    BY <1>2, <2>2, <2>4
  <2>6. D'.data = D.data
    BY <2>1, <2>5
  <2>7. place = [data |-> D'.data, index |-> me.i]
    BY <2>1, <2>6
  <2> QED BY <2>5, <2>7
<1>7. ASSUME me.pc = "item", me.pass = 1 PROVE WholeAt(me.found)'
  <2>1. PICK place \in [data : {NULL} \cup Of(kind, "dbs"), index : Nat \ {0}] :
          place = me.found /\ WholeAt(place)
    BY <1>1, <1>7 DEF RowAt, Placed, Sought, Searching
  <2> QED BY <1>2, <2>1
<1>8. ASSUME me.pc \in {"row", "count"} PROVE IsItem(me.place.data, me.place.index)'
  <2>1. PICK place \in [data : {NULL} \cup Of(kind, "tables"), index : Nat] :
          place = me.place /\ IsItem(place.data, place.index)
    BY <1>1, <1>8 DEF RowAt, Placed, InItem
  <2> QED BY <1>3, <2>1
<1> QED BY <1>4, <1>5, <1>6, <1>7, <1>8 DEF RowAt, StillReads

LEMMA InitVectorKeepsTables ==
  ASSUME NEW kind \in Kind, TypedBy(kind), DbsInv, TablesInv, Alone', Apart',
         NEW t \in Thread, InitVector(t)
  PROVE  TablesInv'
<1>1. PICK me \in ThreadT : me = thread[t] /\ Placed(me, kind)
  BY DEF TypedBy, ThreadsTyped
<1>2. me.pc = "initVector" /\ me.op \in {"create", "drop"} /\ g_srDbCtrlManager # NULL
  BY <1>1 DEF InitVector, At, Placed
<1>3. PICK new : new = [me EXCEPT !.pc = "search", !.place = TheManager, !.i = 1]
  OBVIOUS
<1>4. /\ thread' = [thread EXCEPT ![t] = new] /\ UNCHANGED <<g_srDbCtrlManager, acked>>
      /\ dbCtrlList' = [dbCtrlList EXCEPT ![g_srDbCtrlManager] = NewVector(UnusedBuffer)]
      /\ buffer' = [buffer EXCEPT ![UnusedBuffer] = NewItems]
  BY <1>1, <1>3 DEF InitVector, Searches
<1>5. new.op = me.op /\ new.pc = "search"
  BY <1>3 DEF ThreadT
<1>6. ~ Vectors /\ acked.tables = {}
  BY <1>1, <1>2 DEF Vectors, TablesInv, Tables
<1>7. PICK c \in Buffer : c = UnusedBuffer /\ kind[c] = "none"
  BY UnusedIsNone DEF InitVector
<1>8. \A b \in Of(kind, "dbs") \cup Of(kind, "tables") : buffer'[b] = buffer[b]
  BY <1>4, <1>7 DEF TypedBy, Of
<1>9. D'.size = 0
  <2>1. D' = NewVector(c)
    BY <1>2, <1>4, <1>7 DEF D, TypedBy, ManagersTyped
  <2> QED BY <2>1 DEF NewVector
<1>10. TheManager' = TheManager
  BY <1>4 DEF TheManager
<1>11. RowsLeft(kind)
  <2>1. ASSUME NEW b \in Of(kind, "dbs"), NEW i, IsItem(b, i), Whole(buffer[b][i].list)
        PROVE  IsItem(b, i)' /\ Whole(buffer[b][i].list)'
    <3>1. PICK k \in {"dbs", "tables"} : k = "dbs"
      OBVIOUS
    <3>2. b \in Of(kind, k)
      BY <3>1
    <3>3. PICK v \in [data : Of(kind, "tables"), size : Int, capacity : Nat] :
            v = buffer[b][i].list
      BY <2>1, <3>1, <3>2, ItemAt
    <3>4. Whole(v)'
      BY <1>8, <2>1, <3>3 DEF Whole, IsArray
    <3>5. buffer'[b] = buffer[b]
      BY <1>8
    <3> QED BY <2>1, <3>3, <3>4, <3>5 DEF IsItem, IsArray
  <2>2. ASSUME NEW b \in Of(kind, "tables"), NEW i, IsItem(b, i) PROVE IsItem(b, i)'
    BY <1>8, <2>2 DEF IsItem, IsArray
  <2> QED BY <2>1, <2>2 DEF RowsLeft
<1>12. ASSUME NEW u \in Thread, NEW you \in ThreadT, u # t, you = thread[u]
       PROVE  Knows(you)'
  <2>1. Knows(you) /\ ~ Maker(you) /\ Placed(you, kind)
    BY <1>1, <1>2, <1>12 DEF TablesInv, DbsInv, OneMaker, Maker, TypedBy, ThreadsTyped
  <2>2. you.op = "table" => TableAt(you)'
    BY <1>6, <2>1 DEF Knows, TableAt
  <2>3. you.op = "insert" => RowAt(you)'
    <3>1. StillReads(you)
      BY <1>8, <2>1, ReadingAt DEF StillReads
    <3>2. D.data = NULL
      BY <1>1, <1>2 DEF DbsInv, Maker, Making
    <3>3. ~ IsArray(D.data)
      BY <3>2, SimpleRelThreadsAssumption DEF IsArray
    <3> QED BY <1>11, <2>1, <3>1, <3>3, RowAtLeft
  <2>4. you.op = "table" /\ you.pc \in Searching /\ you.pass = 1 => Seeking(you, D)'
    <3>1. D.size = 0 /\ ~ you.i <= 0
      BY <1>1, <1>2 DEF DbsInv, Maker, Making, ThreadT
    <3>2. you.op = "table" /\ you.pc \in Searching /\ you.pass = 1 => Seeking(you, D)
      BY <2>1 DEF Knows
    <3> QED BY <3>1, <3>2 DEF Seeking
  <2> QED BY <1>4, <1>10, <2>1, <2>2, <2>3, <2>4 DEF Knows, Maker
<1>13. Knows(new)'
  BY <1>2, <1>5 DEF Knows, NewDb, Filling
<1>14. TablesAs(Idle)'
  <2>1. PICK b : b = Array(Idle)'
    OBVIOUS
  <2>2. PICK list : list = Lists(Idle)'
    OBVIOUS
  <2>3. TablesIn(b, 0, list)'
    BY <1>4, <1>6, <1>9 DEF TablesIn
  <2>4. Hole(Idle)' = 0
    BY DEF Hole, Idle
  <2> QED BY <2>1, <2>2, <2>3, <2>4 DEF TablesAs
<1>15. ~ Special(new)
  BY <1>5 DEF Special
<1> QED BY <1>1, <1>2, <1>4, <1>5, <1>6, <1>12, <1>13, <1>14, <1>15, TablesStep

LEMMA DropIsSureKeepsTables ==
  ASSUME NEW kind \in Kind, TypedBy(kind), DbsInv, TablesInv, Alone', Apart',
         NEW t \in Thread, DropIsSure(t)
  PROVE  TablesInv'
<1>1. PICK me \in ThreadT : me = thread[t] /\ Placed(me, kind)
  BY DEF TypedBy, ThreadsTyped
<1>2. me.pc = "item" /\ me.op = "drop" /\ Maker(me)
  BY <1>1 DEF DropIsSure, ToRemove, Hit, ItemFound, At, Maker
<1>3. PICK i \in Nat \ {0} : i = me.i
  BY DEF ThreadT
<1>4. PICK new : new = [me EXCEPT !.pc = "move", !.found = NULL, !.num = VectorAt(me.place).size]
  OBVIOUS
<1>5. /\ thread' = [thread EXCEPT ![t] = new]
      /\ UNCHANGED <<g_srDbCtrlManager, dbCtrlList, buffer>>
  BY <1>1, <1>4 DEF DropIsSure, shared
<1>6. new.op = "drop" /\ new.pc = "move" /\ new.i = i /\ new.place = me.place
  BY <1>2, <1>3, <1>4 DEF ThreadT
<1>7. g_srDbCtrlManager # NULL /\ VectorAt(me.place) = D
      /\ D.data \in Of(kind, "dbs") /\ D.capacity \in Nat /\ D.size \in Nat
      /\ DbsIn(D.data, D.capacity, 0)
  BY <1>1, <1>2, MakerHas DEF Vector
<1>8. i \in 1 .. D.size /\ buffer[D.data][i].name = me.name
  <2>1. i <= D.size /\ me.found = [data |-> D.data, index |-> i]
    BY <1>1, <1>2, <1>3, MakerHas DEF Seeking
  <2>2. buffer[D.data][i].name = me.name
    BY <1>1, <1>2, <2>1 DEF DropIsSure, ToRemove, Hit, Matches
  <2> QED BY <1>7, <2>1, <2>2
<1>9. Vectors /\ (Vectors => Vectors')
  <2>1. \A u \in Thread : thread[u].pc # "initVector"
    <3> SUFFICES ASSUME NEW u \in Thread, thread[u].pc = "initVector" PROVE FALSE
      OBVIOUS
    <3>1. Maker(thread[u])
      BY DEF TypedBy, ThreadsTyped, Placed, Maker
    <3> QED BY <1>1, <1>2, <3>1 DEF DbsInv, OneMaker
  <2>2. \A u \in Thread : thread'[u].pc # "initVector"
    BY <1>5, <1>6, <2>1 DEF TypedBy, ThreadsTyped
  <2> QED BY <1>5, <1>7, <2>1, <2>2 DEF Vectors
<1>10. ASSUME NEW u \in Thread, NEW you \in ThreadT, u # t, you = thread[u]
       PROVE  Knows(you)'
  BY <1>5, <1>9, <1>10, KnowsSame DEF TablesInv
<1>11. Knows(new)'
  BY <1>6 DEF Knows
<1>12. TablesAs(Idle)
  <2>1. Standing = {Idle}
    BY <1>1, <1>2, NobodyElse DEF Special
  <2> QED BY <1>9, <2>1 DEF TablesInv, Tables
<1>13. PICK b : b = D.data
  OBVIOUS
<1>14. PICK list : list = Lists(Idle)
  OBVIOUS
<1>15. TablesIn(b, 0, list)
  BY <1>12, <1>13, <1>14 DEF TablesAs, Array, Hole, Idle
<1>16. /\ acked'.tables = {l \in acked.tables :
                             \A d \in acked.dbs : d.name = me.name => l.dbId # d.id}
  <2>1. PICK gone : gone = {d \in acked.dbs : d.name = me.name}
    OBVIOUS
  <2>2. acked' = [acked EXCEPT !.dbs = acked.dbs \ gone,
                               !.tables = {l \in acked.tables : \A d \in gone : l.dbId # d.id}]
    BY <1>1, <2>1 DEF DropIsSure
  <2>3. acked \in [dbs    : SUBSET [name : DbName, id : Id],
                   tables : SUBSET [dbId : Nat, id : Id],
                   rows   : [Id -> Nat]]
    BY DEF TypedBy, RestTyped
  <2>4. acked'.tables = {l \in acked.tables : \A d \in gone : l.dbId # d.id}
    BY <2>2, <2>3
  <2> QED BY <2>1, <2>4
<1>17. D' = D
  BY <1>5 DEF D
<1>18. TablesIn(b, i, list)'
  <2> HIDE DEF D
  <2>1. (1 .. D.size) \ {0} = 1 .. D.size
    BY <1>7
  <2>2. \A v : Whole(v)' <=> Whole(v)
    BY <1>5 DEF Whole, IsArray
  <2>3. \A k \in 1 .. D.size : Whole(list[k])
    BY <1>15 DEF TablesIn
  <2>4. \A k, n \in (1 .. D.size) \ {i} : list[k].data = list[n].data => k = n
    BY <1>15, <2>1 DEF TablesIn
  <2>5. \A k \in (1 .. D.size) \ {i} : \A j \in 1 .. list[k].size :
          /\ buffer[list[k].data][j].dbId = buffer[b][k].id
          /\ \A n \in 1 .. list[k].size :
               buffer[list[k].data][j].name = buffer[list[k].data][n].name => j = n
    BY <1>15, <2>1 DEF TablesIn
  <2>6. ASSUME NEW table \in acked'.tables
        PROVE  \E k \in (1 .. D.size) \ {i} :
                 /\ buffer[b][k].id = table.dbId
                 /\ \E j \in 1 .. list[k].size : buffer[list[k].data][j].id = table.id
    <3>1. table \in acked.tables
          /\ \A d \in acked.dbs : d.name = me.name => table.dbId # d.id
      BY <1>16, <2>6
    <3>2. PICK k \in 1 .. D.size :
            /\ buffer[b][k].id = table.dbId
            /\ \E j \in 1 .. list[k].size : buffer[list[k].data][j].id = table.id
      BY <1>15, <2>1, <3>1 DEF TablesIn
    <3>3. k # i
      <4>1. [name |-> buffer[b][i].name, id |-> buffer[b][i].id] \in acked.dbs
        BY <1>7, <1>8, <1>13, <2>1 DEF DbsIn
      <4>2. PICK d \in acked.dbs : d.name = buffer[b][i].name /\ d.id = buffer[b][i].id
        BY <4>1
      <4> QED BY <1>8, <1>13, <3>1, <3>2, <4>2
    <3> QED BY <3>2, <3>3
  <2> QED BY <1>5, <1>17, <2>2, <2>3, <2>4, <2>5, <2>6 DEF TablesIn
<1>19. TablesAs(new)'
  <2>1. Array(new)' = b /\ Hole(new)' = i
    BY <1>6, <1>13, <1>17 DEF Array, Hole
  <2>2. \A k : ListOf(new, k)' = ListOf(Idle, k)
    BY <1>5, <1>6, <1>17 DEF ListOf, Array, Idle
  <2>3. Lists(new)' = list
    BY <1>14, <1>17, <2>2 DEF Lists
  <2> QED BY <1>18, <2>1, <2>3 DEF TablesAs
<1>20. Special(new)
  BY <1>6 DEF Special
<1> QED BY <1>1, <1>2, <1>5, <1>6, <1>9, <1>10, <1>11, <1>19, <1>20, TablesStep

\* The tables, when nobody is in the middle of anything.
LEMMA TablesNow ==
  ASSUME NEW kind \in Kind, TypedBy(kind), DbsInv, TablesInv, Vectors, NEW t \in Thread,
         thread[t].op \in {"create", "drop", "table"}, ~ Special(thread[t])
  PROVE  /\ TablesIn(D.data, 0, Lists(Idle))
         /\ D.data \in Of(kind, "dbs") /\ D.data \in Buffer
         /\ (1 .. D.size) \ {0} = 1 .. D.size
         /\ \A k \in 1 .. D.size :
              /\ IsItem(D.data, k) /\ buffer[D.data][k] \in DbT(kind)
              /\ Lists(Idle)[k] = buffer[D.data][k].list
              /\ buffer[D.data][k].list
                   \in [data : Of(kind, "tables"), size : Int, capacity : Nat]
              /\ Whole(buffer[D.data][k].list)
<1>1. PICK me \in Standing : me = Idle
  BY NobodyElse
<1>2. Array(me) = D.data /\ Hole(me) = 0
  BY <1>1 DEF Array, Hole, Idle
<1>3. TablesIn(D.data, 0, Lists(me)) /\ D.data \in Of(kind, "dbs")
  BY <1>2, DbsAs DEF TablesInv, Tables, TablesAs
<1>4. ASSUME NEW k \in 1 .. D.size
      PROVE  /\ IsItem(D.data, k) /\ buffer[D.data][k] \in DbT(kind)
             /\ Lists(Idle)[k] = buffer[D.data][k].list
             /\ buffer[D.data][k].list
                  \in [data : Of(kind, "tables"), size : Int, capacity : Nat]
             /\ Whole(buffer[D.data][k].list)
  <2>1. ListOf(me, k) = buffer[D.data][k].list
    BY <1>1 DEF ListOf, Array, Idle
  <2>2. /\ IsItem(D.data, k) /\ buffer[D.data][k] \in DbT(kind)
        /\ Lists(me)[k] = ListOf(me, k)
        /\ ListOf(me, k) \in [data : Of(kind, "tables"), size : Int, capacity : Nat]
    BY <1>2, ListsTyped DEF TablesInv
  <2> QED BY <1>1, <1>3, <2>1, <2>2 DEF TablesIn
<1> QED BY <1>1, <1>3, <1>4 DEF Of

\* realloc: an array of twice the size, with the same items.
ReallocTo(num, t, kind, old, capacity) ==
  /\ num = old \/ kind[num] = "none"
  /\ thread' = [thread EXCEPT ![t].pc = "setData", ![t].num = num]
  /\ IsArray(num)' /\ Len(buffer'[num]) = 2 * capacity
  /\ \A j \in 1 .. capacity : buffer'[num][j] = buffer[old][j]
  /\ \A b \in Of(kind, "dbs") \cup Of(kind, "tables") : b # old => buffer'[b] = buffer[b]

LEMMA ReallocIs ==
  ASSUME NEW kind \in Kind, TypedBy(kind), NEW t \in Thread, Realloc(t),
         NEW k \in {"dbs", "tables"}, NEW old \in Of(kind, k), old = Vector(t).data,
         NEW capacity \in Nat, capacity = Vector(t).capacity,
         1 <= capacity, capacity <= Len(buffer[old])
  PROVE  IsArray(old) /\ \E num \in Buffer : ReallocTo(num, t, kind, old, capacity)
<1>1. IsArray(old)
  BY DEF Realloc
<1>2. DOMAIN buffer[old] = 1 .. Len(buffer[old]) /\ Len(buffer[old]) \in Nat
  BY <1>1, ArrayAt
<1>3. PICK n \in Nat : n = 2 * capacity
  OBVIOUS
<1>4. PICK more : more = [i \in 1 .. n |->
                            IF i \in DOMAIN buffer[old] THEN buffer[old][i] ELSE Garbage]
  OBVIOUS
<1>5. PICK S : S = DbItem \cup LabelItem \cup {Garbage}
  OBVIOUS
<1>6. more \in Seq(S) /\ Len(more) = n
  <2>1. ItemT(kind, k) \subseteq DbItem \cup LabelItem
    BY DEF ItemT, DbT, DbItem, Of
  <2>2. \A i \in DOMAIN buffer[old] : buffer[old][i] \in S
    BY <1>1, <1>5, <2>1, ArrayAt
  <2>3. more \in [1 .. n -> S]
    BY <1>4, <1>5, <2>2
  <2> QED BY <2>3
<1>7. \A j \in 1 .. capacity : more[j] = buffer[old][j]
  <2> TAKE j \in 1 .. capacity
  <2>1. j \in 1 .. n /\ j \in DOMAIN buffer[old]
    BY <1>2, <1>3
  <2> QED BY <1>4, <2>1
<1>8. buffer \in [Buffer -> {buffer[b] : b \in Buffer}] /\ old \in Buffer
  BY DEF TypedBy, Of
<1>9. ASSUME NEW num \in Buffer, buffer'[num] = more PROVE IsArray(num)'
  BY <1>5, <1>6, <1>9, SimpleRelThreadsAssumption DEF IsArray
<1>10. CASE /\ buffer' = [buffer EXCEPT ![old] = more]
            /\ thread' = [thread EXCEPT ![t].pc = "setData", ![t].num = old]
  <2>1. buffer'[old] = more /\ \A b \in Buffer : b # old => buffer'[b] = buffer[b]
    BY <1>8, <1>10
  <2>2. \A b \in Of(kind, "dbs") \cup Of(kind, "tables") : b \in Buffer
    BY DEF Of
  <2>3. IsArray(old)' /\ Len(buffer'[old]) = 2 * capacity
    BY <1>3, <1>6, <1>8, <1>9, <2>1
  <2>4. ReallocTo(old, t, kind, old, capacity)
    BY <1>7, <1>10, <2>1, <2>2, <2>3 DEF ReallocTo
  <2> QED BY <1>1, <1>8, <2>4
<1>11. CASE /\ UnusedBuffers # {}
            /\ buffer' = [buffer EXCEPT ![UnusedBuffer] = more, ![old] = Freed]
            /\ thread' = [thread EXCEPT ![t].pc = "setData", ![t].num = UnusedBuffer]
  <2>1. PICK num \in Buffer : num = UnusedBuffer /\ kind[num] = "none"
    BY <1>11, UnusedIsNone
  <2>2. num # old
    BY <2>1 DEF Of
  <2>3. buffer'[num] = more /\ \A b \in Buffer : b # old /\ b # num => buffer'[b] = buffer[b]
    BY <1>8, <1>11, <2>1, <2>2
  <2>4. \A b \in Of(kind, "dbs") \cup Of(kind, "tables") : b \in Buffer /\ b # num
    BY <2>1 DEF Of
  <2>5. IsArray(num)' /\ Len(buffer'[num]) = 2 * capacity
    BY <1>3, <1>6, <1>9, <2>3
  <2>6. thread' = [thread EXCEPT ![t].pc = "setData", ![t].num = num]
    BY <1>11, <2>1
  <2>7. /\ \A j \in 1 .. capacity : buffer'[num][j] = buffer[old][j]
        /\ \A b \in Of(kind, "dbs") \cup Of(kind, "tables") :
             b # old => buffer'[b] = buffer[b]
    BY <1>7, <2>3, <2>4
  <2>8. ReallocTo(num, t, kind, old, capacity)
    BY <2>1, <2>5, <2>6, <2>7 DEF ReallocTo
  <2> QED BY <1>1, <2>8
<1>12. \/ /\ buffer' = [buffer EXCEPT ![old] = more]
          /\ thread' = [thread EXCEPT ![t].pc = "setData", ![t].num = old]
       \/ /\ UnusedBuffers # {}
          /\ buffer' = [buffer EXCEPT ![UnusedBuffer] = more, ![old] = Freed]
          /\ thread' = [thread EXCEPT ![t].pc = "setData", ![t].num = UnusedBuffer]
  <2>1. n = 2 * Vector(t).capacity
    BY <1>3
  <2> QED BY <1>4, <2>1 DEF Realloc
<1> QED BY <1>10, <1>11, <1>12

\* A request that has all to itself disturbs nobody.
LEMMA OthersIdle ==
  ASSUME NEW kind \in Kind, TypedBy(kind), TablesInv, NEW t \in Thread,
         thread[t].pc = "setData" \/ (Realloc(t) /\ "growth" \notin races')
  PROVE  \A u \in Thread : \A me : u # t /\ me = thread[u] => Knows(me)'
<1>1. \A u \in Thread : u # t => thread[u].op = "none"
  BY DEF TablesInv, Alone, Realloc, Others
<1> QED BY <1>1 DEF Knows

\* What a request that is filling a vector may rely on.
LEMMA VectorsThere ==
  ASSUME NEW kind \in Kind, TypedBy(kind), DbsInv, TablesInv, NEW t \in Thread,
         thread[t].op \in {"create", "drop"},
         thread[t].pc \notin {"manager", "publish", "initVector"}
  PROVE  Vectors
<1>1. g_srDbCtrlManager # NULL
  BY MakerHas DEF Maker
<1>2. ASSUME NEW u \in Thread, thread[u].pc = "initVector" PROVE FALSE
  <2>1. Maker(thread[u])
    BY <1>2 DEF TypedBy, ThreadsTyped, Placed, Maker
  <2> QED BY <1>2, <2>1 DEF DbsInv, OneMaker, Maker
<1> QED BY <1>1, <1>2 DEF Vectors

LEMMA WholeSame ==
  ASSUME NEW v, Whole(v), buffer'[v.data] = buffer[v.data]
  PROVE  Whole(v)'
BY DEF Whole, IsArray

LEMMA CreateReallocKeepsTables ==
  ASSUME NEW kind \in Kind, TypedBy(kind), DbsInv, TablesInv, Alone', Apart',
         "growth" \notin races', NEW t \in Thread, Realloc(t), thread[t].op = "create"
  PROVE  TablesInv'
<1>1. PICK me \in ThreadT : me = thread[t] /\ Placed(me, kind) /\ Knows(me)
  BY DEF TypedBy, ThreadsTyped, TablesInv
<1>2. me.pc = "realloc" /\ me.op = "create" /\ ~ Special(me)
  BY <1>1 DEF Realloc, At, Special
<1>3. PICK k \in {"dbs", "tables"} : k = "dbs"
  OBVIOUS
<1>4. /\ Vector(t) = D /\ D.size \in Nat /\ D.capacity \in Nat
      /\ D.data \in Of(kind, "dbs") /\ DbsIn(D.data, D.capacity, 0) /\ Creating(me)
  BY <1>1, <1>2, MakerHas DEF Maker
<1>5. PICK old \in Of(kind, k) : old = D.data
  BY <1>3, <1>4
<1>6. PICK capacity \in Nat : capacity = D.capacity
  BY <1>4
<1>7. D.size = capacity /\ 1 <= capacity /\ capacity <= Len(buffer[old])
  BY <1>2, <1>4, <1>5, <1>6 DEF Creating, DbsIn
<1>8. PICK num \in Buffer :
        /\ num = old \/ kind[num] = "none"
        /\ thread' = [thread EXCEPT ![t].pc = "setData", ![t].num = num]
        /\ IsArray(num)' /\ Len(buffer'[num]) = 2 * capacity
        /\ \A j \in 1 .. capacity : buffer'[num][j] = buffer[old][j]
        /\ \A b \in Of(kind, "dbs") \cup Of(kind, "tables") : b # old => buffer'[b] = buffer[b]
  <2>1. old = Vector(t).data /\ capacity = Vector(t).capacity
    BY <1>4, <1>5, <1>6
  <2>2. PICK num \in Buffer : ReallocTo(num, t, kind, old, capacity)
    BY <1>7, <2>1, ReallocIs
  <2> QED BY <2>2 DEF ReallocTo
<1>9. PICK new : new = [me EXCEPT !.pc = "setData", !.num = num]
  OBVIOUS
<1>10. thread' = [thread EXCEPT ![t] = new]
  BY <1>1, <1>8, <1>9
<1>11. new.op = "create" /\ new.pc = "setData" /\ new.num = num /\ new.item = me.item
  BY <1>2, <1>9 DEF ThreadT
<1>12. UNCHANGED <<g_srDbCtrlManager, dbCtrlList, acked>> /\ D' = D
  BY DEF Realloc, D
<1>13. Vectors
  BY <1>1, <1>2, VectorsThere
<1>14. Vectors'
  BY <1>10, <1>11, <1>12, <1>13 DEF Vectors, TypedBy, ThreadsTyped
<1>15. PICK list : list = Lists(Idle)
  OBVIOUS
<1>16. /\ TablesIn(old, 0, list) /\ (1 .. D.size) \ {0} = 1 .. D.size
       /\ \A j \in 1 .. D.size :
            /\ list[j] = buffer[old][j].list
            /\ list[j] \in [data : Of(kind, "tables"), size : Int, capacity : Nat]
            /\ Whole(list[j])
  BY <1>1, <1>2, <1>5, <1>13, <1>15, TablesNow
<1>17. \A b \in Of(kind, "tables") : buffer'[b] = buffer[b]
  BY <1>3, <1>8 DEF Of
<1>18. \A j \in 1 .. D.size : /\ buffer'[list[j].data] = buffer[list[j].data]
                              /\ Whole(list[j])'
  <2> TAKE j \in 1 .. D.size
  <2>1. PICK v \in [data : Of(kind, "tables"), size : Int, capacity : Nat] : v = list[j]
    BY <1>16
  <2>2. Whole(v) /\ buffer'[v.data] = buffer[v.data]
    BY <1>16, <1>17, <2>1
  <2>3. Whole(v)'
    BY <2>2, WholeSame
  <2> QED BY <2>1, <2>2, <2>3
<1>19. TablesIn(num, 0, list)'
  <2> HIDE DEF D
  <2>1. \A j \in 1 .. D.size : buffer'[num][j] = buffer[old][j]
    BY <1>7, <1>8
  <2>2. \A i, n \in (1 .. D.size) \ {0} : list[i].data = list[n].data => i = n
    BY <1>16 DEF TablesIn
  <2> QED BY <1>12, <1>16, <1>18, <2>1, <2>2, TablesMoved
<1>20. \A j \in 1 .. D.size : ListOf(new, j)' = list[j]
  BY <1>7, <1>8, <1>11, <1>16 DEF ListOf, Array
<1>21. TablesAs(new)'
  <2>1. Array(new)' = num /\ Hole(new)' = 0
    BY <1>11 DEF Array, Hole
  <2>2. Lists(new)' = list
    BY <1>12, <1>15, <1>20 DEF Lists
  <2> QED BY <1>19, <2>1, <2>2 DEF TablesAs
<1>22. Knows(new)'
  <2>1. NewDb(me)
    BY <1>1, <1>2 DEF Knows
  <2>2. PICK v \in [data : Of(kind, "tables"), size : Int, capacity : Nat] : v = me.item.list
    BY <1>1, <1>2 DEF Placed, Filling, ItemT, DbT
  <2>3. Whole(v) /\ v.size = 0
    BY <1>2, <2>1, <2>2 DEF NewDb, Filling
  <2>4. buffer'[v.data] = buffer[v.data]
    BY <1>17
  <2>5. Whole(v)'
    BY <2>3, <2>4, WholeSame
  <2>6. \A j \in 1 .. D.size : list[j].data # v.data
    <3>1. \A j \in 1 .. D.size : ListOf(me, j) = list[j]
      BY <1>2, <1>5, <1>16 DEF ListOf, Array
    <3> QED BY <1>2, <2>1, <2>2, <3>1 DEF NewDb, Filling
  <2>7. NewDb(new)'
    BY <1>11, <1>12, <1>20, <2>2, <2>3, <2>5, <2>6 DEF NewDb
  <2> QED BY <1>11, <2>7 DEF Knows
<1>23. \A u \in Thread : \A you \in ThreadT : u # t /\ you = thread[u] => Knows(you)'
  BY OthersIdle
<1>24. Special(new)
  BY <1>11 DEF Special
<1> QED BY <1>1, <1>2, <1>10, <1>11, <1>14, <1>21, <1>22, <1>23, <1>24, TablesStep

LEMMA TableReallocKeepsTables ==
  ASSUME NEW kind \in Kind, TypedBy(kind), DbsInv, TablesInv, Alone', Apart',
         "growth" \notin races', NEW t \in Thread, Realloc(t), thread[t].op = "table"
  PROVE  TablesInv'
<1>1. PICK me \in ThreadT : me = thread[t] /\ Placed(me, kind) /\ Knows(me)
  BY DEF TypedBy, ThreadsTyped, TablesInv
<1>2. me.pc = "realloc" /\ me.op = "table" /\ ~ Special(me)
  BY <1>1 DEF Realloc, At, Special
<1>3. PICK k : k = me.place.index
  OBVIOUS
<1>4. TableAt(me)
  BY <1>1, <1>2 DEF Knows
<1>5. PICK v \in [data : Of(kind, "tables"), size : Int, capacity : Nat] :
        v = ListOf(me, k) /\ v = buffer[D.data][k].list /\ Whole(v)
        /\ me.place.data = D.data
  BY <1>1, <1>2, <1>3, TableList DEF Searching, Appending, Filling
<1>6. Vector(t) = v
  <2>1. InItem(me.place, kind, "dbs")
    BY <1>1, <1>2 DEF Placed, Searching, Appending, Filling
  <2> QED BY <1>1, <1>3, <1>5, <2>1, VectorTyped DEF Vector
<1>7. /\ Vectors /\ k \in 1 .. D.size /\ buffer[D.data][k].id = me.dbId
      /\ \A j \in 1 .. v.size : buffer[v.data][j].name # me.name
      /\ me.item.name = me.name /\ me.item.dbId = me.dbId
      /\ v.size = v.capacity
  BY <1>2, <1>3, <1>4, <1>5 DEF TableAt, Seeking, Searching, Appending, Filling
<1>8. PICK kk \in {"dbs", "tables"} : kk = "tables"
  OBVIOUS
<1>9. PICK old \in Of(kind, kk) : old = v.data
  BY <1>8
<1>10. PICK capacity \in Nat : capacity = v.capacity
  OBVIOUS
<1>11. 1 <= capacity /\ capacity <= Len(buffer[old])
  BY <1>5, <1>9, <1>10 DEF Whole
<1>12. PICK num \in Buffer :
        /\ num = old \/ kind[num] = "none"
        /\ thread' = [thread EXCEPT ![t].pc = "setData", ![t].num = num]
        /\ IsArray(num)' /\ Len(buffer'[num]) = 2 * capacity
        /\ \A j \in 1 .. capacity : buffer'[num][j] = buffer[old][j]
        /\ \A b \in Of(kind, "dbs") \cup Of(kind, "tables") : b # old => buffer'[b] = buffer[b]
  <2>1. old = Vector(t).data /\ capacity = Vector(t).capacity
    BY <1>6, <1>9, <1>10
  <2>2. PICK num \in Buffer : ReallocTo(num, t, kind, old, capacity)
    BY <1>11, <2>1, ReallocIs
  <2> QED BY <2>2 DEF ReallocTo
<1>13. PICK new : new = [me EXCEPT !.pc = "setData", !.num = num]
  OBVIOUS
<1>14. thread' = [thread EXCEPT ![t] = new]
  BY <1>1, <1>12, <1>13
<1>15. /\ new.op = "table" /\ new.pc = "setData" /\ new.num = num /\ new.item = me.item
       /\ new.place = me.place /\ new.name = me.name /\ new.dbId = me.dbId
       /\ new.pass = me.pass
  BY <1>2, <1>13 DEF ThreadT
<1>16. UNCHANGED <<g_srDbCtrlManager, dbCtrlList, acked>> /\ D' = D
  BY DEF Realloc, D
<1>17. Vectors'
  BY <1>7, <1>14, <1>15, <1>16 DEF Vectors, TypedBy, ThreadsTyped
<1>18. PICK b : b = D.data
  OBVIOUS
<1>19. PICK list : list = Lists(Idle)
  OBVIOUS
<1>20. /\ TablesIn(b, 0, list) /\ b \in Of(kind, "dbs")
       /\ (1 .. D.size) \ {0} = 1 .. D.size
       /\ \A j \in 1 .. D.size :
            /\ list[j] = buffer[b][j].list
            /\ list[j] \in [data : Of(kind, "tables"), size : Int, capacity : Nat]
            /\ Whole(list[j])
  BY <1>1, <1>2, <1>7, <1>18, <1>19, TablesNow
<1>21. buffer'[b] = buffer[b]
  BY <1>8, <1>12, <1>20 DEF Of
<1>22. PICK newv : newv = [v EXCEPT !.data = num, !.capacity = 2 * v.capacity]
  OBVIOUS
<1>23. newv.data = num /\ newv.size = v.size /\ newv.capacity = 2 * v.capacity
  BY <1>22
<1>24. \A j \in 1 .. v.size : buffer'[num][j] = buffer[v.data][j]
  BY <1>7, <1>9, <1>10, <1>12
<1>25. Whole(newv)'
  <2>1. /\ v.size \in Nat /\ v.size <= v.capacity /\ 1 <= v.capacity
        /\ \A j \in 1 .. v.size : buffer[v.data][j] # Garbage
    BY <1>5 DEF Whole
  <2>2. PICK n \in Nat : n = 2 * v.capacity
    OBVIOUS
  <2>3. /\ newv.capacity = n /\ newv.size \in Nat /\ newv.size <= n /\ 1 <= n
        /\ n <= Len(buffer'[num])
    BY <1>10, <1>12, <1>23, <2>1, <2>2
  <2>4. \A j \in 1 .. newv.size : buffer'[num][j] # Garbage
    BY <1>23, <1>24, <2>1
  <2> QED BY <1>12, <1>23, <2>3, <2>4 DEF Whole
<1>26. ASSUME NEW j \in 1 .. D.size, j # k
       PROVE  /\ list[j].data # num /\ buffer'[list[j].data] = buffer[list[j].data]
              /\ Whole(list[j])'
  <2>1. PICK w \in [data : Of(kind, "tables"), size : Int, capacity : Nat] :
          w = list[j] /\ Whole(w)
    BY <1>20
  <2>2. w.data # old
    <3>1. list[k] = v
      BY <1>5, <1>7, <1>18, <1>20
    <3>2. list[j].data = list[k].data => j = k
      BY <1>7, <1>20 DEF TablesIn
    <3> QED BY <1>9, <1>26, <2>1, <3>1, <3>2
  <2>3. buffer'[w.data] = buffer[w.data]
    BY <1>12, <2>2
  <2>4. Whole(w)'
    BY <2>1, <2>3, WholeSame
  <2>5. w.data # num
    BY <1>12, <2>2 DEF Of
  <2> QED BY <2>1, <2>3, <2>4, <2>5
<1>27. PICK list2 : list2 = [j \in 1 .. D.size |-> IF j = k THEN newv ELSE list[j]]
  OBVIOUS
<1>28. TablesIn(b, 0, list2)'
  <2> HIDE DEF D
  <2>1. \A j \in 1 .. D.size : list2[j] = IF j = k THEN newv ELSE list[j]
    BY <1>27
  <2>2. \A i, n \in (1 .. D.size) \ {0} : list2[i].data = list2[n].data => i = n
    <3>1. \A i, n \in 1 .. D.size : list[i].data = list[n].data => i = n
      BY <1>20 DEF TablesIn
    <3> QED BY <1>20, <1>23, <1>26, <2>1, <3>1
  <2>3. list[k] = v
    BY <1>5, <1>7, <1>18, <1>20
  <2>4. ASSUME NEW j \in 1 .. D.size
        PROVE  /\ Whole(list2[j])' /\ list2[j].size = list[j].size
               /\ \A n \in 1 .. list[j].size :
                    buffer'[list2[j].data][n] = buffer[list[j].data][n]
    <3>1. CASE j = k
      BY <1>23, <1>24, <1>25, <2>1, <2>3, <3>1
    <3>2. CASE j # k
      BY <1>26, <2>1, <3>2
    <3> QED BY <3>1, <3>2
  <2> QED BY <1>16, <1>20, <1>21, <2>2, <2>4, TablesMoved
<1>29. \A j \in 1 .. D.size : ListOf(new, j)' = list2[j]
  <2> TAKE j \in 1 .. D.size
  <2>1. CASE j = k
    <3>1. ListOf(new, j)' = [buffer'[D'.data][k].list EXCEPT !.data = num, !.capacity = 2 * @]
      BY <1>3, <1>15, <2>1 DEF ListOf
    <3>2. buffer'[D'.data][k].list = v
      BY <1>5, <1>16, <1>18, <1>21
    <3> QED BY <1>22, <1>27, <2>1, <3>1, <3>2
  <2>2. CASE j # k
    <3>1. ListOf(new, j)' = buffer'[D'.data][j].list
      BY <1>3, <1>15, <2>2 DEF ListOf, Array
    <3> QED BY <1>16, <1>18, <1>20, <1>21, <1>27, <2>2, <3>1
  <2> QED BY <2>1, <2>2
<1>30. TablesAs(new)'
  <2>1. Array(new)' = b /\ Hole(new)' = 0
    BY <1>15, <1>16, <1>18 DEF Array, Hole
  <2>2. Lists(new)' = list2
    BY <1>16, <1>27, <1>29 DEF Lists
  <2> QED BY <1>28, <2>1, <2>2 DEF TablesAs
<1>31. Knows(new)'
  <2>1. ListOf(new, k)' = newv
    BY <1>7, <1>27, <1>29
  <2>2. \A j \in 1 .. newv.size : buffer'[newv.data][j].name # new.name
    BY <1>7, <1>15, <1>23, <1>24
  <2>3. newv.size = buffer'[b][k].list.capacity
    BY <1>5, <1>7, <1>18, <1>21, <1>23
  <2>4. TableAt(new)'
    <3>1. /\ new.place.index = k /\ new.place.data = D'.data /\ k \in 1 .. D'.size
          /\ buffer'[D'.data][k].id = new.dbId
          /\ new.item.name = new.name /\ new.item.dbId = new.dbId
      BY <1>3, <1>5, <1>7, <1>15, <1>16, <1>18, <1>21
    <3> HIDE DEF D
    <3> QED BY <1>15, <1>16, <1>17, <1>18, <2>1, <2>2, <2>3, <3>1 DEF TableAt, Seeking, Searching
  <2> QED BY <1>1, <1>2, <1>15, <2>4 DEF Knows, Searching
<1>32. \A u \in Thread : \A you \in ThreadT : u # t /\ you = thread[u] => Knows(you)'
  BY OthersIdle
<1>33. Special(new)
  BY <1>15 DEF Special
<1> QED BY <1>1, <1>2, <1>14, <1>15, <1>17, <1>30, <1>31, <1>32, <1>33, TablesStep

LEMMA TablesInSame ==
  ASSUME UNCHANGED buffer, D'.size = D.size, acked'.tables = acked.tables,
         NEW b, NEW hole, NEW list, TablesIn(b, hole, list)
  PROVE  TablesIn(b, hole, list)'
<1>1. \A v : Whole(v)' <=> Whole(v)
  BY DEF Whole, IsArray
<1> HIDE DEF D
<1> QED BY <1>1 DEF TablesIn

\* The vector of one database is set.
LEMMA ListSetIs ==
  ASSUME NEW kind \in Kind, TypedBy(kind), NEW place, InItem(place, kind, "dbs"),
         NEW b \in Of(kind, "dbs"), b = place.data, NEW i, i = place.index, IsItem(b, i),
         NEW vector \in [data : Of(kind, "tables"), size : Int, capacity : Nat],
         SetVector(place, vector)
  PROVE  /\ UNCHANGED dbCtrlList
         /\ \A c \in Buffer : c # b => buffer'[c] = buffer[c]
         /\ IsArray(b)' /\ DOMAIN buffer'[b] = DOMAIN buffer[b]
         /\ \A j \in DOMAIN buffer[b] : j # i => buffer'[b][j] = buffer[b][j]
         /\ buffer'[b][i].list = vector /\ buffer'[b][i].id = buffer[b][i].id
         /\ buffer'[b][i].name = buffer[b][i].name
         /\ IsItem(b, i)'
<1>1. PICK k \in {"dbs", "tables"} : k = "dbs"
  OBVIOUS
<1>2. b \in Of(kind, k) /\ b \in Buffer /\ buffer \in [Buffer -> {buffer[c] : c \in Buffer}]
  BY <1>1 DEF Of, TypedBy
<1>3. IsArray(b) /\ i \in DOMAIN buffer[b] /\ buffer[b][i] \in DbT(kind)
  BY <1>1, <1>2, ItemAt DEF IsItem
<1>4. PICK x : x = [buffer[b][i] EXCEPT !.list = vector]
  OBVIOUS
<1>5. /\ x \in DbT(kind) /\ x.list = vector /\ x.id = buffer[b][i].id
      /\ x.name = buffer[b][i].name
  BY <1>3, <1>4 DEF DbT
<1>6. x # Garbage
  <2>1. x \in DbItem
    BY <1>5 DEF DbT, DbItem, Of
  <2> QED BY <2>1, SimpleRelThreadsAssumption
<1>7. buffer' = [buffer EXCEPT ![b] = [buffer[b] EXCEPT ![i] = x]] /\ UNCHANGED dbCtrlList
  <2>1. ~ IsManager(place)
    BY VectorTyped
  <2> QED BY <1>4, <2>1 DEF SetVector
<1>8. /\ buffer'[b] = [buffer[b] EXCEPT ![i] = x]
      /\ \A c \in Buffer : c # b => buffer'[c] = buffer[c]
  BY <1>2, <1>7
<1>9. IsArray(b)'
  <2>1. x \in ItemT(kind, k) \cup {Garbage}
    BY <1>1, <1>5 DEF ItemT
  <2>2. /\ IsArray(b) /\ i \in DOMAIN buffer[b]
        /\ buffer' = [buffer EXCEPT ![b] = [buffer[b] EXCEPT ![i] = x]]
    BY <1>3, <1>7
  <2> QED BY <1>2, <2>1, <2>2, WrittenTyped
<1> QED BY <1>3, <1>5, <1>6, <1>7, <1>8, <1>9 DEF IsItem

LEMMA CreateSetDataKeepsTables ==
  ASSUME NEW kind \in Kind, TypedBy(kind), DbsInv, TablesInv, Alone', Apart',
         NEW t \in Thread, SetData(t), thread[t].op = "create"
  PROVE  TablesInv'
<1>1. PICK me \in ThreadT : me = thread[t] /\ Placed(me, kind) /\ Knows(me)
  BY DEF TypedBy, ThreadsTyped, TablesInv
<1>2. me.pc = "setData" /\ me.op = "create" /\ Special(me)
  BY <1>1 DEF SetData, At, Special
<1>3. /\ g_srDbCtrlManager # NULL /\ g_srDbCtrlManager \in Manager
      /\ me.place = TheManager /\ Vector(t) = D /\ D \in ManagerT(kind)
  BY <1>1, <1>2, MakerHas DEF Maker
<1>4. PICK new : new = [me EXCEPT !.pc = "copy"]
  OBVIOUS
<1>5. thread' = [thread EXCEPT ![t] = new]
  BY <1>1, <1>4 DEF SetData, Goes
<1>6. new.op = "create" /\ new.pc = "copy" /\ new.item = me.item
  BY <1>2, <1>4 DEF ThreadT
<1>7. PICK vector : vector = [D EXCEPT !.data = me.num, !.capacity = 2 * D.capacity]
  OBVIOUS
<1>8. /\ dbCtrlList' = [dbCtrlList EXCEPT ![g_srDbCtrlManager] = vector]
      /\ UNCHANGED <<g_srDbCtrlManager, acked, buffer>>
  BY <1>1, <1>3, <1>7, AtTheManager DEF SetData, SetVector
<1>9. D'.data = me.num /\ D'.size = D.size
  <2>1. D' = vector
    BY <1>3, <1>8 DEF D, TypedBy, ManagersTyped
  <2>2. vector.data = me.num /\ vector.size = D.size
    BY <1>3, <1>7 DEF ManagerT
  <2> QED BY <2>1, <2>2
<1>10. Vectors
  BY <1>1, <1>2, VectorsThere
<1>11. Vectors'
  BY <1>5, <1>6, <1>8, <1>10 DEF Vectors, TypedBy, ThreadsTyped
<1>12. PICK list : list = Lists(me)
  OBVIOUS
<1>13. TablesIn(me.num, 0, list)
  <2>1. Standing = {me}
    BY <1>1, <1>2, NobodyElse
  <2>2. Array(me) = me.num /\ Hole(me) = 0
    BY <1>2 DEF Array, Hole
  <2> QED BY <1>10, <1>12, <2>1, <2>2 DEF TablesInv, Tables, TablesAs
<1>14. TablesIn(me.num, 0, list)'
  <2>1. PICK b : b = me.num
    OBVIOUS
  <2>2. TablesIn(b, 0, list)'
    BY <1>8, <1>9, <1>13, <2>1, TablesInSame
  <2> QED BY <2>1, <2>2
<1>15. \A k : /\ ListOf(Idle, k)' = ListOf(me, k)
              /\ ListOf(new, k)' = ListOf(me, k)
  BY <1>2, <1>6, <1>8, <1>9 DEF ListOf, Array, Idle
<1>16. TablesAs(Idle)'
  <2>1. Array(Idle)' = me.num /\ Hole(Idle)' = 0
    BY <1>9 DEF Array, Hole, Idle
  <2>2. Lists(Idle)' = list
    BY <1>9, <1>12, <1>15 DEF Lists
  <2> QED BY <1>14, <2>1, <2>2 DEF TablesAs
<1>17. Knows(new)'
  <2>1. /\ Whole(me.item.list) /\ me.item.list.size = 0
        /\ \A k \in 1 .. D.size : ListOf(me, k).data # me.item.list.data
    BY <1>1, <1>2 DEF Knows, NewDb, Filling
  <2>2. Whole(me.item.list)'
    BY <1>8, <2>1 DEF Whole, IsArray
  <2>3. NewDb(new)'
    BY <1>6, <1>9, <1>15, <2>1, <2>2 DEF NewDb
  <2> QED BY <1>6, <2>3 DEF Knows
<1>18. \A u \in Thread : \A you \in ThreadT : u # t /\ you = thread[u] => Knows(you)'
  BY <1>1, <1>2, OthersIdle
<1>19. ~ Special(new)
  BY <1>6 DEF Special
<1> QED BY <1>1, <1>2, <1>5, <1>6, <1>11, <1>16, <1>17, <1>18, <1>19, TablesStep

LEMMA TableSetDataKeepsTables ==
  ASSUME NEW kind \in Kind, TypedBy(kind), DbsInv, TablesInv, Alone', Apart',
         NEW t \in Thread, SetData(t), thread[t].op = "table"
  PROVE  TablesInv'
<1>1. PICK me \in ThreadT : me = thread[t] /\ Placed(me, kind) /\ Knows(me)
  BY DEF TypedBy, ThreadsTyped, TablesInv
<1>2. me.pc = "setData" /\ me.op = "table" /\ Special(me)
  BY <1>1 DEF SetData, At, Special
<1>3. PICK k : k = me.place.index
  OBVIOUS
<1>4. TableAt(me) /\ InItem(me.place, kind, "dbs")
  BY <1>1, <1>2 DEF Knows, Placed, Searching, Appending, Filling
<1>5. PICK vector \in [data : Of(kind, "tables"), size : Int, capacity : Nat] :
        vector = ListOf(me, k) /\ Whole(vector)
  BY <1>1, <1>2, <1>3, TableList DEF Searching, Appending, Filling
<1>6. PICK b \in Of(kind, "dbs") : b = D.data /\ b = me.place.data
  BY <1>1, <1>2, TableList DEF Searching, Appending, Filling
<1>7. /\ Vectors /\ k \in 1 .. D.size /\ buffer[b][k].id = me.dbId
      /\ \A j \in 1 .. vector.size : buffer[vector.data][j].name # me.name
      /\ me.item.name = me.name /\ me.item.dbId = me.dbId
      /\ vector.size = buffer[b][k].list.capacity
  BY <1>2, <1>3, <1>4, <1>5, <1>6 DEF TableAt, Seeking, Searching, Appending, Filling
<1>8. PICK new : new = [me EXCEPT !.pc = "copy"]
  OBVIOUS
<1>9. /\ thread' = [thread EXCEPT ![t] = new]
      /\ UNCHANGED <<g_srDbCtrlManager, acked>>
  BY <1>1, <1>8 DEF SetData, Goes
<1>10. /\ new.op = "table" /\ new.pc = "copy" /\ new.item = me.item /\ new.pass = me.pass
       /\ new.place = me.place /\ new.name = me.name /\ new.dbId = me.dbId
  BY <1>2, <1>8 DEF ThreadT
<1>11. PICK list : list = Lists(me)
  OBVIOUS
<1>12. me \in Standing /\ Array(me) = b /\ Hole(me) = 0
  BY <1>1, <1>2, <1>6, NobodyElse DEF Array, Hole
<1>13. TablesIn(b, 0, list)
  BY <1>7, <1>11, <1>12 DEF TablesInv, Tables, TablesAs
<1>14. \A j \in 1 .. D.size :
         /\ IsItem(b, j) /\ buffer[b][j] \in DbT(kind) /\ list[j] = ListOf(me, j)
         /\ list[j] \in [data : Of(kind, "tables"), size : Int, capacity : Nat]
  BY <1>7, <1>11, <1>12, ListsTyped DEF TablesInv
<1>15. \A j \in 1 .. D.size : list[j] = IF j = k THEN vector ELSE buffer[b][j].list
  <2> TAKE j \in 1 .. D.size
  <2>1. j # k => ListOf(me, j) = buffer[b][j].list
    BY <1>3, <1>12 DEF ListOf
  <2> QED BY <1>5, <1>14, <2>1
<1>16. PICK v : v = buffer[b][k].list
  OBVIOUS
<1>17. /\ v \in [data : Of(kind, "tables"), size : Int, capacity : Nat]
       /\ vector = [v EXCEPT !.data = me.num, !.capacity = 2 * v.capacity]
  <2>1. v \in [data : Of(kind, "tables"), size : Int, capacity : Nat]
    BY <1>7, <1>14, <1>16 DEF DbT
  <2>2. vector = [v EXCEPT !.data = me.num, !.capacity = 2 * v.capacity]
    BY <1>2, <1>3, <1>5, <1>6, <1>16 DEF ListOf
  <2> QED BY <2>1, <2>2
<1>18. SetVector(me.place, vector)
  <2>1. Vector(t) = v
    BY <1>1, <1>3, <1>4, <1>6, <1>16, VectorTyped DEF Vector
  <2> QED BY <1>1, <1>17, <2>1 DEF SetData
<1>19. /\ UNCHANGED dbCtrlList
       /\ \A c \in Buffer : c # b => buffer'[c] = buffer[c]
       /\ \A j \in DOMAIN buffer[b] : j # k => buffer'[b][j] = buffer[b][j]
       /\ buffer'[b][k].list = vector /\ buffer'[b][k].id = buffer[b][k].id
  <2>1. PICK place : place = me.place
    OBVIOUS
  <2>2. /\ InItem(place, kind, "dbs") /\ b = place.data /\ k = place.index
        /\ IsItem(b, k) /\ SetVector(place, vector)
    BY <1>3, <1>4, <1>6, <1>7, <1>14, <1>18, <2>1
  <2>3. /\ kind \in Kind /\ TypedBy(kind) /\ b \in Of(kind, "dbs")
        /\ vector \in [data : Of(kind, "tables"), size : Int, capacity : Nat]
    OBVIOUS
  <2> QED BY ONLY <2>2, <2>3, ListSetIs
<1>20. D' = D
  BY <1>9, <1>19 DEF D
<1>21. \A j \in 1 .. D.size : /\ buffer'[b][j].id = buffer[b][j].id
                              /\ buffer'[b][j].list = list[j]
  <2> TAKE j \in 1 .. D.size
  <2>1. j \in DOMAIN buffer[b]
    BY <1>14 DEF IsItem
  <2> QED BY <1>15, <1>19, <2>1
<1>22. \A j \in 1 .. D.size : /\ buffer'[list[j].data] = buffer[list[j].data]
                              /\ Whole(list[j])'
  <2> TAKE j \in 1 .. D.size
  <2>1. PICK w \in [data : Of(kind, "tables"), size : Int, capacity : Nat] : w = list[j]
    BY <1>14
  <2>2. Whole(w)
    BY <1>13, <2>1 DEF TablesIn
  <2>3. w.data # b /\ w.data \in Buffer
    BY DEF Of
  <2>4. buffer'[w.data] = buffer[w.data]
    BY <1>19, <2>3
  <2>5. Whole(w)'
    BY <2>2, <2>4, WholeSame
  <2> QED BY <2>1, <2>4, <2>5
<1>23. TablesIn(b, 0, list)'
  <2> HIDE DEF D
  <2>1. \A i, n \in (1 .. D.size) \ {0} : list[i].data = list[n].data => i = n
    BY <1>13 DEF TablesIn
  <2> QED BY <1>9, <1>13, <1>20, <1>21, <1>22, <2>1, TablesMoved
<1>24. \A j \in 1 .. D.size : ListOf(Idle, j)' = list[j] /\ ListOf(new, j)' = list[j]
  BY <1>6, <1>10, <1>20, <1>21 DEF ListOf, Array, Idle
<1>25. TablesAs(Idle)'
  <2>1. Array(Idle)' = b /\ Hole(Idle)' = 0
    BY <1>6, <1>20 DEF Array, Hole, Idle
  <2>2. Lists(Idle)' = list
    BY <1>11, <1>20, <1>24 DEF Lists
  <2> QED BY <1>23, <2>1, <2>2 DEF TablesAs
<1>26. Vectors'
  BY <1>7, <1>9, <1>10 DEF Vectors, TypedBy, ThreadsTyped
<1>27. Knows(new)'
  <2>1. ListOf(new, k)' = vector /\ list[k] = vector
    BY <1>7, <1>15, <1>24
  <2>2. \A j \in 1 .. vector.size : buffer'[vector.data][j].name # me.name
    BY <1>7, <1>22, <2>1
  <2>3. vector.size < vector.capacity
    <3>1. vector.capacity = 2 * v.capacity /\ vector.size = v.size
      BY <1>17
    <3>2. v.capacity \in Nat /\ v.size = v.capacity
      BY <1>7, <1>16, <1>17, <3>1
    <3>3. 1 <= vector.capacity
      BY <1>5 DEF Whole
    <3> QED BY <3>1, <3>2, <3>3
  <2>4. TableAt(new)'
    <3>1. /\ new.place.index = k /\ new.place.data = D'.data /\ k \in 1 .. D'.size
          /\ buffer'[D'.data][k].id = new.dbId
          /\ new.item.name = new.name /\ new.item.dbId = new.dbId
      BY <1>3, <1>6, <1>7, <1>10, <1>19, <1>20
    <3> HIDE DEF D
    <3> QED BY <1>10, <1>26, <2>1, <2>2, <2>3, <3>1 DEF TableAt, Seeking, Searching
  <2> QED BY <1>1, <1>2, <1>10, <2>4 DEF Knows, Searching
<1>28. \A u \in Thread : \A you \in ThreadT : u # t /\ you = thread[u] => Knows(you)'
  BY <1>1, <1>2, OthersIdle
<1>29. ~ Special(new)
  BY <1>10 DEF Special
<1> QED BY <1>1, <1>2, <1>9, <1>10, <1>25, <1>26, <1>27, <1>28, <1>29, TablesStep

\* A database is written into its array: what is known of rows stays so.
LEMMA DbWritten ==
  ASSUME NEW kind \in Kind, TypedBy(kind), NEW b \in Of(kind, "dbs"), IsArray(b),
         NEW i \in DOMAIN buffer[b], NEW x \in DbT(kind), Whole(x.list),
         buffer' = [buffer EXCEPT ![b] = [buffer[b] EXCEPT ![i] = x]]
  PROVE  /\ buffer'[b][i] = x /\ x # Garbage
         /\ \A j \in DOMAIN buffer[b] : j # i => buffer'[b][j] = buffer[b][j]
         /\ \A c \in Buffer : c # b => buffer'[c] = buffer[c]
         /\ \A c \in Of(kind, "tables") : buffer'[c] = buffer[c]
         /\ RowsLeft(kind)
<1>1. PICK k \in {"dbs", "tables"} : k = "dbs"
  OBVIOUS
<1>2. /\ b \in Of(kind, k) /\ x \in ItemT(kind, k) \cup {Garbage}
      /\ IsArray(b) /\ buffer' = [buffer EXCEPT ![b] = [buffer[b] EXCEPT ![i] = x]]
  BY <1>1 DEF ItemT
<1>3. /\ buffer'[b][i] = x
      /\ \A j \in DOMAIN buffer[b] : j # i => buffer'[b][j] = buffer[b][j]
      /\ \A c \in Buffer : c # b => buffer'[c] = buffer[c]
      /\ buffer'[b] = [buffer[b] EXCEPT ![i] = x]
  BY <1>2 DEF TypedBy, Of
<1>4. IsArray(b)'
  <2>1. x \in ItemT(kind, k) \cup {Garbage} /\ b \in Of(kind, k)
    BY <1>2
  <2>2. /\ IsArray(b) /\ i \in DOMAIN buffer[b]
        /\ buffer' = [buffer EXCEPT ![b] = [buffer[b] EXCEPT ![i] = x]]
    OBVIOUS
  <2>3. k \in {"dbs", "tables"}
    OBVIOUS
  <2>4. TypedBy(kind) /\ kind \in Kind
    OBVIOUS
  <2> QED BY ONLY <2>1, <2>2, <2>3, <2>4, WrittenTyped
<1>5. DOMAIN buffer'[b] = DOMAIN buffer[b]
  BY <1>3
<1>6. x # Garbage
  <2>1. x \in DbItem
    BY DEF DbT, DbItem, Of
  <2> QED BY <2>1, SimpleRelThreadsAssumption
<1>7. \A c \in Of(kind, "tables") : c \in Buffer /\ c # b /\ buffer'[c] = buffer[c]
  BY <1>3 DEF Of
<1>8. ASSUME NEW v \in [data : Of(kind, "tables"), size : Int, capacity : Nat], Whole(v)
      PROVE  Whole(v)'
  BY <1>7, <1>8, WholeSame
<1>9. ASSUME NEW c \in Of(kind, "dbs"), NEW j, IsItem(c, j), Whole(buffer[c][j].list)
      PROVE  IsItem(c, j)' /\ Whole(buffer[c][j].list)'
  <2>1. c \in Of(kind, k)
    BY <1>1
  <2>2. PICK v \in [data : Of(kind, "tables"), size : Int, capacity : Nat] :
          v = buffer[c][j].list
    BY <1>1, <1>9, <2>1, ItemAt
  <2>3. PICK w \in [data : Of(kind, "tables"), size : Int, capacity : Nat] : w = x.list
    BY DEF DbT
  <2>4. CASE c = b /\ j = i
    <3>1. Whole(w)'
      BY <1>8, <2>3
    <3>2. buffer'[c][j] = x
      BY <1>3, <2>4
    <3> QED BY <1>4, <1>5, <1>6, <2>3, <2>4, <3>1, <3>2 DEF IsItem
  <2>5. CASE ~ (c = b /\ j = i)
    <3>1. Whole(v)'
      BY <1>8, <1>9, <2>2
    <3>2. /\ buffer'[c][j] = buffer[c][j] /\ DOMAIN buffer'[c] = DOMAIN buffer[c]
      BY <1>3, <1>5, <1>9, <2>5 DEF IsItem, Of
    <3>3. IsArray(c)'
      BY <1>3, <1>4, <1>9 DEF IsItem, IsArray, Of
    <3> QED BY <1>9, <2>2, <3>1, <3>2, <3>3 DEF IsItem
  <2> QED BY <2>4, <2>5
<1>10. ASSUME NEW c \in Of(kind, "tables"), NEW j, IsItem(c, j) PROVE IsItem(c, j)'
  BY <1>7, <1>10 DEF IsItem, IsArray
<1> QED BY <1>3, <1>6, <1>7, <1>9, <1>10 DEF RowsLeft

\* A request for a table whose database nobody touches.
LEMMA TableAtElsewhere ==
  ASSUME NEW me, TableAt(me), me.op = "table", me.pc # "setData", Vectors => Vectors',
         D'.data = D.data, D.size \in Nat, D'.size \in Nat, D.size <= D'.size,
         NEW k, k = me.place.index,
         NEW v, v = buffer[D.data][k].list,
         k \in 1 .. D.size =>
           /\ buffer'[D.data][k].id = buffer[D.data][k].id
           /\ buffer'[D.data][k].list = v
           /\ buffer'[v.data] = buffer[v.data]
  PROVE  TableAt(me)'
<1> SUFFICES ASSUME me.pc \in Appending \/ (me.pc \in Searching /\ me.pass = 2)
             PROVE  TableAt(me)'
  BY DEF TableAt
<1>1. ListOf(me, k) = v
  BY DEF ListOf, Array
<1>2. /\ Vectors /\ me.place.data = D.data /\ k \in 1 .. D.size
      /\ buffer[D.data][k].id = me.dbId
      /\ \A j \in 1 .. v.size :
           (me.pc \in Searching => j < me.i) => buffer[v.data][j].name # me.name
      /\ Seeking(me, v)
      /\ me.pc \in {"store"} \cup Filling =>
           me.item.name = me.name /\ me.item.dbId = me.dbId
      /\ me.pc \in {"realloc", "setData"} => v.size = v.capacity
      /\ me.pc \in {"copy", "size"} => v.size < v.capacity
      /\ me.pc = "size" =>
           /\ buffer[v.data][v.size + 1] # Garbage
           /\ buffer[v.data][v.size + 1].name = me.item.name
           /\ buffer[v.data][v.size + 1].id = me.item.id
           /\ buffer[v.data][v.size + 1].dbId = me.item.dbId
  BY <1>1 DEF TableAt
<1>3. ListOf(me, k)' = v /\ buffer'[v.data] = buffer[v.data]
  BY <1>2 DEF ListOf, Array
<1>4. k \in 1 .. D'.size /\ buffer'[D'.data][k].id = me.dbId /\ me.place.data = D'.data
      /\ buffer'[D'.data][k].list = v /\ Vectors'
  <2>1. k \in 1 .. D.size /\ Vectors' /\ me.place.data = D.data
        /\ buffer[D.data][k].id = me.dbId
    BY <1>2
  <2> HIDE DEF D
  <2> QED BY <2>1
<1> HIDE DEF D
<1> QED BY <1>2, <1>3, <1>4 DEF TableAt, Seeking

\* A request for a row, and one in search of its database.
LEMMA OtherKnows ==
  ASSUME NEW kind \in Kind, TypedBy(kind), RowsLeft(kind), NEW me \in ThreadT, Knows(me),
         Placed(me, kind), UNCHANGED g_srDbCtrlManager, D'.data = D.data,
         me.op = "create" => NewDb(me)', me.op = "table" => TableAt(me)',
         me.op = "table" => D'.size \in Int /\ D.size <= D'.size, StillReads(me)
  PROVE  Knows(me)'
<1>1. me.op = "insert" => RowAt(me)'
  BY RowAtLeft
<1>2. TheManager' = TheManager
  BY DEF TheManager
<1>3. ASSUME me.op = "table", me.pc \in Searching, me.pass = 1 PROVE Seeking(me, D)'
  <2>1. g_srDbCtrlManager # NULL /\ Seeking(me, D)
    BY <1>3 DEF Knows
  <2>2. D.size \in Int /\ D'.size \in Int /\ D.size <= D'.size /\ me.i \in Int
    BY <1>3, <2>1, DTyped DEF ThreadT
  <2> HIDE DEF D
  <2> QED BY <2>1, <2>2 DEF Seeking
<1> HIDE DEF D
<1> QED BY <1>1, <1>2, <1>3 DEF Knows

LEMMA CreateCopyItemKeepsTables ==
  ASSUME NEW kind \in Kind, TypedBy(kind), DbsInv, TablesInv, Alone', Apart',
         "lists" \notin races', NEW t \in Thread, CopyItem(t), thread[t].op = "create"
  PROVE  TablesInv'
<1>1. PICK me \in ThreadT : me = thread[t] /\ Placed(me, kind) /\ Knows(me)
  BY DEF TypedBy, ThreadsTyped, TablesInv
<1>2. me.pc = "copy" /\ me.op = "create" /\ ~ Special(me)
  BY <1>1 DEF CopyItem, At, Special
<1>3. /\ Vector(t) = D /\ D.size \in Nat /\ g_srDbCtrlManager # NULL
  BY <1>1, <1>2, MakerHas DEF Maker
<1>4. Vectors
  BY <1>1, <1>2, VectorsThere
<1>5. PICK b \in Of(kind, "dbs") : b = D.data
  BY <1>1, <1>2, <1>4, TablesNow
<1>6. PICK n \in Nat : n = D.size
  BY <1>3
<1>7. PICK slot : slot = n + 1
  OBVIOUS
<1>8. PICK new : new = [me EXCEPT !.pc = "size"]
  OBVIOUS
<1>9. /\ thread' = [thread EXCEPT ![t] = new]
      /\ UNCHANGED <<g_srDbCtrlManager, dbCtrlList, acked>>
      /\ IsArray(b) /\ slot \in DOMAIN buffer[b]
      /\ buffer' = [buffer EXCEPT ![b] = [buffer[b] EXCEPT ![slot] = me.item]]
  BY <1>1, <1>3, <1>5, <1>6, <1>7, <1>8 DEF CopyItem, Goes, IsSlot
<1>10. new.op = "create" /\ new.pc = "size" /\ new.item = me.item
  BY <1>2, <1>8 DEF ThreadT
<1>11. D' = D /\ Vectors'
  BY <1>4, <1>9, <1>10 DEF D, Vectors, TypedBy, ThreadsTyped
<1>12. /\ Whole(me.item.list) /\ me.item.list.size = 0 /\ me.item \in DbT(kind)
       /\ \A k \in 1 .. n : ListOf(me, k).data # me.item.list.data
  BY <1>1, <1>2, <1>6 DEF Knows, NewDb, Filling, Placed, ItemT
<1>13. /\ buffer'[b][slot] = me.item
       /\ \A j \in DOMAIN buffer[b] : j # slot => buffer'[b][j] = buffer[b][j]
       /\ \A c \in Of(kind, "tables") : buffer'[c] = buffer[c]
       /\ RowsLeft(kind)
  <2>1. PICK x \in DbT(kind) : x = me.item
    BY <1>12
  <2>2. /\ IsArray(b) /\ Whole(x.list) /\ slot \in DOMAIN buffer[b]
        /\ buffer' = [buffer EXCEPT ![b] = [buffer[b] EXCEPT ![slot] = x]]
    BY <1>9, <1>12, <2>1
  <2>3. /\ kind \in Kind /\ TypedBy(kind) /\ b \in Of(kind, "dbs") /\ x \in DbT(kind)
    OBVIOUS
  <2>4. buffer'[b][slot] = x
    BY <2>2 DEF TypedBy, Of
  <2>5. \A j \in DOMAIN buffer[b] : j # slot => buffer'[b][j] = buffer[b][j]
    BY ONLY <2>2, <2>3, DbWritten
  <2>6. (\A c \in Of(kind, "tables") : buffer'[c] = buffer[c]) /\ RowsLeft(kind)
    BY ONLY <2>2, <2>3, DbWritten
  <2> QED BY <2>1, <2>4, <2>5, <2>6
<1>14. PICK list : list = Lists(Idle)
  OBVIOUS
<1>15. /\ TablesIn(b, 0, list)
       /\ \A k \in 1 .. n :
            /\ IsItem(b, k) /\ list[k] = buffer[b][k].list
            /\ list[k] \in [data : Of(kind, "tables"), size : Int, capacity : Nat]
            /\ Whole(list[k])
  BY <1>1, <1>2, <1>4, <1>5, <1>6, <1>14, TablesNow
<1>16. \A k \in 1 .. n : /\ buffer'[b][k] = buffer[b][k] /\ Whole(list[k])'
                         /\ buffer'[list[k].data] = buffer[list[k].data]
  <2> TAKE k \in 1 .. n
  <2>1. buffer'[b][k] = buffer[b][k]
    BY <1>7, <1>13, <1>15 DEF IsItem
  <2>2. PICK v \in [data : Of(kind, "tables"), size : Int, capacity : Nat] : v = list[k]
    BY <1>15
  <2>3. buffer'[v.data] = buffer[v.data]
    BY <1>13
  <2>4. Whole(v)'
    BY <1>15, <2>2, <2>3, WholeSame
  <2> QED BY <2>1, <2>2, <2>3, <2>4
<1>17. TablesIn(b, 0, list)'
  <2>1. \A i, j \in (1 .. n) \ {0} : list[i].data = list[j].data => i = j
    BY <1>6, <1>15 DEF TablesIn
  <2>2. D'.size = D.size /\ acked'.tables = acked.tables
    BY <1>9, <1>11
  <2> HIDE DEF D
  <2> QED BY <1>6, <1>15, <1>16, <2>1, <2>2, TablesMoved
<1>18. \A k \in 1 .. n : ListOf(Idle, k)' = list[k] /\ ListOf(new, k)' = list[k]
                         /\ ListOf(me, k) = list[k]
  BY <1>2, <1>5, <1>10, <1>11, <1>15, <1>16 DEF ListOf, Array, Idle
<1>19. TablesAs(Idle)'
  <2>1. Array(Idle)' = b /\ Hole(Idle)' = 0
    BY <1>5, <1>11 DEF Array, Hole, Idle
  <2>2. Lists(Idle)' = list
    <3>1. list = [k \in 1 .. n |-> ListOf(Idle, k)]
      BY <1>6, <1>14 DEF Lists
    <3>2. \A k \in 1 .. n : ListOf(Idle, k)' = ListOf(Idle, k)
      BY <1>18, <3>1
    <3> QED BY <1>6, <1>11, <3>1, <3>2 DEF Lists
  <2> QED BY <1>17, <2>1, <2>2 DEF TablesAs
<1>20. Knows(new)'
  <2>1. PICK v \in [data : Of(kind, "tables"), size : Int, capacity : Nat] : v = me.item.list
    BY <1>12 DEF DbT
  <2>2. Whole(v)'
    BY <1>12, <1>13, <2>1, WholeSame
  <2>3. buffer'[D'.data][D'.size + 1] = me.item
    BY <1>5, <1>6, <1>7, <1>11, <1>13
  <2>4. \A k \in 1 .. D'.size : ListOf(new, k)'.data # me.item.list.data
    BY <1>6, <1>11, <1>12, <1>18
  <2>5. NewDb(new)'
    BY <1>10, <1>12, <2>1, <2>2, <2>3, <2>4 DEF NewDb
  <2> QED BY <1>10, <2>5 DEF Knows
<1>21. ASSUME NEW u \in Thread, NEW you \in ThreadT, u # t, you = thread[u]
       PROVE  Knows(you)'
  <2>1. Knows(you) /\ ~ Maker(you) /\ Placed(you, kind) /\ you.pc # "setData"
    BY <1>1, <1>2, <1>21, NobodyElse
       DEF TablesInv, DbsInv, OneMaker, Maker, TypedBy, ThreadsTyped, Special
  <2>2. you.op = "table" => TableAt(you)'
    <3>1. PICK k : k = you.place.index
      OBVIOUS
    <3>2. PICK v : v = buffer[D.data][k].list
      OBVIOUS
    <3>3. k \in 1 .. D.size => /\ buffer'[D.data][k].id = buffer[D.data][k].id
                               /\ buffer'[D.data][k].list = v
                               /\ buffer'[v.data] = buffer[v.data]
      BY <1>5, <1>6, <1>15, <1>16, <3>2
    <3>4. /\ D'.data = D.data /\ D.size \in Nat /\ D'.size \in Nat /\ D.size <= D'.size
      BY <1>3, <1>11
    <3> HIDE DEF D
    <3> QED BY <1>11, <2>1, <3>1, <3>2, <3>3, <3>4, TableAtElsewhere DEF Knows
  <2>3. StillReads(you)
    <3>1. "lists" \notin Meets(b, slot)
      BY <1>3, <1>5, <1>6, <1>7 DEF CopyItem
    <3>2. \A c \in Of(kind, "dbs") : c # b => buffer'[c] = buffer[c]
      BY <1>9 DEF Of, TypedBy
    <3> QED BY <1>13, <1>21, <2>1, <3>1, <3>2, ReadsElsewhere
  <2>4. D'.data = D.data /\ D'.size \in Int /\ D.size <= D'.size
    BY <1>3, <1>11
  <2> QED BY <1>9, <1>13, <2>1, <2>2, <2>3, <2>4, OtherKnows DEF Maker
<1>22. ~ Special(new)
  BY <1>10 DEF Special
<1> QED BY <1>1, <1>2, <1>9, <1>10, <1>11, <1>19, <1>20, <1>21, <1>22, TablesStep

LEMMA CreateAddSizeKeepsTables ==
  ASSUME NEW kind \in Kind, TypedBy(kind), DbsInv, TablesInv, Alone', Apart',
         NEW t \in Thread, AddSize(t), thread[t].op = "create"
  PROVE  TablesInv'
<1>1. PICK me \in ThreadT : me = thread[t] /\ Placed(me, kind) /\ Knows(me)
  BY DEF TypedBy, ThreadsTyped, TablesInv
<1>2. me.pc = "size" /\ me.op = "create" /\ ~ Special(me)
  BY <1>1 DEF AddSize, At, Special
<1>3. /\ g_srDbCtrlManager # NULL /\ g_srDbCtrlManager \in Manager
      /\ me.place = TheManager /\ Vector(t) = D /\ D \in ManagerT(kind) /\ D.size \in Nat
  BY <1>1, <1>2, MakerHas DEF Maker
<1>4. Vectors
  BY <1>1, <1>2, VectorsThere
<1>5. PICK b \in Of(kind, "dbs") : b = D.data
  BY <1>1, <1>2, <1>4, TablesNow
<1>6. PICK n \in Nat : n = D.size
  BY <1>3
<1>7. PICK vector : vector = [D EXCEPT !.size = n + 1]
  OBVIOUS
<1>8. /\ dbCtrlList' = [dbCtrlList EXCEPT ![g_srDbCtrlManager] = vector]
      /\ UNCHANGED <<g_srDbCtrlManager, buffer>>
      /\ thread' = [thread EXCEPT ![t] = Idle]
  BY <1>1, <1>3, <1>6, <1>7, AtTheManager DEF AddSize, SetVector, Answers
<1>9. D'.size = n + 1 /\ D'.data = b
  <2>1. D' = vector
    BY <1>3, <1>8 DEF D, TypedBy, ManagersTyped
  <2> QED BY <1>3, <1>5, <1>7, <2>1 DEF ManagerT
<1>10. acked'.tables = acked.tables
  BY <1>1, <1>2 DEF AddSize, TypedBy, RestTyped
<1>11. PICK v \in [data : Of(kind, "tables"), size : Int, capacity : Nat] :
         v = me.item.list /\ Whole(v) /\ v.size = 0 /\ buffer[b][n + 1].list = v
  <2>1. me.item \in DbT(kind)
    BY <1>1, <1>2 DEF Placed, Filling, ItemT
  <2>2. /\ Whole(me.item.list) /\ me.item.list.size = 0
        /\ buffer[b][n + 1] = me.item
    BY <1>1, <1>2, <1>5, <1>6 DEF Knows, NewDb, Filling
  <2> QED BY <2>1, <2>2 DEF DbT
<1>12. PICK list : list = Lists(Idle)
  OBVIOUS
<1>13. /\ TablesIn(b, 0, list)
       /\ \A k \in 1 .. n : list[k] = buffer[b][k].list
  BY <1>1, <1>2, <1>4, <1>5, <1>6, <1>12, TablesNow
<1>14. \A k \in 1 .. n : list[k].data # v.data
  <2>1. \A k \in 1 .. n : ListOf(me, k) = list[k]
    BY <1>2, <1>5, <1>13 DEF ListOf, Array
  <2> QED BY <1>1, <1>2, <1>6, <1>11, <2>1 DEF Knows, NewDb, Filling
<1>15. /\ \A k \in 1 .. n : k \in 1 .. n + 1 /\ k # n + 1
       /\ \A k \in 1 .. n + 1 : k \in 1 .. n \/ k = n + 1
       /\ (1 .. n) \ {0} = 1 .. n /\ (1 .. n + 1) \ {0} = 1 .. n + 1
       /\ 1 .. 0 = {}
  OBVIOUS
<1>16. PICK more : more = [k \in 1 .. n + 1 |-> IF k \in 1 .. n THEN list[k] ELSE v]
  OBVIOUS
<1>17. (\A k \in 1 .. n : more[k] = list[k]) /\ more[n + 1] = v
  BY <1>15, <1>16
<1>18. \A w : Whole(w)' <=> Whole(w)
  BY <1>8 DEF Whole, IsArray
<1>19. TablesIn(b, 0, more)'
  <2> HIDE DEF D
  <2>1. \A k \in 1 .. n + 1 : Whole(more[k])
    BY <1>6, <1>11, <1>13, <1>15, <1>17 DEF TablesIn
  <2>2. \A k, j \in 1 .. n + 1 : more[k].data = more[j].data => k = j
    BY <1>6, <1>13, <1>14, <1>15, <1>17 DEF TablesIn
  <2>3. \A k \in 1 .. n + 1 : \A j \in 1 .. more[k].size :
          /\ buffer[more[k].data][j].dbId = buffer[b][k].id
          /\ \A i \in 1 .. more[k].size :
               buffer[more[k].data][j].name = buffer[more[k].data][i].name => j = i
    <3> TAKE k \in 1 .. n + 1
    <3>1. CASE k \in 1 .. n
      BY <1>6, <1>13, <1>15, <1>17, <3>1 DEF TablesIn
    <3>2. CASE k = n + 1
      BY <1>11, <1>15, <1>17, <3>2
    <3> QED BY <1>15, <3>1, <3>2
  <2>4. \A table \in acked.tables : \E k \in 1 .. n + 1 :
          /\ buffer[b][k].id = table.dbId
          /\ \E j \in 1 .. more[k].size : buffer[more[k].data][j].id = table.id
    <3> TAKE table \in acked.tables
    <3>1. PICK k \in 1 .. n :
            /\ buffer[b][k].id = table.dbId
            /\ \E j \in 1 .. list[k].size : buffer[list[k].data][j].id = table.id
      BY <1>6, <1>13, <1>15 DEF TablesIn
    <3> QED BY <1>15, <1>17, <3>1
  <2> QED BY <1>8, <1>9, <1>10, <1>15, <1>18, <2>1, <2>2, <2>3, <2>4 DEF TablesIn
<1>20. TablesAs(Idle)'
  <2>1. Array(Idle)' = b /\ Hole(Idle)' = 0
    BY <1>9 DEF Array, Hole, Idle
  <2>2. Lists(Idle)' = more
    <3>1. \A k \in 1 .. n + 1 : ListOf(Idle, k)' = more[k]
      BY <1>8, <1>9, <1>11, <1>13, <1>15, <1>17 DEF ListOf, Array, Idle
    <3> QED BY <1>9, <1>16, <3>1 DEF Lists
  <2> QED BY <1>19, <2>1, <2>2 DEF TablesAs
<1>21. Vectors'
  BY <1>4, <1>8, IdleKnows DEF Vectors, TypedBy, ThreadsTyped
<1>22. RowsLeft(kind)
  BY <1>8 DEF RowsLeft, IsItem, IsArray, Whole
<1>23. ASSUME NEW u \in Thread, NEW you \in ThreadT, u # t, you = thread[u]
       PROVE  Knows(you)'
  <2>1. Knows(you) /\ ~ Maker(you) /\ Placed(you, kind) /\ you.pc # "setData"
    BY <1>1, <1>2, <1>23, NobodyElse
       DEF TablesInv, DbsInv, OneMaker, Maker, TypedBy, ThreadsTyped, Special
  <2>2. you.op = "table" => TableAt(you)'
    <3>1. PICK k : k = you.place.index
      OBVIOUS
    <3>2. PICK w : w = buffer[D.data][k].list
      OBVIOUS
    <3>3. k \in 1 .. D.size => /\ buffer'[D.data][k].id = buffer[D.data][k].id
                               /\ buffer'[D.data][k].list = w
                               /\ buffer'[w.data] = buffer[w.data]
      BY <1>8, <3>2
    <3>4. /\ D'.data = D.data /\ D.size \in Nat /\ D'.size \in Nat /\ D.size <= D'.size
      BY <1>5, <1>6, <1>9
    <3> HIDE DEF D
    <3> QED BY <1>21, <2>1, <3>1, <3>2, <3>3, <3>4, TableAtElsewhere DEF Knows
  <2>3. StillReads(you)
    BY <1>8, <2>1, ReadingAt DEF StillReads
  <2>4. D'.data = D.data /\ D'.size \in Int /\ D.size <= D'.size
    BY <1>5, <1>6, <1>9
  <2> QED BY <1>8, <1>22, <2>1, <2>2, <2>3, <2>4, OtherKnows DEF Maker
<1>24. Knows(Idle)'
  BY DEF Knows, Idle
<1> QED BY <1>1, <1>2, <1>8, <1>20, <1>21, <1>23, <1>24, IdleKnows, TablesStep

\* A table is written into its array.
LEMMA LabelWritten ==
  ASSUME NEW kind \in Kind, TypedBy(kind), NEW b \in Of(kind, "tables"), IsArray(b),
         NEW i \in DOMAIN buffer[b], NEW x \in LabelItem,
         buffer' = [buffer EXCEPT ![b] = [buffer[b] EXCEPT ![i] = x]]
  PROVE  /\ buffer'[b][i] = x /\ x # Garbage
         /\ \A j \in DOMAIN buffer[b] : j # i => buffer'[b][j] = buffer[b][j]
         /\ \A c \in Buffer : c # b => buffer'[c] = buffer[c]
         /\ \A c \in Of(kind, "dbs") : buffer'[c] = buffer[c]
         /\ \A v \in [data : Of(kind, "tables"), size : Int, capacity : Nat] :
              Whole(v) => Whole(v)' /\ \A j \in 1 .. v.size : j \in DOMAIN buffer[v.data]
         /\ RowsLeft(kind)
<1>1. PICK k \in {"dbs", "tables"} : k = "tables"
  OBVIOUS
<1>2. /\ b \in Of(kind, k) /\ x \in ItemT(kind, k) \cup {Garbage}
      /\ IsArray(b) /\ buffer' = [buffer EXCEPT ![b] = [buffer[b] EXCEPT ![i] = x]]
  BY <1>1 DEF ItemT
<1>3. /\ buffer'[b][i] = x
      /\ \A j \in DOMAIN buffer[b] : j # i => buffer'[b][j] = buffer[b][j]
      /\ \A c \in Buffer : c # b => buffer'[c] = buffer[c]
      /\ buffer'[b] = [buffer[b] EXCEPT ![i] = x]
  BY <1>2 DEF TypedBy, Of
<1>4. IsArray(b)' /\ Len(buffer'[b]) = Len(buffer[b])
  <2>1. x \in ItemT(kind, k) \cup {Garbage} /\ b \in Of(kind, k)
    BY <1>2
  <2>2. /\ IsArray(b) /\ i \in DOMAIN buffer[b]
        /\ buffer' = [buffer EXCEPT ![b] = [buffer[b] EXCEPT ![i] = x]]
    OBVIOUS
  <2>3. k \in {"dbs", "tables"} /\ TypedBy(kind) /\ kind \in Kind
    OBVIOUS
  <2>4. IsArray(b)'
    BY ONLY <2>1, <2>2, <2>3, WrittenTyped
  <2>5. Len(buffer'[b]) = Len(buffer[b])
    BY ONLY <2>1, <2>2, <2>3, WrittenTyped
  <2> QED BY <2>4, <2>5
<1>5. DOMAIN buffer'[b] = DOMAIN buffer[b]
  BY <1>3
<1>6. x # Garbage
  BY SimpleRelThreadsAssumption
<1>7. \A c \in Of(kind, "dbs") : c \in Buffer /\ c # b /\ buffer'[c] = buffer[c]
  BY <1>3 DEF Of
<1>8. ASSUME NEW v \in [data : Of(kind, "tables"), size : Int, capacity : Nat], Whole(v)
      PROVE  Whole(v)' /\ \A j \in 1 .. v.size : j \in DOMAIN buffer[v.data]
  <2>1. v.data \in Of(kind, k) /\ v.data \in Buffer
    BY <1>1 DEF Of
  <2>2. DOMAIN buffer[v.data] = 1 .. Len(buffer[v.data]) /\ Len(buffer[v.data]) \in Nat
    BY <1>8, <2>1, ArrayAt DEF Whole
  <2>3. \A j \in 1 .. v.size : j \in DOMAIN buffer[v.data]
    BY <1>8, <2>2 DEF Whole
  <2>4. CASE v.data = b
    <3>1. \A j \in 1 .. v.size : buffer'[b][j] # Garbage
      BY <1>3, <1>6, <1>8, <2>3, <2>4 DEF Whole
    <3> QED BY <1>4, <1>8, <2>3, <2>4, <3>1 DEF Whole
  <2>5. CASE v.data # b
    BY <1>3, <1>8, <2>1, <2>3, <2>5, WholeSame
  <2> QED BY <2>4, <2>5
<1>9. ASSUME NEW c \in Of(kind, "dbs"), NEW j, IsItem(c, j), Whole(buffer[c][j].list)
      PROVE  IsItem(c, j)' /\ Whole(buffer[c][j].list)'
  <2>1. PICK l \in {"dbs", "tables"} : l = "dbs"
    OBVIOUS
  <2>2. PICK v \in [data : Of(kind, "tables"), size : Int, capacity : Nat] :
          v = buffer[c][j].list
    BY <1>9, <2>1, ItemAt
  <2>3. Whole(v)'
    BY <1>8, <1>9, <2>2
  <2> QED BY <1>7, <1>9, <2>2, <2>3 DEF IsItem, IsArray
<1>10. ASSUME NEW c \in Of(kind, "tables"), NEW j, IsItem(c, j) PROVE IsItem(c, j)'
  <2>1. CASE c = b
    BY <1>3, <1>4, <1>5, <1>6, <1>10, <2>1 DEF IsItem
  <2>2. CASE c # b
    BY <1>3, <1>10, <2>2 DEF IsItem, IsArray, Of
  <2> QED BY <2>1, <2>2
<1> QED BY <1>3, <1>6, <1>7, <1>8, <1>9, <1>10 DEF RowsLeft

\* A request for a new database whose vector nobody touches.
LEMMA NewDbElsewhere ==
  ASSUME NEW me, NewDb(me), me.op = "create", me.pc # "setData", D' = D,
         me.pc \in {"store"} \cup Filling =>
           buffer'[me.item.list.data] = buffer[me.item.list.data],
         me.pc = "size" => buffer'[D.data][D.size + 1] = buffer[D.data][D.size + 1],
         \A k \in 1 .. D.size : buffer'[D.data][k].list.data = buffer[D.data][k].list.data
  PROVE  NewDb(me)'
<1> SUFFICES ASSUME me.pc \in {"store"} \cup Filling PROVE NewDb(me)'
  BY DEF NewDb
<1>1. /\ Whole(me.item.list) /\ me.item.list.size = 0
      /\ \A k \in 1 .. D.size : ListOf(me, k).data # me.item.list.data
      /\ me.pc = "size" => buffer[D.data][D.size + 1] = me.item
  BY DEF NewDb
<1>2. PICK v : v = me.item.list
  OBVIOUS
<1>3. Whole(v)'
  BY <1>1, <1>2, WholeSame
<1>4. \A k \in 1 .. D.size : ListOf(me, k)'.data = ListOf(me, k).data
  BY DEF ListOf, Array
<1> HIDE DEF D
<1> QED BY <1>1, <1>2, <1>3, <1>4 DEF NewDb

LEMMA TableCopyItemKeepsTables ==
  ASSUME NEW kind \in Kind, TypedBy(kind), DbsInv, TablesInv, Alone', Apart',
         NEW t \in Thread, CopyItem(t), thread[t].op = "table"
  PROVE  TablesInv'
<1>1. PICK me \in ThreadT : me = thread[t] /\ Placed(me, kind) /\ Knows(me)
  BY DEF TypedBy, ThreadsTyped, TablesInv
<1>2. me.pc = "copy" /\ me.op = "table" /\ ~ Special(me)
  BY <1>1 DEF CopyItem, At, Special
<1>3. PICK k : k = me.place.index
  OBVIOUS
<1>4. TableAt(me) /\ InItem(me.place, kind, "dbs") /\ me.item \in LabelItem
  BY <1>1, <1>2 DEF Knows, Placed, Searching, Appending, Filling, ItemT
<1>5. PICK v \in [data : Of(kind, "tables"), size : Int, capacity : Nat] :
        v = ListOf(me, k) /\ Whole(v) /\ v = buffer[D.data][k].list
  BY <1>1, <1>2, <1>3, TableList DEF Searching, Appending, Filling
<1>6. PICK b \in Of(kind, "dbs") : b = D.data /\ b = me.place.data
  BY <1>1, <1>2, TableList DEF Searching, Appending, Filling
<1>7. /\ Vectors /\ k \in 1 .. D.size /\ buffer[b][k].id = me.dbId
      /\ \A j \in 1 .. v.size : buffer[v.data][j].name # me.name
      /\ me.item.name = me.name /\ me.item.dbId = me.dbId
      /\ v.size < v.capacity
  BY <1>2, <1>3, <1>4, <1>5, <1>6 DEF TableAt, Seeking, Searching, Appending, Filling
<1>8. PICK new : new = [me EXCEPT !.pc = "size"]
  OBVIOUS
<1>9. PICK slot : slot = v.size + 1
  OBVIOUS
<1>10. PICK c \in Of(kind, "tables") : c = v.data
  OBVIOUS
<1>11. /\ thread' = [thread EXCEPT ![t] = new]
       /\ UNCHANGED <<g_srDbCtrlManager, dbCtrlList, acked>>
       /\ IsArray(c) /\ slot \in DOMAIN buffer[c]
       /\ buffer' = [buffer EXCEPT ![c] = [buffer[c] EXCEPT ![slot] = me.item]]
  <2>1. Vector(t) = v
    BY <1>1, <1>3, <1>4, <1>5, <1>6, VectorTyped DEF Vector
  <2> QED BY <1>1, <1>8, <1>9, <1>10, <2>1 DEF CopyItem, Goes, IsSlot
<1>12. /\ new.op = "table" /\ new.pc = "size" /\ new.item = me.item /\ new.pass = me.pass
       /\ new.place = me.place /\ new.name = me.name /\ new.dbId = me.dbId
  BY <1>2, <1>8 DEF ThreadT
<1>13. D' = D /\ Vectors'
  BY <1>7, <1>11, <1>12 DEF D, Vectors, TypedBy, ThreadsTyped
<1>14. /\ buffer'[c][slot] = me.item /\ me.item # Garbage
       /\ \A j \in DOMAIN buffer[c] : j # slot => buffer'[c][j] = buffer[c][j]
       /\ \A d \in Buffer : d # c => buffer'[d] = buffer[d]
       /\ \A d \in Of(kind, "dbs") : buffer'[d] = buffer[d]
       /\ \A w \in [data : Of(kind, "tables"), size : Int, capacity : Nat] :
            Whole(w) => Whole(w)' /\ \A j \in 1 .. w.size : j \in DOMAIN buffer[w.data]
       /\ RowsLeft(kind)
  <2>1. PICK x \in LabelItem : x = me.item
    BY <1>4
  <2>2. /\ IsArray(c) /\ slot \in DOMAIN buffer[c]
        /\ buffer' = [buffer EXCEPT ![c] = [buffer[c] EXCEPT ![slot] = x]]
    BY <1>11, <2>1
  <2> QED BY <2>1, <2>2, LabelWritten
<1>15. PICK n : n = D.size
  OBVIOUS
<1>16. PICK list : list = Lists(Idle)
  OBVIOUS
<1>17. /\ TablesIn(b, 0, list) /\ (1 .. n) \ {0} = 1 .. n
       /\ \A j \in 1 .. n :
            /\ IsItem(b, j) /\ list[j] = buffer[b][j].list
            /\ list[j] \in [data : Of(kind, "tables"), size : Int, capacity : Nat]
            /\ Whole(list[j])
  BY <1>1, <1>2, <1>6, <1>7, <1>15, <1>16, TablesNow
<1>18. \A j, i \in 1 .. n : list[j].data = list[i].data => j = i
  BY <1>15, <1>17 DEF TablesIn
<1>19. \A j \in 1 .. n : j # k => /\ buffer'[list[j].data] = buffer[list[j].data]
                                  /\ list[j].data # c
  <2> SUFFICES ASSUME NEW j \in 1 .. n, j # k
               PROVE  buffer'[list[j].data] = buffer[list[j].data] /\ list[j].data # c
    OBVIOUS
  <2>1. list[j].data # c
    BY <1>5, <1>6, <1>7, <1>10, <1>15, <1>17, <1>18
  <2>2. list[j].data \in Buffer
    BY <1>17 DEF Of
  <2> QED BY <1>14, <2>1, <2>2
<1>20. \A j \in 1 .. v.size : j # slot /\ j \in DOMAIN buffer[c] /\ buffer'[c][j] = buffer[c][j]
  <2> TAKE j \in 1 .. v.size
  <2>1. j \in DOMAIN buffer[c]
    BY <1>5, <1>10, <1>14
  <2> QED BY <1>9, <1>14, <2>1
<1>21. TablesIn(b, 0, list)'
  <2>1. \A j \in 1 .. n : \A i \in 1 .. list[j].size :
          buffer'[list[j].data][i] = buffer[list[j].data][i]
    <3> TAKE j \in 1 .. n
    <3>1. CASE j = k
      <4>1. list[j] = v
        BY <1>5, <1>6, <1>17, <3>1
      <4>2. \A i \in 1 .. v.size : buffer'[v.data][i] = buffer[v.data][i]
        BY <1>10, <1>20
      <4> QED BY <4>1, <4>2
    <3>2. CASE j # k
      BY <1>19, <3>2
    <3> QED BY <3>1, <3>2
  <2>2. \A j \in 1 .. n : Whole(list[j])'
    <3> TAKE j \in 1 .. n
    <3>1. PICK w \in [data : Of(kind, "tables"), size : Int, capacity : Nat] : w = list[j]
      BY <1>17
    <3>2. Whole(w)'
      BY <1>14, <1>17, <3>1
    <3> QED BY <3>1, <3>2
  <2>3. D'.size = D.size /\ acked'.tables = acked.tables /\ buffer'[b] = buffer[b]
    BY <1>11, <1>13, <1>14
  <2> HIDE DEF D
  <2> QED BY <1>15, <1>17, <1>18, <2>1, <2>2, <2>3, TablesMoved
<1>22. \A j \in 1 .. n : ListOf(Idle, j)' = list[j] /\ ListOf(new, j)' = list[j]
  <2>1. D'.data = b /\ \A j \in 1 .. n : buffer'[b][j].list = list[j]
    BY <1>6, <1>13, <1>14, <1>17
  <2> QED BY <1>12, <2>1 DEF ListOf, Array, Idle
<1>23. TablesAs(Idle)'
  <2>1. Array(Idle)' = b /\ Hole(Idle)' = 0
    BY <1>6, <1>13 DEF Array, Hole, Idle
  <2>2. Lists(Idle)' = list
    <3>1. list = [j \in 1 .. n |-> ListOf(Idle, j)]
      BY <1>15, <1>16 DEF Lists
    <3>2. \A j \in 1 .. n : ListOf(Idle, j)' = ListOf(Idle, j)
      BY <1>22, <3>1
    <3> QED BY <1>13, <1>15, <3>1, <3>2 DEF Lists
  <2> QED BY <1>21, <2>1, <2>2 DEF TablesAs
<1>24. Knows(new)'
  <2>1. ListOf(new, k)' = v
    BY <1>5, <1>6, <1>7, <1>15, <1>17, <1>22
  <2>2. \A j \in 1 .. v.size : buffer'[v.data][j].name # me.name
    BY <1>7, <1>10, <1>20
  <2>3. buffer'[v.data][v.size + 1] = me.item /\ me.item # Garbage
    BY <1>9, <1>10, <1>14
  <2>4. TableAt(new)'
    <3>1. /\ new.place.index = k /\ new.place.data = D'.data /\ k \in 1 .. D'.size
          /\ buffer'[D'.data][k].id = new.dbId
          /\ new.item.name = new.name /\ new.item.dbId = new.dbId
      BY <1>3, <1>6, <1>7, <1>12, <1>13, <1>14
    <3> HIDE DEF D
    <3> QED BY <1>7, <1>12, <1>13, <2>1, <2>2, <2>3, <3>1 DEF TableAt, Seeking, Searching
  <2> QED BY <1>1, <1>2, <1>12, <2>4 DEF Knows, Searching
<1>25. ASSUME NEW u \in Thread, NEW you \in ThreadT, u # t, you = thread[u]
       PROVE  Knows(you)'
  <2>1. Knows(you) /\ Placed(you, kind) /\ you.pc # "setData"
    BY <1>1, <1>2, <1>25, NobodyElse DEF TablesInv, TypedBy, ThreadsTyped, Special
  <2>2. you.op = "table" => TableAt(you)'
    <3> SUFFICES ASSUME you.op = "table",
                        you.pc \in Appending \/ (you.pc \in Searching /\ you.pass = 2)
                 PROVE  TableAt(you)'
      BY DEF TableAt
    <3>1. PICK i : i = you.place.index
      OBVIOUS
    <3>2. PICK w : w = buffer[D.data][i].list
      OBVIOUS
    <3>3. /\ you.dbId # me.dbId
          /\ i \in 1 .. D.size /\ buffer[D.data][i].id = you.dbId
      BY <1>1, <1>2, <1>25, <2>1, <3>1 DEF TablesInv, Apart, Knows, TableAt
    <3>4. i # k /\ w = list[i]
      BY <1>6, <1>7, <1>15, <1>17, <3>2, <3>3
    <3>5. /\ buffer'[D.data][i].id = buffer[D.data][i].id
          /\ buffer'[D.data][i].list = w
          /\ buffer'[w.data] = buffer[w.data]
      BY <1>6, <1>14, <1>15, <1>19, <3>2, <3>3, <3>4
    <3>6. /\ D'.data = D.data /\ D.size \in Nat /\ D'.size \in Nat /\ D.size <= D'.size
      <4>1. D.size \in Nat
        BY <1>6, <1>7, <1>17, DTyped, ListsTyped, NobodyElse, <1>1, <1>2 DEF TablesInv
      <4> QED BY <1>13, <4>1
    <3> HIDE DEF D
    <3> QED BY <1>13, <2>1, <3>1, <3>2, <3>5, <3>6, TableAtElsewhere DEF Knows
  <2>3. you.op = "create" => NewDb(you)'
    <3> SUFFICES ASSUME you.op = "create", you.pc \in {"store"} \cup Filling
                 PROVE  NewDb(you)'
      BY DEF NewDb
    <3>1. you.item \in DbT(kind) /\ ListOf(you, k).data # you.item.list.data
      BY <1>7, <2>1 DEF Knows, NewDb, Placed, Filling, ItemT
    <3>2. ListOf(you, k) = v
      BY <1>5, <2>1 DEF ListOf, Array
    <3>3. buffer'[you.item.list.data] = buffer[you.item.list.data]
      BY <1>10, <1>14, <3>1, <3>2 DEF DbT, Of
    <3>4. buffer'[D.data] = buffer[D.data]
      BY <1>6, <1>14
    <3>5. NewDb(you)
      BY <2>1 DEF Knows
    <3>6. D' = D
      BY <1>13
    <3> HIDE DEF D
    <3> QED BY <2>1, <3>3, <3>4, <3>5, <3>6, NewDbElsewhere
  <2>4. StillReads(you)
    BY <1>14, <2>1, ReadingAt DEF StillReads
  <2>5. you.op = "table" => D.size \in Int
    BY <1>7, DTyped DEF Vectors
  <2>6. D'.data = D.data /\ (you.op = "table" => D'.size \in Int /\ D.size <= D'.size)
    BY <1>13, <2>5
  <2> QED BY <1>11, <1>14, <2>1, <2>2, <2>3, <2>4, <2>6, OtherKnows
<1>26. ~ Special(new)
  BY <1>12 DEF Special
<1> QED BY <1>1, <1>2, <1>11, <1>12, <1>13, <1>23, <1>24, <1>25, <1>26, TablesStep

\* The slot behind the last database, once the new one is in it.
LEMMA SlotThere ==
  ASSUME NEW kind \in Kind, TypedBy(kind), DbsInv, NEW t \in Thread,
         thread[t].op = "create", thread[t].pc = "size"
  PROVE  D.size \in Nat /\ D.size + 1 \in DOMAIN buffer[D.data]
<1>1. PICK me \in ThreadT : me = thread[t]
  BY MakerIs DEF Maker
<1>2. /\ D.size \in Nat /\ D.capacity \in Nat /\ DbsIn(D.data, D.capacity, 0)
      /\ Creating(me) /\ D.data \in Of(kind, "dbs")
  BY <1>1, MakerHas DEF Maker
<1>3. D.size < D.capacity /\ D.capacity <= Len(buffer[D.data]) /\ IsArray(D.data)
  BY <1>1, <1>2 DEF Creating, DbsIn
<1>4. PICK k \in {"dbs", "tables"} : k = "dbs"
  OBVIOUS
<1>5. DOMAIN buffer[D.data] = 1 .. Len(buffer[D.data]) /\ Len(buffer[D.data]) \in Nat
  BY <1>2, <1>3, <1>4, ArrayAt
<1> QED BY <1>2, <1>3, <1>5

LEMMA TableAddSizeKeepsTables ==
  ASSUME NEW kind \in Kind, TypedBy(kind), DbsInv, TablesInv, Alone', Apart',
         NEW t \in Thread, AddSize(t), thread[t].op = "table"
  PROVE  TablesInv'
<1>1. PICK me \in ThreadT : me = thread[t] /\ Placed(me, kind) /\ Knows(me)
  BY DEF TypedBy, ThreadsTyped, TablesInv
<1>2. me.pc = "size" /\ me.op = "table" /\ ~ Special(me)
  BY <1>1 DEF AddSize, At, Special
<1>3. PICK k : k = me.place.index
  OBVIOUS
<1>4. TableAt(me) /\ InItem(me.place, kind, "dbs") /\ me.item \in LabelItem
  BY <1>1, <1>2 DEF Knows, Placed, Searching, Appending, Filling, ItemT
<1>5. PICK v \in [data : Of(kind, "tables"), size : Int, capacity : Nat] :
        v = ListOf(me, k) /\ Whole(v) /\ v = buffer[D.data][k].list
  BY <1>1, <1>2, <1>3, TableList DEF Searching, Appending, Filling
<1>6. PICK b \in Of(kind, "dbs") : b = D.data /\ b = me.place.data
  BY <1>1, <1>2, TableList DEF Searching, Appending, Filling
<1>7. /\ Vectors /\ k \in 1 .. D.size /\ buffer[b][k].id = me.dbId
      /\ \A j \in 1 .. v.size : buffer[v.data][j].name # me.name
      /\ me.item.name = me.name /\ me.item.dbId = me.dbId
      /\ v.size < v.capacity
      /\ buffer[v.data][v.size + 1] # Garbage
      /\ buffer[v.data][v.size + 1].name = me.item.name
      /\ buffer[v.data][v.size + 1].id = me.item.id
      /\ buffer[v.data][v.size + 1].dbId = me.item.dbId
  BY <1>2, <1>3, <1>4, <1>5, <1>6 DEF TableAt, Seeking, Searching, Appending, Filling
<1>8. PICK m \in Nat : m = v.size
  BY <1>5 DEF Whole
<1>9. PICK vector : vector = [v EXCEPT !.size = m + 1]
  OBVIOUS
<1>10. /\ vector \in [data : Of(kind, "tables"), size : Int, capacity : Nat]
       /\ vector.data = v.data /\ vector.size = m + 1 /\ vector.capacity = v.capacity
  BY <1>9
<1>11. Whole(vector)
  <2>1. \A j \in 1 .. m + 1 : j \in 1 .. m \/ j = m + 1
    OBVIOUS
  <2>2. /\ IsArray(v.data) /\ m < v.capacity /\ 1 <= v.capacity
        /\ v.capacity <= Len(buffer[v.data])
        /\ \A j \in 1 .. m : buffer[v.data][j] # Garbage
    BY <1>5, <1>7, <1>8 DEF Whole
  <2>3. m + 1 <= v.capacity /\ m + 1 \in Nat
    BY <2>2
  <2>4. \A j \in 1 .. m + 1 : buffer[v.data][j] # Garbage
    BY <1>7, <1>8, <2>1, <2>2
  <2> QED BY <1>10, <2>2, <2>3, <2>4 DEF Whole
<1>12. PICK n : n = D.size
  OBVIOUS
<1>13. PICK list : list = Lists(Idle)
  OBVIOUS
<1>14. /\ TablesIn(b, 0, list) /\ (1 .. n) \ {0} = 1 .. n
       /\ \A j \in 1 .. n :
            /\ IsItem(b, j) /\ buffer[b][j] \in DbT(kind) /\ list[j] = buffer[b][j].list
            /\ list[j] \in [data : Of(kind, "tables"), size : Int, capacity : Nat]
            /\ Whole(list[j])
  BY <1>1, <1>2, <1>6, <1>7, <1>12, <1>13, TablesNow
<1>15. list[k] = v /\ buffer[b][k] \in DbT(kind) /\ k \in DOMAIN buffer[b] /\ IsArray(b)
  BY <1>5, <1>6, <1>7, <1>12, <1>14 DEF IsItem
<1>16. PICK x \in DbT(kind) :
         x = [buffer[b][k] EXCEPT !.list = vector] /\ x.list = vector /\ x.id = me.dbId
  <2>1. PICK y : y = buffer[b][k]
    OBVIOUS
  <2>2. y \in DbT(kind) /\ y.id = me.dbId
    BY <1>7, <1>15, <2>1
  <2>3. PICK x : x = [y EXCEPT !.list = vector]
    OBVIOUS
  <2>4. x \in DbT(kind) /\ x.list = vector /\ x.id = me.dbId
    BY <1>10, <2>2, <2>3 DEF DbT
  <2> QED BY <2>1, <2>3, <2>4
<1>17. /\ thread' = [thread EXCEPT ![t] = Idle]
       /\ UNCHANGED <<g_srDbCtrlManager, dbCtrlList>>
       /\ buffer' = [buffer EXCEPT ![b] = [buffer[b] EXCEPT ![k] = x]]
  <2>1. Vector(t) = v
    BY <1>1, <1>3, <1>4, <1>5, <1>6, VectorTyped DEF Vector
  <2>2. ~ IsManager(me.place)
    BY <1>4, VectorTyped
  <2>3. SetVector(me.place, vector)
    BY <1>1, <1>8, <1>9, <2>1 DEF AddSize
  <2>4. buffer' = [buffer EXCEPT ![b] = [buffer[b] EXCEPT ![k] = x]] /\ UNCHANGED dbCtrlList
    BY <1>3, <1>6, <1>16, <2>2, <2>3 DEF SetVector
  <2> QED BY <2>4 DEF AddSize, Answers
<1>18. acked'.tables = acked.tables \cup {[dbId |-> me.dbId, id |-> me.item.id]}
  BY <1>1, <1>2, <1>7 DEF AddSize, TypedBy, RestTyped
<1>19. D' = D /\ Vectors'
  BY <1>7, <1>17, IdleKnows DEF D, Vectors, TypedBy, ThreadsTyped
<1>20. /\ buffer'[b][k] = x
       /\ \A j \in DOMAIN buffer[b] : j # k => buffer'[b][j] = buffer[b][j]
       /\ \A c \in Of(kind, "tables") : buffer'[c] = buffer[c]
       /\ RowsLeft(kind)
  <2>1. k \in DOMAIN buffer[b] /\ IsArray(b) /\ Whole(x.list)
        /\ buffer' = [buffer EXCEPT ![b] = [buffer[b] EXCEPT ![k] = x]]
    BY <1>11, <1>15, <1>16, <1>17
  <2>2. buffer'[b][k] = x
    BY <1>15, <1>17 DEF TypedBy, Of
  <2>3. /\ kind \in Kind /\ TypedBy(kind) /\ b \in Of(kind, "dbs") /\ x \in DbT(kind)
    OBVIOUS
  <2>4. \A j \in DOMAIN buffer[b] : j # k => buffer'[b][j] = buffer[b][j]
    BY ONLY <2>1, <2>3, DbWritten
  <2>5. (\A c \in Of(kind, "tables") : buffer'[c] = buffer[c]) /\ RowsLeft(kind)
    BY ONLY <2>1, <2>3, DbWritten
  <2> QED BY <2>2, <2>4, <2>5
<1>21. PICK more : more = [j \in 1 .. n |-> IF j = k THEN vector ELSE list[j]]
  OBVIOUS
<1>22. /\ k \in 1 .. n /\ more[k] = vector
       /\ \A j \in 1 .. n : j # k => more[j] = list[j]
       /\ \A j \in 1 .. n : more[j].data = list[j].data
  BY <1>7, <1>10, <1>12, <1>15, <1>21
<1>23. \A j \in 1 .. n : /\ buffer'[b][j].id = buffer[b][j].id
                         /\ buffer'[b][j].list = more[j]
                         /\ more[j] \in [data : Of(kind, "tables"), size : Int, capacity : Nat]
                         /\ buffer'[more[j].data] = buffer[more[j].data]
                         /\ Whole(more[j])
  <2> TAKE j \in 1 .. n
  <2>1. CASE j = k
    BY <1>7, <1>10, <1>11, <1>16, <1>20, <1>22, <2>1
  <2>2. CASE j # k
    <3>1. j \in DOMAIN buffer[b] /\ more[j] = list[j]
      BY <1>14, <1>22, <2>2 DEF IsItem
    <3> QED BY <1>14, <1>20, <2>2, <3>1
  <2> QED BY <2>1, <2>2
<1>24. TablesIn(b, 0, more)'
  <2> HIDE DEF D
  <2>1. \A j \in 1 .. n : Whole(more[j])'
    <3> TAKE j \in 1 .. n
    <3>1. PICK w \in [data : Of(kind, "tables"), size : Int, capacity : Nat] : w = more[j]
      BY <1>23
    <3>2. Whole(w)'
      BY <1>23, <3>1, WholeSame
    <3> QED BY <3>1, <3>2
  <2>2. \A j, i \in 1 .. n : more[j].data = more[i].data => j = i
    BY <1>12, <1>14, <1>22 DEF TablesIn
  <2>3. \A j \in 1 .. n : \A i \in 1 .. more[j].size :
          /\ buffer[more[j].data][i].dbId = buffer[b][j].id
          /\ \A l \in 1 .. more[j].size :
               buffer[more[j].data][i].name = buffer[more[j].data][l].name => i = l
    <3> TAKE j \in 1 .. n
    <3>1. \A i \in 1 .. list[j].size :
            /\ buffer[list[j].data][i].dbId = buffer[b][j].id
            /\ \A l \in 1 .. list[j].size :
                 buffer[list[j].data][i].name = buffer[list[j].data][l].name => i = l
      BY <1>12, <1>14 DEF TablesIn
    <3>2. CASE j # k
      BY <1>22, <3>1, <3>2
    <3>3. CASE j = k
      <4>1. \A i \in 1 .. m + 1 : i \in 1 .. m \/ i = m + 1
        OBVIOUS
      <4>2. \A i \in 1 .. m :
              /\ buffer[v.data][i].dbId = me.dbId
              /\ buffer[v.data][i].name # me.name
              /\ \A l \in 1 .. m : buffer[v.data][i].name = buffer[v.data][l].name => i = l
        BY <1>7, <1>8, <1>15, <3>1, <3>3
      <4>3. buffer[v.data][m + 1].dbId = me.dbId /\ buffer[v.data][m + 1].name = me.name
        BY <1>7, <1>8
      <4> QED BY <1>7, <1>10, <1>22, <3>3, <4>1, <4>2, <4>3
    <3> QED BY <3>2, <3>3
  <2>4. ASSUME NEW table \in acked'.tables
        PROVE  \E j \in 1 .. n :
                 /\ buffer[b][j].id = table.dbId
                 /\ \E i \in 1 .. more[j].size : buffer[more[j].data][i].id = table.id
    <3>1. CASE table \in acked.tables
      <4>1. PICK j \in 1 .. n :
              /\ buffer[b][j].id = table.dbId
              /\ \E i \in 1 .. list[j].size : buffer[list[j].data][i].id = table.id
        BY <1>12, <1>14, <3>1 DEF TablesIn
      <4>2. \A i \in 1 .. list[j].size : i \in 1 .. more[j].size
        <5>1. CASE j = k
          BY <1>8, <1>10, <1>15, <1>22, <5>1
        <5>2. CASE j # k
          BY <1>22, <5>2
        <5> QED BY <5>1, <5>2
      <4> QED BY <1>22, <4>1, <4>2
    <3>2. CASE table = [dbId |-> me.dbId, id |-> me.item.id]
      <4>1. m + 1 \in 1 .. more[k].size /\ buffer[more[k].data][m + 1].id = table.id
        BY <1>7, <1>8, <1>10, <1>22, <3>2
      <4> QED BY <1>7, <1>22, <3>2, <4>1
    <3> QED BY <1>18, <2>4, <3>1, <3>2
  <2>5. \A j \in 1 .. n : \A i \in 1 .. more[j].size :
          /\ buffer'[more[j].data][i].dbId = buffer'[b][j].id
          /\ \A l \in 1 .. more[j].size :
               buffer'[more[j].data][i].name = buffer'[more[j].data][l].name => i = l
    BY <1>23, <2>3
  <2>6. \A table \in acked'.tables : \E j \in 1 .. n :
          /\ buffer'[b][j].id = table.dbId
          /\ \E i \in 1 .. more[j].size : buffer'[more[j].data][i].id = table.id
    BY <1>23, <2>4
  <2>7. D'.size = n
    BY <1>12, <1>19
  <2> QED BY <1>14, <2>1, <2>2, <2>5, <2>6, <2>7 DEF TablesIn
<1>25. TablesAs(Idle)'
  <2>1. Array(Idle)' = b /\ Hole(Idle)' = 0
    BY <1>6, <1>19 DEF Array, Hole, Idle
  <2>2. Lists(Idle)' = more
    <3>1. \A j \in 1 .. n : ListOf(Idle, j)' = more[j]
      BY <1>6, <1>19, <1>23 DEF ListOf, Array, Idle
    <3> QED BY <1>12, <1>19, <1>21, <3>1 DEF Lists
  <2> QED BY <1>24, <2>1, <2>2 DEF TablesAs
<1>26. ASSUME NEW u \in Thread, NEW you \in ThreadT, u # t, you = thread[u]
       PROVE  Knows(you)'
  <2>1. Knows(you) /\ Placed(you, kind) /\ you.pc # "setData"
    BY <1>1, <1>2, <1>26, NobodyElse DEF TablesInv, TypedBy, ThreadsTyped, Special
  <2>2. you.op = "table" => TableAt(you)'
    <3> SUFFICES ASSUME you.op = "table",
                        you.pc \in Appending \/ (you.pc \in Searching /\ you.pass = 2)
                 PROVE  TableAt(you)'
      BY DEF TableAt
    <3>1. PICK i : i = you.place.index
      OBVIOUS
    <3>2. PICK w : w = buffer[D.data][i].list
      OBVIOUS
    <3>3. /\ you.dbId # me.dbId
          /\ i \in 1 .. D.size /\ buffer[D.data][i].id = you.dbId
      BY <1>1, <1>2, <1>26, <2>1, <3>1 DEF TablesInv, Apart, Knows, TableAt
    <3>4. i # k /\ w = list[i] /\ i \in DOMAIN buffer[b]
          /\ list[i] \in [data : Of(kind, "tables"), size : Int, capacity : Nat]
      BY <1>6, <1>7, <1>12, <1>14, <3>2, <3>3 DEF IsItem
    <3>5. /\ buffer'[D.data][i].id = buffer[D.data][i].id
          /\ buffer'[D.data][i].list = w
          /\ buffer'[w.data] = buffer[w.data]
      BY <1>6, <1>20, <3>2, <3>4
    <3>6. /\ D'.data = D.data /\ D.size \in Nat /\ D'.size \in Nat /\ D.size <= D'.size
      <4>1. D.size \in Nat
        BY <1>6, <1>7, <1>14, DTyped, ListsTyped, NobodyElse, <1>1, <1>2 DEF TablesInv
      <4> QED BY <1>19, <4>1
    <3> HIDE DEF D
    <3> QED BY <1>19, <2>1, <3>1, <3>2, <3>5, <3>6, TableAtElsewhere DEF Knows
  <2>3. you.op = "create" => NewDb(you)'
    <3> SUFFICES ASSUME you.op = "create", you.pc \in {"store"} \cup Filling
                 PROVE  NewDb(you)'
      BY DEF NewDb
    <3>1. you.item \in DbT(kind)
      BY <2>1 DEF Placed, ItemT
    <3>2. buffer'[you.item.list.data] = buffer[you.item.list.data]
      BY <1>20, <3>1 DEF DbT
    <3>3. you.pc = "size" => buffer'[D.data][D.size + 1] = buffer[D.data][D.size + 1]
      <4> SUFFICES ASSUME you.pc = "size"
                   PROVE  buffer'[D.data][D.size + 1] = buffer[D.data][D.size + 1]
        OBVIOUS
      <4>1. D.size \in Nat /\ D.size + 1 \in DOMAIN buffer[b]
        BY <1>6, <1>26, SlotThere
      <4>2. D.size + 1 # k
        BY <1>7, <4>1
      <4> QED BY <1>6, <1>20, <4>1, <4>2
    <3>4. \A j \in 1 .. D.size : buffer'[D.data][j].list.data = buffer[D.data][j].list.data
      BY <1>6, <1>12, <1>14, <1>22, <1>23
    <3>5. NewDb(you)
      BY <2>1 DEF Knows
    <3>6. D' = D
      BY <1>19
    <3> HIDE DEF D
    <3> QED BY <2>1, <3>2, <3>3, <3>4, <3>5, <3>6, NewDbElsewhere
  <2>4. StillReads(you)
    <3> SUFFICES ASSUME you.op = "insert", you.pc = "data", you.pass = 2
                 PROVE  you.i <= buffer'[you.place.data][you.place.index].list.size
      BY DEF StillReads
    <3>1. PICK place \in [data : Of(kind, "dbs"), index : Nat \ {0}] :
            /\ place = you.place /\ IsItem(place.data, place.index)
            /\ you.i <= buffer[place.data][place.index].list.size
      BY <2>1, ReadingAt
    <3>2. CASE place.data = b /\ place.index = k
      <4>1. you.i <= m /\ you.i \in Nat
        BY <1>5, <1>6, <1>8, <3>1, <3>2 DEF ThreadT
      <4>2. buffer'[place.data][place.index].list.size = m + 1
        BY <1>10, <1>16, <1>20, <3>2
      <4> QED BY <3>1, <4>1, <4>2
    <3>3. CASE ~ (place.data = b /\ place.index = k)
      <4>1. buffer'[place.data][place.index] = buffer[place.data][place.index]
        BY <1>17, <1>20, <3>1, <3>3 DEF IsItem, TypedBy, Of
      <4> QED BY <3>1, <4>1
    <3> QED BY <3>2, <3>3
  <2>5. you.op = "table" => D.size \in Int
    BY <1>7, DTyped DEF Vectors
  <2>6. D'.data = D.data /\ (you.op = "table" => D'.size \in Int /\ D.size <= D'.size)
    BY <1>19, <2>5
  <2> QED BY <1>17, <1>20, <2>1, <2>2, <2>3, <2>4, <2>6, OtherKnows
<1>27. Knows(Idle)'
  BY DEF Knows, Idle
<1> QED BY <1>1, <1>2, <1>17, <1>19, <1>25, <1>26, <1>27, IdleKnows, TablesStep

\* While a database is removed nobody but requests for rows is there.
LEMMA OnlyRows ==
  ASSUME NEW kind \in Kind, TypedBy(kind), DbsInv, TablesInv, RowsLeft(kind),
         UNCHANGED g_srDbCtrlManager, D'.data = D.data,
         \A u \in Thread : \A you \in ThreadT :
           you = thread[u] /\ Placed(you, kind) /\ Knows(you) => StillReads(you),
         NEW t \in Thread, thread[t].op = "drop"
  PROVE  \A u \in Thread : \A you \in ThreadT : u # t /\ you = thread[u] => Knows(you)'
<1> SUFFICES ASSUME NEW u \in Thread, NEW you \in ThreadT, u # t, you = thread[u]
             PROVE  Knows(you)'
  OBVIOUS
<1>1. Knows(you) /\ Placed(you, kind)
  BY DEF TablesInv, TypedBy, ThreadsTyped
<1>2. you.op # "create"
  BY DEF DbsInv, OneMaker, Maker
<1>3. you.op # "table"
  BY DEF TablesInv, Apart
<1> QED BY <1>1, <1>2, <1>3, OtherKnows

LEMMA MoveItemKeepsTables ==
  ASSUME NEW kind \in Kind, TypedBy(kind), DbsInv, TablesInv, Alone', Apart',
         "lists" \notin races', NEW t \in Thread, MoveItem(t)
  PROVE  TablesInv'
<1>1. PICK me \in ThreadT : me = thread[t] /\ Placed(me, kind)
  BY DEF TypedBy, ThreadsTyped
<1>2. me.pc = "move" /\ me.op = "drop" /\ Maker(me) /\ Special(me)
  BY <1>1 DEF MoveItem, At, Placed, Maker, Special
<1>3. /\ g_srDbCtrlManager # NULL /\ Vector(t) = D /\ D.size \in Nat
      /\ me.num = D.size /\ D.data \in Of(kind, "dbs")
  BY <1>1, <1>2, MakerHas, MakerIs DEF Making
<1>4. PICK n \in Nat : n = D.size
  BY <1>3
<1>5. PICK b \in Of(kind, "dbs") : b = D.data
  BY <1>3
<1>6. PICK i \in Nat \ {0} : i = me.i
  BY DEF ThreadT
<1>7. PICK new : new = [me EXCEPT !.i = i + 1]
  OBVIOUS
<1>8. /\ UNCHANGED <<g_srDbCtrlManager, dbCtrlList, acked>>
      /\ buffer' = [buffer EXCEPT ![b] = [buffer[b] EXCEPT ![i] = buffer[b][i + 1]]]
      /\ i < n /\ thread' = [thread EXCEPT ![t] = new]
  BY <1>1, <1>3, <1>4, <1>5, <1>6, <1>7 DEF MoveItem
<1>9. new.op = "drop" /\ new.pc = "move" /\ new.i = i + 1
  BY <1>2, <1>7 DEF ThreadT
<1>10. Vectors
  BY <1>1, <1>2, VectorsThere
<1>11. D' = D /\ Vectors'
  BY <1>8, <1>9, <1>10 DEF D, Vectors, TypedBy, ThreadsTyped
<1>12. me \in Standing /\ Array(me) = b /\ Hole(me) = i
  BY <1>1, <1>2, <1>5, <1>6, NobodyElse DEF Array, Hole
<1>13. PICK list : list = Lists(me)
  OBVIOUS
<1>14. TablesIn(b, i, list)
  BY <1>10, <1>12, <1>13 DEF TablesInv, Tables, TablesAs
<1>15. \A k \in 1 .. n :
         /\ IsItem(b, k) /\ buffer[b][k] \in DbT(kind) /\ list[k] = buffer[b][k].list
         /\ list[k] \in [data : Of(kind, "tables"), size : Int, capacity : Nat]
         /\ Whole(list[k])
  <2> SUFFICES ASSUME NEW k \in 1 .. n
               PROVE  /\ IsItem(b, k) /\ buffer[b][k] \in DbT(kind)
                      /\ list[k] = buffer[b][k].list
                      /\ list[k] \in [data : Of(kind, "tables"), size : Int, capacity : Nat]
                      /\ Whole(list[k])
    OBVIOUS
  <2>1. ListOf(me, k) = buffer[b][k].list
    BY <1>2, <1>12 DEF ListOf
  <2>2. /\ IsItem(b, k) /\ buffer[b][k] \in DbT(kind) /\ list[k] = ListOf(me, k)
        /\ ListOf(me, k) \in [data : Of(kind, "tables"), size : Int, capacity : Nat]
    BY <1>4, <1>10, <1>12, <1>13, ListsTyped DEF TablesInv
  <2> QED BY <1>4, <1>14, <2>1, <2>2 DEF TablesIn
<1>16. PICK x \in DbT(kind) : x = buffer[b][i + 1] /\ Whole(x.list)
  <2>1. i + 1 \in 1 .. n
    BY <1>8
  <2> QED BY <1>15, <2>1
<1>17. i \in 1 .. n /\ i \in DOMAIN buffer[b] /\ IsArray(b)
  <2>1. i \in 1 .. n
    BY <1>8
  <2> QED BY <1>15, <2>1 DEF IsItem
<1>18. /\ buffer'[b][i] = x
       /\ \A j \in DOMAIN buffer[b] : j # i => buffer'[b][j] = buffer[b][j]
       /\ \A c \in Of(kind, "tables") : buffer'[c] = buffer[c]
       /\ RowsLeft(kind)
  <2>1. /\ i \in DOMAIN buffer[b] /\ IsArray(b) /\ Whole(x.list)
        /\ buffer' = [buffer EXCEPT ![b] = [buffer[b] EXCEPT ![i] = x]]
    BY <1>8, <1>16, <1>17
  <2>2. buffer'[b][i] = x
    BY <1>17, <2>1 DEF TypedBy, Of
  <2>3. /\ kind \in Kind /\ TypedBy(kind) /\ b \in Of(kind, "dbs") /\ x \in DbT(kind)
    OBVIOUS
  <2>4. \A j \in DOMAIN buffer[b] : j # i => buffer'[b][j] = buffer[b][j]
    BY ONLY <2>1, <2>3, DbWritten
  <2>5. (\A c \in Of(kind, "tables") : buffer'[c] = buffer[c]) /\ RowsLeft(kind)
    BY ONLY <2>1, <2>3, DbWritten
  <2> QED BY <2>2, <2>4, <2>5
<1>19. PICK from \in [1 .. n -> 1 .. n] :
         \A k \in 1 .. n : from[k] = IF k = i THEN i + 1 ELSE k
  <2>1. \A k \in 1 .. n : (IF k = i THEN i + 1 ELSE k) \in 1 .. n
    BY <1>8
  <2>2. [k \in 1 .. n |-> IF k = i THEN i + 1 ELSE k] \in [1 .. n -> 1 .. n]
    BY <2>1
  <2> QED BY <2>2
<1>20. /\ \A k \in (1 .. n) \ {i + 1} : from[k] \in (1 .. n) \ {i}
       /\ \A k, j \in (1 .. n) \ {i + 1} : from[k] = from[j] => k = j
       /\ \A k \in (1 .. n) \ {i} : \E j \in (1 .. n) \ {i + 1} : from[j] = k
  <2>1. \A k \in (1 .. n) \ {i + 1} : from[k] \in (1 .. n) \ {i}
    BY <1>8, <1>19
  <2>2. \A k, j \in (1 .. n) \ {i + 1} : from[k] = from[j] => k = j
    BY <1>8, <1>19
  <2>3. ASSUME NEW k \in (1 .. n) \ {i}
        PROVE  \E j \in (1 .. n) \ {i + 1} : from[j] = k
    <3>1. CASE k = i + 1
      <4>1. i \in (1 .. n) \ {i + 1}
        BY <1>8
      <4>2. from[i] = k
        BY <1>19, <3>1, <4>1
      <4> QED BY <4>1, <4>2
    <3>2. CASE k # i + 1
      <4>1. k \in (1 .. n) \ {i + 1} /\ from[k] = k
        BY <1>19, <2>3, <3>2
      <4> QED BY <4>1
    <3> QED BY <3>1, <3>2
  <2> QED BY <2>1, <2>2, <2>3
<1>21. \A k \in 1 .. n : buffer'[b][k] = buffer[b][from[k]]
  <2> TAKE k \in 1 .. n
  <2>1. CASE k = i
    BY <1>16, <1>18, <1>19, <2>1
  <2>2. CASE k # i
    <3>1. k \in DOMAIN buffer[b]
      BY <1>15 DEF IsItem
    <3> QED BY <1>18, <1>19, <2>2, <3>1
  <2> QED BY <2>1, <2>2
<1>22. PICK moved : moved = [k \in 1 .. n |-> list[from[k]]]
  OBVIOUS
<1>23. \A k \in 1 .. n :
         /\ moved[k] = list[from[k]] /\ buffer'[b][k].list = moved[k]
         /\ Whole(moved[k])' /\ buffer'[moved[k].data] = buffer[moved[k].data]
  <2> TAKE k \in 1 .. n
  <2>1. from[k] \in 1 .. n /\ moved[k] = list[from[k]]
    BY <1>19, <1>22
  <2>2. PICK w \in [data : Of(kind, "tables"), size : Int, capacity : Nat] :
          w = moved[k] /\ Whole(w)
    BY <1>15, <2>1
  <2>3. buffer'[w.data] = buffer[w.data]
    BY <1>18
  <2>4. Whole(w)'
    BY <2>2, <2>3, WholeSame
  <2>5. buffer'[b][k].list = list[from[k]]
    BY <1>15, <1>21, <2>1
  <2> QED BY <2>1, <2>2, <2>3, <2>4, <2>5
<1>24. TablesIn(b, i + 1, moved)'
  <2> HIDE DEF D
  <2>1. \A k, j \in (1 .. n) \ {i + 1} : moved[k].data = moved[j].data => k = j
    <3> TAKE k, j \in (1 .. n) \ {i + 1}
    <3>1. from[k] \in (1 .. n) \ {i} /\ from[j] \in (1 .. n) \ {i}
      BY <1>20
    <3>2. list[from[k]].data = list[from[j]].data => from[k] = from[j]
      BY <1>4, <1>14, <3>1 DEF TablesIn
    <3> QED BY <1>20, <1>23, <3>2
  <2>2. \A k \in (1 .. n) \ {i + 1} : \A j \in 1 .. moved[k].size :
          /\ buffer'[moved[k].data][j].dbId = buffer'[b][k].id
          /\ \A l \in 1 .. moved[k].size :
               buffer'[moved[k].data][j].name = buffer'[moved[k].data][l].name => j = l
    <3> TAKE k \in (1 .. n) \ {i + 1}
    <3>1. from[k] \in (1 .. n) \ {i}
      BY <1>20
    <3>2. \A j \in 1 .. list[from[k]].size :
            /\ buffer[list[from[k]].data][j].dbId = buffer[b][from[k]].id
            /\ \A l \in 1 .. list[from[k]].size :
                 buffer[list[from[k]].data][j].name = buffer[list[from[k]].data][l].name
                   => j = l
      BY <1>4, <1>14, <3>1 DEF TablesIn
    <3> QED BY <1>21, <1>23, <3>2
  <2>3. \A table \in acked.tables : \E k \in (1 .. n) \ {i + 1} :
          /\ buffer'[b][k].id = table.dbId
          /\ \E j \in 1 .. moved[k].size : buffer'[moved[k].data][j].id = table.id
    <3> TAKE table \in acked.tables
    <3>1. PICK j \in (1 .. n) \ {i} :
            /\ buffer[b][j].id = table.dbId
            /\ \E l \in 1 .. list[j].size : buffer[list[j].data][l].id = table.id
      BY <1>4, <1>14 DEF TablesIn
    <3>2. PICK k \in (1 .. n) \ {i + 1} : from[k] = j
      BY <1>20
    <3> QED BY <1>21, <1>23, <3>1, <3>2
  <2>4. D'.size = n /\ acked' = acked
    BY <1>4, <1>8, <1>11
  <2> QED BY <1>23, <2>1, <2>2, <2>3, <2>4 DEF TablesIn
<1>25. TablesAs(new)'
  <2>1. Array(new)' = b /\ Hole(new)' = i + 1
    BY <1>5, <1>9, <1>11 DEF Array, Hole
  <2>2. Lists(new)' = moved
    <3>1. \A k \in 1 .. n : ListOf(new, k)' = moved[k]
      BY <1>9, <1>23, <2>1 DEF ListOf
    <3> QED BY <1>4, <1>11, <1>22, <3>1 DEF Lists
  <2> QED BY <1>24, <2>1, <2>2 DEF TablesAs
<1>26. \A u \in Thread : \A you \in ThreadT : u # t /\ you = thread[u] => Knows(you)'
  <2>1. "lists" \notin Meets(b, i)
    BY <1>1, <1>3, <1>5, <1>6 DEF MoveItem
  <2>2. \A c \in Of(kind, "dbs") : c # b => buffer'[c] = buffer[c]
    BY <1>8 DEF Of, TypedBy
  <2>3. ASSUME NEW u \in Thread, NEW you \in ThreadT, you = thread[u], Placed(you, kind),
               Knows(you)
        PROVE  StillReads(you)
    BY <1>18, <2>1, <2>2, <2>3, ReadsElsewhere
  <2>4. D'.data = D.data
    BY <1>11
  <2> QED BY <1>1, <1>2, <1>8, <1>18, <2>3, <2>4, OnlyRows
<1>27. Knows(new)'
  BY <1>9 DEF Knows
<1>28. Special(new)
  BY <1>9 DEF Special
<1> QED BY <1>1, <1>2, <1>8, <1>9, <1>11, <1>25, <1>26, <1>27, <1>28, TablesStep

LEMMA SubtractSizeKeepsTables ==
  ASSUME NEW kind \in Kind, TypedBy(kind), DbsInv, TablesInv, Alone', Apart',
         NEW t \in Thread, SubtractSize(t)
  PROVE  TablesInv'
<1>1. PICK me \in ThreadT : me = thread[t] /\ Placed(me, kind)
  BY DEF TypedBy, ThreadsTyped
<1>2. me.pc = "move" /\ me.op = "drop" /\ Maker(me) /\ Special(me)
  BY <1>1 DEF SubtractSize, At, Placed, Maker, Special
<1>3. /\ g_srDbCtrlManager # NULL /\ g_srDbCtrlManager \in Manager /\ D \in ManagerT(kind)
      /\ Vector(t) = D /\ D.size \in Nat /\ me.place = TheManager
      /\ me.num = D.size /\ me.i <= D.size /\ D.data \in Of(kind, "dbs")
  BY <1>1, <1>2, MakerHas, MakerIs DEF Making
<1>4. PICK n \in Nat : n = D.size
  BY <1>3
<1>5. PICK b \in Of(kind, "dbs") : b = D.data
  BY <1>3
<1>6. me.i = n /\ n >= 1
  <2>1. me.i >= me.num /\ me.i \in Nat \ {0}
    BY <1>1 DEF SubtractSize, ThreadT
  <2> QED BY <1>3, <1>4, <2>1
<1>7. PICK vector : vector = [D EXCEPT !.size = n - 1]
  OBVIOUS
<1>8. /\ dbCtrlList' = [dbCtrlList EXCEPT ![g_srDbCtrlManager] = vector]
      /\ UNCHANGED <<g_srDbCtrlManager, buffer, acked>>
      /\ thread' = [thread EXCEPT ![t] = Idle]
  BY <1>1, <1>3, <1>4, <1>7, AtTheManager DEF SubtractSize, SetVector, Answers
<1>9. D'.size = n - 1 /\ D'.data = b
  <2>1. D' = vector
    BY <1>3, <1>8 DEF D, TypedBy, ManagersTyped
  <2> QED BY <1>3, <1>5, <1>7, <2>1 DEF ManagerT
<1>10. Vectors
  BY <1>1, <1>2, VectorsThere
<1>11. Vectors'
  BY <1>8, <1>10, IdleKnows DEF Vectors, TypedBy, ThreadsTyped
<1>12. me \in Standing /\ Array(me) = b /\ Hole(me) = n
  BY <1>1, <1>2, <1>5, <1>6, NobodyElse DEF Array, Hole
<1>13. PICK list : list = Lists(me)
  OBVIOUS
<1>14. TablesIn(b, n, list)
  BY <1>10, <1>12, <1>13 DEF TablesInv, Tables, TablesAs
<1>15. (1 .. n - 1) \ {0} = (1 .. n) \ {n} /\ \A k \in 1 .. n - 1 : k \in 1 .. n
  BY <1>6
<1>16. PICK rest : rest = [k \in 1 .. n - 1 |-> list[k]]
  OBVIOUS
<1>17. \A k \in 1 .. n - 1 : /\ k \in 1 .. n /\ rest[k] = list[k]
                             /\ rest[k] = buffer[b][k].list
  <2> TAKE k \in 1 .. n - 1
  <2>1. k \in 1 .. n
    BY <1>15
  <2>2. list[k] = ListOf(me, k)
    BY <1>4, <1>13, <2>1 DEF Lists
  <2>3. ListOf(me, k) = buffer[b][k].list
    BY <1>2, <1>12 DEF ListOf
  <2> QED BY <1>16, <2>1, <2>2, <2>3
<1>18. \A w : Whole(w)' <=> Whole(w)
  BY <1>8 DEF Whole, IsArray
<1>19. \A k \in (1 .. n) \ {n} : k \in 1 .. n - 1 /\ k \in 1 .. n
  BY <1>15
<1>20. TablesIn(b, 0, rest)'
  <2> HIDE DEF D
  <2>1. \A k \in 1 .. n - 1 : Whole(rest[k])
    BY <1>4, <1>14, <1>17 DEF TablesIn
  <2>2. \A k, j \in (1 .. n) \ {n} : rest[k].data = rest[j].data => k = j
    BY <1>4, <1>14, <1>17, <1>19 DEF TablesIn
  <2>3. \A k \in (1 .. n) \ {n} : \A j \in 1 .. rest[k].size :
          /\ buffer[rest[k].data][j].dbId = buffer[b][k].id
          /\ \A i \in 1 .. rest[k].size :
               buffer[rest[k].data][j].name = buffer[rest[k].data][i].name => j = i
    <3> TAKE k \in (1 .. n) \ {n}
    <3>1. rest[k] = list[k]
      BY <1>17, <1>19
    <3> QED BY <1>4, <1>14, <3>1 DEF TablesIn
  <2>4. \A table \in acked.tables : \E k \in (1 .. n) \ {n} :
          /\ buffer[b][k].id = table.dbId
          /\ \E j \in 1 .. rest[k].size : buffer[rest[k].data][j].id = table.id
    <3> TAKE table \in acked.tables
    <3>1. PICK k \in (1 .. n) \ {n} :
            /\ buffer[b][k].id = table.dbId
            /\ \E j \in 1 .. list[k].size : buffer[list[k].data][j].id = table.id
      BY <1>4, <1>14 DEF TablesIn
    <3>2. rest[k] = list[k]
      BY <1>17, <1>19
    <3> QED BY <3>1, <3>2
  <2> QED BY <1>8, <1>9, <1>15, <1>18, <2>1, <2>2, <2>3, <2>4 DEF TablesIn
<1>21. TablesAs(Idle)'
  <2>1. Array(Idle)' = b /\ Hole(Idle)' = 0
    BY <1>9 DEF Array, Hole, Idle
  <2>2. Lists(Idle)' = rest
    <3>1. \A k \in 1 .. n - 1 : ListOf(Idle, k)' = rest[k]
      BY <1>8, <1>17, <2>1 DEF ListOf, Idle
    <3> QED BY <1>9, <1>16, <3>1 DEF Lists
  <2> QED BY <1>20, <2>1, <2>2 DEF TablesAs
<1>22. RowsLeft(kind)
  BY <1>8 DEF RowsLeft, IsItem, IsArray, Whole
<1>23. \A u \in Thread : \A you \in ThreadT : u # t /\ you = thread[u] => Knows(you)'
  <2>1. ASSUME NEW you \in ThreadT, Placed(you, kind), Knows(you) PROVE StillReads(you)
    BY <1>8, <2>1, ReadingAt DEF StillReads
  <2>2. D'.data = D.data
    BY <1>5, <1>9
  <2> QED BY <1>1, <1>2, <1>8, <1>22, <2>1, <2>2, OnlyRows
<1>24. Knows(Idle)'
  BY DEF Knows, Idle
<1> QED BY <1>1, <1>2, <1>8, <1>11, <1>21, <1>23, <1>24, IdleKnows, TablesStep

-----------------------------------------------------------------------------
(* The tables are kept, by every step.                                     *)

LEMMA TablesInit == Init => TablesInv
<1> SUFFICES ASSUME Init PROVE TablesInv
  OBVIOUS
<1>1. \A t \in Thread : thread[t] = Idle
  BY DEF Init
<1>2. g_srDbCtrlManager = NULL /\ acked.tables = {}
  BY DEF Init
<1>3. Alone /\ Apart /\ Sane
  BY <1>1 DEF Alone, Apart, Sane, Idle
<1>4. Tables
  BY <1>2 DEF Tables, Vectors
<1> QED BY <1>1, <1>3, <1>4, IdleKnows DEF TablesInv

LEMMA StepKeepsTables ==
  ASSUME NEW kind \in Kind, TypedBy(kind), DbsInv, TablesInv, NEW t \in Thread, Step(t),
         "tables" \notin races', "growth" \notin races', "lists" \notin races'
  PROVE  TablesInv'
<1>1. Alone' /\ Apart'
  BY AloneKept, ApartKept DEF TablesInv
<1>2. CASE Request(t)
  BY <1>1, <1>2, RequestKeepsTables
<1>3. CASE Manage(t)
  BY <1>1, <1>3, GetDbCtrlManagerKeepsTables, PublishKeepsTables, InitVectorKeepsTables,
     OpenDbKeepsTables DEF Manage
<1>4. CASE Search(t)
  BY <1>1, <1>4, ReadSizeKeepsTables, ReadDataKeepsTables, SearchGoesOnKeepsTables, SearchEndsKeepsTables, SearchAgainKeepsTables,
     NameIsFreeKeepsTables, DropIsSureKeepsTables, RowIsForKeepsTables DEF Search
<1>5. CASE AppendItem(t)
  <2>1. thread[t].pc \in Appending => thread[t].op = "create" \/ thread[t].op = "table"
    BY DEF TypedBy, ThreadsTyped, Placed
  <2>2. CASE LoadGenNum(t) \/ StoreGenNum(t) \/ CheckCapacity(t)
    BY <1>1, <2>2, LoadGenNumKeepsTables, StoreGenNumKeepsTables, CheckCapacityKeepsTables
  <2>3. CASE Realloc(t)
    <3>1. thread[t].pc = "realloc"
      BY <2>3 DEF Realloc, At
    <3> QED BY <1>1, <2>1, <2>3, <3>1, CreateReallocKeepsTables, TableReallocKeepsTables
            DEF Searching, Appending, Filling
  <2>4. CASE SetData(t)
    <3>1. thread[t].pc = "setData"
      BY <2>4 DEF SetData, At
    <3> QED BY <1>1, <2>1, <2>4, <3>1, CreateSetDataKeepsTables, TableSetDataKeepsTables
            DEF Searching, Appending, Filling
  <2>5. CASE CopyItem(t)
    <3>1. thread[t].pc = "copy"
      BY <2>5 DEF CopyItem, At
    <3> QED BY <1>1, <2>1, <2>5, <3>1, CreateCopyItemKeepsTables, TableCopyItemKeepsTables
            DEF Searching, Appending, Filling
  <2>6. CASE AddSize(t)
    <3>1. thread[t].pc = "size"
      BY <2>6 DEF AddSize, At
    <3> QED BY <1>1, <2>1, <2>6, <3>1, CreateAddSizeKeepsTables, TableAddSizeKeepsTables
            DEF Searching, Appending, Filling
  <2> QED BY <1>5, <2>2, <2>3, <2>4, <2>5, <2>6 DEF AppendItem
<1>6. CASE Change(t)
  BY <1>1, <1>6, MoveItemKeepsTables, SubtractSizeKeepsTables, ReadRowCntKeepsTables,
     WriteRowCntKeepsTables DEF Change
<1>7. ~ Strays(t)
  BY NobodyGoesWild DEF Strays
<1> QED BY <1>2, <1>3, <1>4, <1>5, <1>6, <1>7 DEF Step

\* TablesInv as long as the requests do not meet.
TablesCalm == NoRace({"ids", "dbs", "tables", "growth", "lists"}) => TablesInv

LEMMA TablesInvKept ==
  Typed /\ DbsCalm /\ TablesCalm /\ [Next]_vars => TablesCalm'
<1> SUFFICES ASSUME Typed, DbsCalm, TablesCalm, [Next]_vars,
                    NoRace({"ids", "dbs", "tables", "growth", "lists"})'
             PROVE  TablesInv'
  BY DEF TablesCalm
<1>1. PICK kind \in Kind : TypedBy(kind)
  BY DEF Typed
<1>2. \A race \in {"ids", "dbs", "tables", "growth", "lists"} : race \notin races'
  BY DEF NoRace
<1>3. ASSUME NEW t \in Thread, Step(t) PROVE TablesInv'
  <2>1. races \subseteq races'
    BY <1>1, <1>3, OthersStay
  <2>2. DbsInv /\ TablesInv
    BY <1>2, <2>1 DEF DbsCalm, TablesCalm, NoRace
  <2> QED BY <1>1, <1>2, <1>3, <2>2, StepKeepsTables
<1>4. CASE UNCHANGED vars
  <2>1. UNCHANGED <<g_srDbCtrlManager, dbCtrlList, buffer, thread, acked, races>>
    BY <1>4 DEF vars
  <2>2. TablesInv
    BY <1>2, <2>1 DEF TablesCalm, NoRace
  <2>3. Alone' /\ Apart' /\ Sane'
    BY <2>1, <2>2 DEF TablesInv, Alone, Apart, Sane
  <2>4. (Vectors' <=> Vectors) /\ Standing' = Standing /\ D' = D
    BY <2>1 DEF Vectors, Standing, D
  <2>5. \A t \in Thread : Knows(thread[t])'
    <3> TAKE t \in Thread
    <3>1. PICK me : me = thread[t]
      OBVIOUS
    <3>2. Knows(me)'
      BY <2>1, <2>2, <2>4, <3>1, KnowsSame DEF TablesInv
    <3> QED BY <2>1, <3>1, <3>2
  <2>6. \A me \in Standing : TablesAs(me) => TablesAs(me)'
    <3> TAKE me \in Standing
    <3>1. PICK b : b = Array(me)
      OBVIOUS
    <3>2. PICK hole : hole = Hole(me)
      OBVIOUS
    <3>3. PICK list : list = Lists(me)
      OBVIOUS
    <3>4. Array(me)' = b /\ Hole(me)' = hole
      BY <2>4, <3>1, <3>2 DEF Array, Hole
    <3>5. \A k : ListOf(me, k)' = ListOf(me, k)
      BY <2>1, <2>4, <3>1, <3>4 DEF ListOf
    <3>6. Lists(me)' = list
      BY <2>4, <3>3, <3>5 DEF Lists
    <3>7. D'.size = D.size /\ acked'.tables = acked.tables
      BY <2>1, <2>4
    <3>8. TablesIn(b, hole, list) => TablesIn(b, hole, list)'
      BY <2>1, <3>7, TablesInSame
    <3> QED BY <3>1, <3>2, <3>3, <3>4, <3>6, <3>8 DEF TablesAs
  <2>7. Tables'
    BY <2>1, <2>2, <2>4, <2>6 DEF TablesInv, Tables
  <2> QED BY <2>3, <2>5, <2>7 DEF TablesInv
<1> QED BY <1>3, <1>4 DEF Next, Step

LEMMA TablesKeptHere ==
  ASSUME NEW kind \in Kind, TypedBy(kind), DbsInv, TablesInv, ~ Changing
  PROVE  TablesKept
<1>1. \A t \in Thread : ~ Special(thread[t])
  BY DEF Changing, Special
<1>2. PICK me \in Standing : me = Idle
  BY <1>1, StandingIs DEF TablesInv
<1>3. CASE ~ Vectors
  <2>1. acked.tables = {}
    BY <1>3 DEF TablesInv, Tables
  <2>2. g_srDbCtrlManager # NULL => D.size = 0
    <3> SUFFICES ASSUME g_srDbCtrlManager # NULL PROVE D.size = 0
      OBVIOUS
    <3>1. PICK t \in Thread : thread[t].pc = "initVector"
      BY <1>3 DEF Vectors
    <3>2. Maker(thread[t])
      BY <3>1 DEF TypedBy, ThreadsTyped, Placed, Maker
    <3> QED BY <3>1, <3>2 DEF DbsInv, Making
  <2>3. DOMAIN Dbs = {}
    BY <2>2 DEF Dbs, Items, D
  <2> QED BY <2>1, <2>3 DEF TablesKept
<1>4. CASE Vectors
  <2>1. PICK b \in Of(kind, "dbs") : b = D.data
    BY <1>2, <1>4, DbsAs DEF TablesInv, Array, Idle
  <2>2. Array(me) = b /\ Hole(me) = 0
    BY <1>2, <2>1 DEF Array, Hole, Idle
  <2>3. PICK list : list = Lists(me)
    OBVIOUS
  <2>4. TablesIn(b, 0, list)
    BY <1>4, <2>2, <2>3 DEF TablesInv, Tables, TablesAs
  <2>5. PICK n \in Nat : n = D.size /\ IsArray(b)
    <3>1. PICK room \in Int : DbsIn(b, room, 0)
      BY <1>4, <2>2, DbsAs DEF TablesInv
    <3> QED BY <3>1 DEF DbsIn
  <2>6. Dbs = [k \in 1 .. n |-> buffer[b][k]]
    BY <1>4, <2>1, <2>5 DEF Dbs, Items, D, Vectors
  <2>7. \A k \in 1 .. n : list[k] = buffer[b][k].list
    <3> TAKE k \in 1 .. n
    <3>1. list[k] = ListOf(me, k)
      BY <2>3, <2>5 DEF Lists
    <3>2. ListOf(me, k) = buffer[b][k].list
      BY <1>2, <2>2 DEF ListOf, Idle
    <3> QED BY <3>1, <3>2
  <2>8. \A k \in 1 .. n : /\ Dbs[k] = buffer[b][k]
                          /\ Items(Dbs[k].list) =
                               [j \in 1 .. list[k].size |-> buffer[list[k].data][j]]
    <3> TAKE k \in 1 .. n
    <3>1. IsArray(list[k].data)
      BY <2>4, <2>5 DEF TablesIn, Whole
    <3> QED BY <2>6, <2>7, <3>1 DEF Items
  <2>9. (1 .. n) \ {0} = 1 .. n /\ DOMAIN Dbs = 1 .. n
    BY <2>6
  <2>10. ASSUME NEW table \in acked.tables
         PROVE  \E i \in DOMAIN Dbs :
                  /\ Dbs[i].id = table.dbId
                  /\ \E k \in DOMAIN Items(Dbs[i].list) : Items(Dbs[i].list)[k].id = table.id
    <3>1. PICK i \in 1 .. n :
            /\ buffer[b][i].id = table.dbId
            /\ \E j \in 1 .. list[i].size : buffer[list[i].data][j].id = table.id
      BY <2>4, <2>5, <2>9 DEF TablesIn
    <3>2. PICK j \in 1 .. list[i].size : buffer[list[i].data][j].id = table.id
      BY <3>1
    <3>3. /\ j \in DOMAIN Items(Dbs[i].list)
          /\ Items(Dbs[i].list)[j].id = table.id
      BY <2>8, <3>2
    <3>4. i \in DOMAIN Dbs /\ Dbs[i].id = table.dbId
      BY <2>8, <2>9, <3>1
    <3> QED BY <3>3, <3>4
  <2>11. ASSUME NEW i \in DOMAIN Dbs, NEW k \in DOMAIN Items(Dbs[i].list),
                NEW j \in DOMAIN Items(Dbs[i].list)
         PROVE  /\ Items(Dbs[i].list)[k].dbId = Dbs[i].id
                /\ Items(Dbs[i].list)[k].name = Items(Dbs[i].list)[j].name => k = j
    <3>1. i \in 1 .. n /\ k \in 1 .. list[i].size /\ j \in 1 .. list[i].size
      BY <2>8, <2>9
    <3>2. /\ buffer[list[i].data][k].dbId = buffer[b][i].id
          /\ buffer[list[i].data][k].name = buffer[list[i].data][j].name => k = j
      BY <2>4, <2>5, <2>9, <3>1 DEF TablesIn
    <3>3. /\ Dbs[i].id = buffer[b][i].id
          /\ Items(Dbs[i].list)[k] = buffer[list[i].data][k]
          /\ Items(Dbs[i].list)[j] = buffer[list[i].data][j]
      <4>1. /\ Dbs[i] = buffer[b][i]
            /\ Items(Dbs[i].list) = [l \in 1 .. list[i].size |-> buffer[list[i].data][l]]
        BY <2>8, <3>1
      <4> QED BY <3>1, <4>1
    <3> QED BY <3>2, <3>3
  <2> QED BY <2>10, <2>11 DEF TablesKept
<1> QED BY <1>3, <1>4

\* While no two requests take an id, make or drop databases, or make a table of one
\* database or of one that is dropped, at once, no vector grows under a request, and
\* none is written between a search's reads of its size and of its data, each vector
\* of tables is whole and its own, and the requests know what they need of it: where
\* their database lies, which names its tables have, that there is room behind the
\* last (DMSrCreateTable, DbVectorAppendItem, DbVectorRemoveItem, DbVectorGetItem).
THEOREM SrTablesInvariant == Spec => []TablesCalm
<1>1. Init => TablesCalm
  BY TablesInit DEF TablesCalm
<1>2. Typed /\ DbsCalm /\ TablesCalm /\ [Next]_vars => TablesCalm'
  BY TablesInvKept
<1> QED BY <1>1, <1>2, SrThreadsTyped, SrDbsInvariant, PTL DEF Spec

\* With none of these five kinds of overlap no thread ever follows a pointer to an
\* item or a buffer that is gone, or writes past a buffer: not in a search, not when
\* it appends or removes an item, and not through the pointers that the insertion of
\* a row holds, while databases are dropped and items move under it
\* (DbVectorAppendItem, DbVectorRemoveItem, DMSrInsertData).
THEOREM SrNobodyStrays == Spec => []NobodyStrays
<1>1. TablesCalm => NobodyStrays
  BY DEF TablesCalm, NobodyStrays, TablesInv
<1> QED BY <1>1, SrTablesInvariant, PTL

\* Tables whose creation was answered are found in their database, which has no
\* other database's tables and no name twice, as long as there is none of these
\* overlaps (DMSrCreateTable, DMSrDropDb, DbVectorAppendItem).
THEOREM SrTablesKept == Spec => []TablesKept
<1>1. Typed /\ DbsCalm /\ TablesCalm => TablesKept
  <2> SUFFICES ASSUME Typed, DbsCalm, TablesCalm,
                      NoRace({"ids", "dbs", "tables", "growth", "lists"}), ~ Changing
               PROVE  TablesKept
    BY DEF TablesKept
  <2>1. DbsInv /\ TablesInv
    BY DEF DbsCalm, TablesCalm, NoRace
  <2> QED BY <2>1, TablesKeptHere DEF Typed
<1> QED BY <1>1, SrThreadsTyped, SrDbsInvariant, SrTablesInvariant, PTL

===============================================================================
