--------------------------- MODULE RowCodecProofs ---------------------------
(***************************************************************************)
(* The value buffers of a statement and the rows that are sent from them,  *)
(* for every schema, every width of integers and buffers, every text and   *)
(* number and any number of inserts: strlen never leaves a buffer, a text  *)
(* that spills takes no byte of a later field, and what fits arrives.      *)
(*                                                                         *)
(* RowInv is the inductive invariant: the buffers hold what the last insert*)
(* wrote and the row is made of them.  Where a field starts is a recursive *)
(* function: that there is one, and that the fields lie apart, is shown by *)
(* the least place at which it would fail.                                 *)
(***************************************************************************)
EXTENDS RowCodec, WellFoundedInduction, TLAPS

\* The least member of a set of natural numbers is one.
LEMMA MinIsLeast ==
  ASSUME NEW S, S \subseteq Nat, S # {}
  PROVE  Min(S) \in S /\ \A j \in S : Min(S) <= j
<1>1. PICK i \in S : \A j \in S : <<j, i>> \notin OpToRel(<, Nat)
  BY NatLessThanWellFounded, WFMin
<1>2. \A j \in S : i <= j
  <2> TAKE j \in S
  <2>1. i \in Nat /\ j \in Nat /\ ~ (j < i)
    BY <1>1 DEF OpToRel
  <2> QED BY <2>1
<1> QED BY <1>2 DEF Min

\* The last byte of an integer field's buffer is never written; a text field's
\* buffer always has a zero, but not always at the same place.
Terminated(i, buffer) ==
  IF IsString(i) THEN \E k \in DOMAIN buffer : buffer[k] = 0
                 ELSE buffer[SR_FIELD_VALUE_MAX_LENGTH] = 0

IInv ==
  /\ properties \in Schema
  /\ value \in [FieldIndex -> Buffer]
  /\ \A i \in FieldIndex : Terminated(i, value[i])

\* Copying bytes into a buffer keeps it a buffer.
LEMMA OverwriteIsBuffer ==
  ASSUME NEW buffer \in Buffer, NEW bytes \in Seq(Byte)
  PROVE  /\ Overwrite(buffer, bytes) \in Buffer
         /\ \A k \in 1 .. SR_FIELD_VALUE_MAX_LENGTH :
              Overwrite(buffer, bytes)[k] = IF k <= Len(bytes) THEN bytes[k] ELSE buffer[k]
<1>1. \A k \in 1 .. SR_FIELD_VALUE_MAX_LENGTH : k <= Len(bytes) => bytes[k] \in Byte
  BY RowCodecAssumption
<1> QED BY <1>1 DEF Overwrite, Buffer

\* A buffer that is filled with an argument that is not too long has a zero.
LEMMA FillTerminates ==
  ASSUME IInv, NEW i \in FieldIndex, NEW v,
         IF IsString(i) THEN v \in Text /\ ~ TooLong(v) ELSE v \in Number
  PROVE  Fill(i, v) \in Buffer /\ Terminated(i, Fill(i, v))
<1>1. value[i] \in Buffer /\ Terminated(i, value[i])
  BY DEF IInv
<1>2. 0 \in Byte
  BY RowCodecAssumption DEF Byte
<1>3. CASE IsString(i)
  <2>1. v \in Seq(Byte) /\ Len(v) + 1 \in 1 .. SR_FIELD_VALUE_MAX_LENGTH
    <3>1. v \in Seq(Byte \ {0}) /\ Len(v) \in Nat
      BY <1>3, RowCodecAssumption
    <3>2. v \in Seq(Byte)
      BY <3>1
    <3> QED BY <1>3, <3>1, <3>2, RowCodecAssumption DEF TooLong
  <2>2. /\ Append(v, 0) \in Seq(Byte)
        /\ Len(Append(v, 0)) = Len(v) + 1
        /\ Append(v, 0)[Len(v) + 1] = 0
    BY <2>1, <1>2
  <2>3. /\ Strcpy(value[i], v) \in Buffer
        /\ Strcpy(value[i], v)[Len(v) + 1] = 0
    <3>1. PICK bytes \in Seq(Byte) : bytes = Append(v, 0)
      BY <2>2
    <3>2. Len(bytes) = Len(v) + 1 /\ bytes[Len(v) + 1] = 0
      BY <2>2, <3>1
    <3>3. Strcpy(value[i], v) = Overwrite(value[i], bytes)
      BY <3>1 DEF Strcpy
    <3>4. Overwrite(value[i], bytes) \in Buffer
      BY <1>1, OverwriteIsBuffer
    <3>5. Overwrite(value[i], bytes)[Len(v) + 1]
            = IF Len(v) + 1 <= Len(bytes) THEN bytes[Len(v) + 1]
                                          ELSE value[i][Len(v) + 1]
      BY <1>1, <2>1, OverwriteIsBuffer
    <3>6. Len(v) + 1 <= Len(bytes)
      <4>1. Len(v) + 1 \in Nat
        BY <2>1, RowCodecAssumption
      <4> QED BY <3>2, <4>1
    <3> QED BY <3>2, <3>3, <3>4, <3>5, <3>6
  <2>4. Fill(i, v) = Strcpy(value[i], v)
    BY <1>3 DEF Fill
  <2>5. Len(v) + 1 \in DOMAIN Fill(i, v)
    BY <2>1, <2>3, <2>4 DEF Buffer
  <2> QED BY <1>3, <2>3, <2>4, <2>5 DEF Terminated
<1>4. CASE ~ IsString(i)
  <2>1. v \in Seq(Byte) /\ Len(v) = SIZEOF_INT
    <3>1. v \in [1 .. SIZEOF_INT -> Byte]
      BY <1>4, RowCodecAssumption
    <3> QED BY <3>1, RowCodecAssumption
  <2>2. SR_FIELD_VALUE_MAX_LENGTH \in 1 .. SR_FIELD_VALUE_MAX_LENGTH
        /\ ~ (SR_FIELD_VALUE_MAX_LENGTH <= SIZEOF_INT)
    BY RowCodecAssumption
  <2>3. /\ SeriInt32(value[i], v) \in Buffer
        /\ SeriInt32(value[i], v)[SR_FIELD_VALUE_MAX_LENGTH]
             = value[i][SR_FIELD_VALUE_MAX_LENGTH]
    BY <1>1, <2>1, <2>2, OverwriteIsBuffer DEF SeriInt32
  <2>4. Fill(i, v) = SeriInt32(value[i], v)
    BY <1>4 DEF Fill
  <2> QED BY <1>1, <1>4, <2>3, <2>4 DEF Terminated
<1> QED BY <1>3, <1>4

\* Buffers of zeros are terminated.
LEMMA ClearedTerminated ==
  /\ Zeros \in Buffer
  /\ \E k \in DOMAIN Zeros : Zeros[k] = 0
  /\ Zeros[SR_FIELD_VALUE_MAX_LENGTH] = 0
<1>1. 0 \in Byte /\ SR_FIELD_VALUE_MAX_LENGTH \in 1 .. SR_FIELD_VALUE_MAX_LENGTH
  BY RowCodecAssumption DEF Byte
<1>2. Zeros \in Buffer
  BY <1>1 DEF Zeros, Buffer
<1>3. SR_FIELD_VALUE_MAX_LENGTH \in DOMAIN Zeros
      /\ Zeros[SR_FIELD_VALUE_MAX_LENGTH] = 0
  BY <1>1 DEF Zeros
<1> QED BY <1>2, <1>3

LEMMA InitOK == Init => IInv
<1> SUFFICES ASSUME Init PROVE IInv
  OBVIOUS
<1>1. PICK schema \in Schema :
        properties = schema /\ value = [i \in 1 .. Len(schema) |-> Zeros]
  BY DEF Init
<1>2. value \in [FieldIndex -> Buffer] /\ \A i \in FieldIndex : value[i] = Zeros
  BY <1>1, ClearedTerminated DEF FieldIndex
<1> QED BY <1>1, <1>2, ClearedTerminated DEF IInv, Terminated

\* A statement is prepared, or an insert fills all its fields or the first ones.
LEMMA NextOK == IInv /\ [Next]_vars => IInv'
<1> SUFFICES ASSUME IInv, [Next]_vars PROVE IInv'
  OBVIOUS
<1>1. ASSUME NEW schema \in Schema, KVCPrepareStmt(schema)
      PROVE  IInv'
  <2>1. properties' = schema /\ value' = [i \in 1 .. Len(schema) |-> Zeros]
    BY <1>1 DEF KVCPrepareStmt
  <2>2. value' \in [FieldIndex' -> Buffer] /\ \A i \in FieldIndex' : value'[i] = Zeros
    BY <2>1, ClearedTerminated DEF FieldIndex
  <2> QED BY <2>1, <2>2, ClearedTerminated DEF IInv, Terminated
<1>2. ASSUME NEW args \in Arguments, NEW filled, filled \subseteq FieldIndex,
             filled \cap TooLongs(args) = {},
             value' = [i \in FieldIndex |-> IF i \in filled THEN Fill(i, args[i])
                                                            ELSE value[i]],
             UNCHANGED properties
      PROVE  IInv'
  <2>1. ASSUME NEW i \in FieldIndex
        PROVE  value'[i] \in Buffer /\ Terminated(i, value'[i])
    <3>1. CASE i \in filled
      <4>1. IF IsString(i) THEN args[i] \in Text /\ ~ TooLong(args[i])
                           ELSE args[i] \in Number
        BY <1>2, <3>1 DEF Arguments, TooLongs
      <4>2. Fill(i, args[i]) \in Buffer /\ Terminated(i, Fill(i, args[i]))
        BY <4>1, FillTerminates
      <4> QED BY <1>2, <3>1, <4>2
    <3>2. CASE i \notin filled
      BY <1>2, <3>2 DEF IInv
    <3> QED BY <3>1, <3>2
  <2>2. value' \in [FieldIndex -> Buffer]
    BY <1>2, <2>1
  <2>3. FieldIndex' = FieldIndex /\ \A i : IsString(i)' = IsString(i)
    BY <1>2 DEF FieldIndex, IsString
  <2> QED BY <1>2, <2>1, <2>2, <2>3 DEF IInv, Terminated
<1>3. ASSUME NEW args \in Arguments, SRCInsertDataTooLong(args)
      PROVE  IInv'
  <2> DEFINE first == Min(TooLongs(args))
  <2> DEFINE filled == {i \in FieldIndex : i < first}
  <2>1. TooLongs(args) \subseteq Nat /\ TooLongs(args) # {}
    BY <1>3 DEF TooLongs, FieldIndex, SRCInsertDataTooLong
  <2>2. first \in Nat /\ \A j \in TooLongs(args) : first <= j
    BY <2>1, MinIsLeast
  <2>3. filled \cap TooLongs(args) = {}
    <3> HIDE DEF first
    <3> QED BY <2>1, <2>2
  <2>4. value' = [i \in FieldIndex |-> IF i \in filled THEN Fill(i, args[i])
                                                       ELSE value[i]]
        /\ UNCHANGED properties
    BY <1>3 DEF SRCInsertDataTooLong
  <2>5. filled \subseteq FieldIndex
    OBVIOUS
  <2> HIDE DEF filled
  <2> QED BY <1>2, <2>3, <2>4, <2>5
<1>4. ASSUME NEW args \in Arguments, SRCInsertData(args)
      PROVE  IInv'
  <2>1. value' = [i \in FieldIndex |-> IF i \in FieldIndex THEN Fill(i, args[i])
                                                           ELSE value[i]]
        /\ UNCHANGED properties /\ TooLongs(args) = {}
    BY <1>4 DEF SRCInsertData
  <2> QED BY <1>2, <2>1
<1>5. CASE UNCHANGED vars
  BY <1>5 DEF IInv, Terminated, IsString, FieldIndex, vars
<1> QED BY <1>1, <1>3, <1>4, <1>5 DEF Next

\* strlen of a value ends inside its buffer, for every history of inserts.
THEOREM ValuesStayTerminated == Spec => []ValuesTerminated
<1>1. IInv => ValuesTerminated
  <2> SUFFICES ASSUME IInv, NEW i \in FieldIndex
               PROVE  \E k \in DOMAIN value[i] : value[i][k] = 0
    BY DEF ValuesTerminated
  <2>1. Terminated(i, value[i]) /\ DOMAIN value[i] = 1 .. SR_FIELD_VALUE_MAX_LENGTH
    BY DEF IInv, Buffer
  <2>2. SR_FIELD_VALUE_MAX_LENGTH \in 1 .. SR_FIELD_VALUE_MAX_LENGTH
    BY RowCodecAssumption
  <2> QED BY <2>1, <2>2 DEF Terminated
<1> QED BY <1>1, InitOK, NextOK, PTL DEF Spec

-----------------------------------------------------------------------------
(* Where the fields are                                                    *)

\* A set of natural numbers that has a bound has a greatest member.
LEMMA MaxIsGreatest ==
  ASSUME NEW S, S \subseteq Nat, S # {}, NEW n \in Nat, \A j \in S : j <= n
  PROVE  Max(S) \in S /\ \A j \in S : Max(S) >= j
<1> DEFINE bounds == {b \in Nat : \A j \in S : j <= b}
<1>1. Min(bounds) \in bounds /\ \A b \in bounds : Min(bounds) <= b
  BY MinIsLeast
<1>2. PICK m \in Nat : m = Min(bounds)
  BY <1>1
<1>3. \A j \in S : j <= m
  BY <1>1, <1>2
<1>4. m \in S
  <2>1. SUFFICES ASSUME m \notin S PROVE FALSE
    OBVIOUS
  <2>2. \A j \in S : j \in Nat /\ j <= m - 1
    BY <1>3, <2>1
  <2>3. m - 1 \in Nat
    <3>1. PICK j \in S : TRUE
      OBVIOUS
    <3>2. j \in Nat /\ j <= m - 1
      BY <2>2
    <3> QED BY <1>2, <3>2
  <2>4. m - 1 \in bounds
    BY <2>2, <2>3
  <2>5. m <= m - 1
    BY <1>1, <1>2, <2>4
  <2> QED BY <2>5
<1>5. \A j \in S : m >= j
  <2> TAKE j \in S
  <2>1. j \in Nat /\ j <= m
    BY <1>3
  <2> QED BY <2>1
<1> QED BY <1>4, <1>5 DEF Max

LEMMA FieldsHaveSizes ==
  ASSUME NEW fields \in Seq(Property)
  PROVE  Len(fields) \in Nat /\ \A i \in 1 .. Len(fields) : fields[i].fldSize \in Nat
<1>1. ASSUME NEW i \in 1 .. Len(fields)
      PROVE  fields[i].fldSize \in Nat
  <2>1. fields[i] \in Property
    BY <1>1
  <2> QED BY <2>1 DEF Property
<1> QED BY <1>1

\* The starts of the fields are defined, which takes an argument by the least
\* field that would have none: each is behind the field before it.
LEMMA StartsOfFields ==
  ASSUME NEW fields \in Seq(Property)
  PROVE  /\ Starts(fields) \in [1 .. Len(fields) + 1 -> Nat]
         /\ Starts(fields)[1] = 0
         /\ \A i \in 1 .. Len(fields) :
              Starts(fields)[i + 1] = Starts(fields)[i] + fields[i].fldSize
<1> DEFINE n == Len(fields)
<1> DEFINE Upto(g, m) ==
      /\ g[1] = 0
      /\ \A i \in 1 .. m : g[i + 1] = g[i] + fields[i].fldSize
<1> DEFINE missing == {m \in 0 .. n : \A g \in [1 .. n + 1 -> Nat] : ~ Upto(g, m)}
<1>1. n \in Nat /\ \A i \in 1 .. n : fields[i].fldSize \in Nat
  BY FieldsHaveSizes
<1> HIDE DEF n
<1>2. missing = {}
  <2>1. SUFFICES ASSUME missing # {} PROVE FALSE
    OBVIOUS
  <2>2. missing \subseteq Nat
    BY <1>1
  <2>3. PICK m \in missing : \A j \in missing : m <= j
    <3>1. Min(missing) \in missing /\ \A j \in missing : Min(missing) <= j
      <4> HIDE DEF missing
      <4> QED BY <2>1, <2>2, MinIsLeast
    <3> HIDE DEF missing
    <3> QED BY <3>1
  <2>4. m \in 0 .. n /\ \A g \in [1 .. n + 1 -> Nat] : ~ Upto(g, m)
    BY <2>3
  <2>5. CASE m = 0
    <3> DEFINE g == [i \in 1 .. n + 1 |-> 0]
    <3>1. g \in [1 .. n + 1 -> Nat] /\ Upto(g, 0)
      BY <1>1
    <3> HIDE DEF g
    <3> QED BY <2>4, <2>5, <3>1
  <2>6. CASE m # 0
    <3>1. m - 1 \in 0 .. n /\ m - 1 \notin missing
      <4>1. m - 1 \in 0 .. n /\ ~ (m <= m - 1)
        BY <1>1, <2>4, <2>6
      <4> HIDE DEF missing
      <4> QED BY <2>3, <4>1
    <3>2. PICK g \in [1 .. n + 1 -> Nat] : Upto(g, m - 1)
      BY <3>1
    <3> DEFINE h == [i \in 1 .. n + 1 |->
                       IF i = m + 1 THEN g[m] + fields[m].fldSize ELSE g[i]]
    <3>3. m \in 1 .. n /\ m \in 1 .. n + 1 /\ fields[m].fldSize \in Nat
      BY <1>1, <2>4, <2>6
    <3>4. g[m] + fields[m].fldSize \in Nat
      <4>1. g[m] \in Nat
        BY <3>3
      <4> QED BY <3>3, <4>1
    <3>5. h \in [1 .. n + 1 -> Nat]
      BY <3>4
    <3>6. \A i \in 1 .. n + 1 : h[i] = IF i = m + 1 THEN g[m] + fields[m].fldSize ELSE g[i]
      OBVIOUS
    <3>7. h[1] = 0
      BY <1>1, <2>6, <3>2, <3>3, <3>6
    <3>8. \A i \in 1 .. m : h[i + 1] = h[i] + fields[i].fldSize
      <4> TAKE i \in 1 .. m
      <4>1. /\ i \in 1 .. n + 1 /\ i + 1 \in 1 .. n + 1 /\ i # m + 1
            /\ (i # m => i \in 1 .. m - 1 /\ i + 1 # m + 1)
        BY <1>1, <3>3
      <4> HIDE DEF h
      <4> QED BY <3>2, <3>6, <4>1
    <3> HIDE DEF h
    <3> QED BY <2>4, <3>5, <3>7, <3>8
  <2> QED BY <2>5, <2>6
<1>3. PICK g \in [1 .. n + 1 -> Nat] : Upto(g, n)
  <2>1. n \in 0 .. n
    BY <1>1
  <2>2. n \notin missing
    BY <1>2 DEF missing
  <2> QED BY <2>1, <2>2
<1> DEFINE Rule(s) == [i \in 1 .. n + 1 |-> IF i = 1 THEN 0
                                           ELSE s[i - 1] + fields[i - 1].fldSize]
<1>4. g = Rule(g)
  <2>1. ASSUME NEW i \in 1 .. n + 1
        PROVE  g[i] = IF i = 1 THEN 0 ELSE g[i - 1] + fields[i - 1].fldSize
    <3>1. i # 1 => i - 1 \in 1 .. n /\ (i - 1) + 1 = i
      BY <1>1
    <3> QED BY <1>3, <3>1
  <2> QED BY <2>1
<1>5. Starts(fields) = CHOOSE s : s = Rule(s)
  BY DEF Starts, n
<1> DEFINE start == Starts(fields)
<1>6. start = Rule(start)
  <2> HIDE DEF Rule
  <2> QED BY <1>4, <1>5
<1> HIDE DEF start
<1>7. \A i \in 1 .. n + 1 : start[i] = IF i = 1 THEN 0
                                      ELSE start[i - 1] + fields[i - 1].fldSize
  BY <1>6
<1>8. start[1] = 0
  <2>1. 1 \in 1 .. n + 1
    BY <1>1
  <2>2. start[1] = IF 1 = 1 THEN 0 ELSE start[1 - 1] + fields[1 - 1].fldSize
    BY <1>7, <2>1
  <2> QED BY <2>2
<1>9. \A i \in 1 .. n : start[i + 1] = start[i] + fields[i].fldSize
  <2> TAKE i \in 1 .. n
  <2>1. i + 1 \in 1 .. n + 1 /\ i + 1 # 1 /\ (i + 1) - 1 = i
    BY <1>1
  <2> QED BY <1>7, <2>1
<1>10. \A i \in 1 .. n + 1 : start[i] \in Nat
  <2> DEFINE bad == {i \in 1 .. n + 1 : start[i] \notin Nat}
  <2>1. SUFFICES ASSUME bad # {} PROVE FALSE
    OBVIOUS
  <2>2. bad \subseteq Nat
    BY <1>1
  <2>3. PICK m \in bad : \A j \in bad : m <= j
    <3> HIDE DEF bad
    <3>1. Min(bad) \in bad /\ \A j \in bad : Min(bad) <= j
      BY <2>1, <2>2, MinIsLeast
    <3> QED BY <3>1
  <2>4. m \in 1 .. n + 1 /\ start[m] \notin Nat
    BY <2>3
  <2>5. m # 1
    BY <1>8, <2>4
  <2>6. m - 1 \in 1 .. n /\ m - 1 \in 1 .. n + 1 /\ ~ (m <= m - 1) /\ (m - 1) + 1 = m
    BY <1>1, <2>4, <2>5
  <2>7. start[m - 1] \in Nat
    BY <2>3, <2>6
  <2>8. start[m] = start[m - 1] + fields[m - 1].fldSize
    BY <1>9, <2>6
  <2> QED BY <1>1, <2>4, <2>6, <2>7, <2>8
<1>11. start \in [1 .. n + 1 -> Nat]
  BY <1>6, <1>10
<1> QED BY <1>8, <1>9, <1>11 DEF start, n

\* No field starts before one that is listed ahead of it.
LEMMA StartsGrow ==
  ASSUME NEW fields \in Seq(Property)
  PROVE  \A i \in 1 .. Len(fields) + 1 : \A j \in 1 .. i :
           Starts(fields)[j] <= Starts(fields)[i]
<1> DEFINE n == Len(fields)
<1> DEFINE start == Starts(fields)
<1>1. n \in Nat /\ \A i \in 1 .. n : fields[i].fldSize \in Nat
  BY FieldsHaveSizes
<1>2. /\ \A i \in 1 .. n + 1 : start[i] \in Nat
      /\ \A i \in 1 .. n : start[i + 1] = start[i] + fields[i].fldSize
  BY StartsOfFields
<1> HIDE DEF n, start
<1> DEFINE bad == {i \in 1 .. n + 1 : \E j \in 1 .. i : ~ (start[j] <= start[i])}
<1>3. SUFFICES ASSUME bad # {} PROVE FALSE
  BY DEF n, start
<1>4. bad \subseteq Nat
  BY <1>1
<1>5. PICK m \in bad : \A j \in bad : m <= j
  <2> HIDE DEF bad
  <2>1. Min(bad) \in bad /\ \A j \in bad : Min(bad) <= j
    BY <1>3, <1>4, MinIsLeast
  <2> QED BY <2>1
<1>6. m \in 1 .. n + 1
  BY <1>5
<1>7. PICK j \in 1 .. m : ~ (start[j] <= start[m])
  BY <1>5
<1>8. start[m] \in Nat /\ j # m
  BY <1>2, <1>6, <1>7
<1>9. m - 1 \in 1 .. n /\ m - 1 \in 1 .. n + 1 /\ ~ (m <= m - 1)
      /\ (m - 1) + 1 = m /\ j \in 1 .. m - 1 /\ j \in 1 .. n + 1
  BY <1>1, <1>6, <1>7, <1>8
<1>10. m - 1 \notin bad
  <2> HIDE DEF bad
  <2> QED BY <1>5, <1>9
<1>11. start[j] <= start[m - 1]
  BY <1>9, <1>10
<1>12. start[m] = start[m - 1] + fields[m - 1].fldSize
  BY <1>2, <1>9
<1> QED
  <2>1. start[j] \in Nat /\ start[m - 1] \in Nat /\ fields[m - 1].fldSize \in Nat
    BY <1>1, <1>2, <1>9
  <2> QED BY <1>7, <1>11, <1>12, <2>1

\* The fields of a table lie in the row one behind the other.
LEMMA FieldsLieApart ==
  ASSUME properties \in Schema
  PROVE  /\ Len(properties) \in Nat /\ RecordTotalLen \in Nat
         /\ \A i \in FieldIndex :
              /\ Offset(i) \in Nat /\ properties[i].fldSize \in Nat
              /\ Offset(i) + properties[i].fldSize <= RecordTotalLen
         /\ \A i, j \in FieldIndex :
              j < i => Offset(j) + properties[j].fldSize <= Offset(i)
<1> DEFINE n == Len(properties)
<1> DEFINE start == Starts(properties)
<1>1. properties \in Seq(Property)
  BY RowCodecAssumption
<1>2. n \in Nat /\ \A i \in 1 .. n : properties[i].fldSize \in Nat
  BY <1>1, FieldsHaveSizes
<1>3. /\ \A i \in 1 .. n + 1 : start[i] \in Nat
      /\ \A i \in 1 .. n : start[i + 1] = start[i] + properties[i].fldSize
  BY <1>1, StartsOfFields
<1>4. \A i \in 1 .. n + 1 : \A j \in 1 .. i : start[j] <= start[i]
  BY <1>1, StartsGrow
<1>5. /\ FieldIndex = 1 .. n
      /\ RecordTotalLen = start[n + 1]
      /\ \A i : Offset(i) = start[i]
  BY DEF FieldIndex, RecordTotalLen, Offset
<1> HIDE DEF n, start
<1>6. \A j \in 1 .. n : \A i \in j + 1 .. n + 1 :
        start[j] + properties[j].fldSize <= start[i]
  <2> TAKE j \in 1 .. n
  <2> TAKE i \in j + 1 .. n + 1
  <2>1. i \in 1 .. n + 1 /\ j + 1 \in 1 .. i
    BY <1>2
  <2>2. start[j + 1] <= start[i]
    BY <1>4, <2>1
  <2> QED BY <1>3, <2>2
<1>7. \A i \in 1 .. n : n + 1 \in i + 1 .. n + 1 /\ i \in 1 .. n + 1
  BY <1>2
<1>8. \A i, j \in 1 .. n : j < i => i \in j + 1 .. n + 1
  BY <1>2
<1>9. n + 1 \in 1 .. n + 1
  BY <1>2
<1>10. \A i \in FieldIndex : /\ Offset(i) \in Nat /\ properties[i].fldSize \in Nat
                             /\ Offset(i) + properties[i].fldSize <= RecordTotalLen
  BY <1>2, <1>3, <1>5, <1>6, <1>7
<1>11. \A i, j \in FieldIndex : j < i => Offset(j) + properties[j].fldSize <= Offset(i)
  BY <1>5, <1>6, <1>8
<1>12. n \in Nat /\ RecordTotalLen \in Nat
  BY <1>2, <1>3, <1>5, <1>9
<1> QED BY <1>10, <1>11, <1>12 DEF n

-----------------------------------------------------------------------------
(* What the buffers and the row hold                                       *)

\* A buffer that an argument was written to: a text and the zero behind it, or
\* the bytes of an integer.
Filled(i, buffer, v) ==
  IF IsString(i)
    THEN /\ Len(v) + 1 <= SR_FIELD_VALUE_MAX_LENGTH
         /\ \A k \in 1 .. Len(v) : buffer[k] = v[k]
         /\ buffer[Len(v) + 1] = 0
    ELSE \A k \in 1 .. SIZEOF_INT : buffer[k] = v[k]

\* Behind an integer there are the zeros of the memset.  What was sent is what
\* the buffers hold, and those hold the arguments of the last insert.
RowInv ==
  /\ IInv
  /\ \A i \in FieldIndex : ~ IsString(i) =>
       \A k \in SIZEOF_INT + 1 .. SR_FIELD_VALUE_MAX_LENGTH : value[i][k] = 0
  /\ given = <<>> \/ given \in Arguments
  /\ row # NoRow =>
       /\ given \in Arguments
       /\ \A i \in FieldIndex : Filled(i, value[i], given[i])
       /\ row = SeriRow(value)

LEMMA TextsAreBytes ==
  ASSUME NEW v \in Text
  PROVE  /\ v \in Seq(Byte) /\ Len(v) \in Nat
         /\ \A k \in 1 .. Len(v) : v[k] \in Byte /\ v[k] # 0
<1>1. v \in Seq(Byte \ {0})
  BY RowCodecAssumption
<1> QED BY <1>1

\* What an insert writes into a buffer, and that it leaves the bytes behind an
\* integer alone.
LEMMA FillHolds ==
  ASSUME IInv, NEW i \in FieldIndex, NEW v,
         IF IsString(i) THEN v \in Text /\ ~ TooLong(v) ELSE v \in Number
  PROVE  /\ Filled(i, Fill(i, v), v)
         /\ ~ IsString(i) =>
              \A k \in SIZEOF_INT + 1 .. SR_FIELD_VALUE_MAX_LENGTH :
                Fill(i, v)[k] = value[i][k]
<1>1. value[i] \in Buffer
  BY DEF IInv
<1>2. CASE IsString(i)
  <2>1. /\ v \in Seq(Byte) /\ Len(v) \in Nat
        /\ Len(v) + 1 <= SR_FIELD_VALUE_MAX_LENGTH
    <3>1. Len(v) \in Nat /\ v \in Seq(Byte)
      BY <1>2, TextsAreBytes
    <3> QED BY <1>2, <3>1, RowCodecAssumption DEF TooLong
  <2>2. 0 \in Byte
    BY RowCodecAssumption DEF Byte
  <2>3. PICK bytes \in Seq(Byte) : bytes = Append(v, 0)
    <3>1. Append(v, 0) \in Seq(Byte)
      BY <2>1, <2>2
    <3> QED BY <3>1
  <2>4. /\ Len(bytes) = Len(v) + 1 /\ bytes[Len(v) + 1] = 0
        /\ \A k \in 1 .. Len(v) : bytes[k] = v[k]
    BY <2>1, <2>2, <2>3
  <2>5. Fill(i, v) = Overwrite(value[i], bytes)
    BY <1>2, <2>3 DEF Fill, Strcpy
  <2>6. \A k \in 1 .. SR_FIELD_VALUE_MAX_LENGTH :
          Fill(i, v)[k] = IF k <= Len(bytes) THEN bytes[k] ELSE value[i][k]
    BY <1>1, <2>5, OverwriteIsBuffer
  <2>7. \A k \in 1 .. Len(v) + 1 :
          k \in 1 .. SR_FIELD_VALUE_MAX_LENGTH /\ k <= Len(bytes)
    BY <2>1, <2>4, RowCodecAssumption
  <2>8. \A k \in 1 .. Len(v) + 1 : Fill(i, v)[k] = bytes[k]
    BY <2>6, <2>7
  <2>9. Len(v) + 1 \in 1 .. Len(v) + 1 /\ \A k \in 1 .. Len(v) : k \in 1 .. Len(v) + 1
    BY <2>1
  <2> QED BY <1>2, <2>1, <2>4, <2>8, <2>9 DEF Filled
<1>3. CASE ~ IsString(i)
  <2>1. v \in Seq(Byte) /\ Len(v) = SIZEOF_INT
    <3>1. v \in [1 .. SIZEOF_INT -> Byte]
      BY <1>3, RowCodecAssumption
    <3> QED BY <3>1, RowCodecAssumption
  <2>2. Fill(i, v) = Overwrite(value[i], v)
    BY <1>3 DEF Fill, SeriInt32
  <2>3. \A k \in 1 .. SR_FIELD_VALUE_MAX_LENGTH :
          Fill(i, v)[k] = IF k <= SIZEOF_INT THEN v[k] ELSE value[i][k]
    BY <1>1, <2>1, <2>2, OverwriteIsBuffer
  <2>4. \A k \in 1 .. SIZEOF_INT : k \in 1 .. SR_FIELD_VALUE_MAX_LENGTH /\ k <= SIZEOF_INT
    BY RowCodecAssumption
  <2>5. \A k \in SIZEOF_INT + 1 .. SR_FIELD_VALUE_MAX_LENGTH :
          k \in 1 .. SR_FIELD_VALUE_MAX_LENGTH /\ ~ (k <= SIZEOF_INT)
    BY RowCodecAssumption
  <2> QED BY <1>3, <2>3, <2>4, <2>5 DEF Filled
<1> QED BY <1>2, <1>3

\* strlen of a buffer stays inside it and finds its first zero.
LEMMA StrLenOfBuffer ==
  ASSUME NEW buffer \in Buffer
  PROVE  /\ StrLen(buffer) \in 0 .. SR_FIELD_VALUE_MAX_LENGTH
         /\ \A k \in 1 .. StrLen(buffer) : buffer[k] # 0
         /\ StrLen(buffer) < SR_FIELD_VALUE_MAX_LENGTH => buffer[StrLen(buffer) + 1] = 0
<1> DEFINE zeros == {k \in DOMAIN buffer : buffer[k] = 0}
<1> DEFINE max == SR_FIELD_VALUE_MAX_LENGTH
<1>1. DOMAIN buffer = 1 .. max /\ max \in Nat
  BY RowCodecAssumption DEF Buffer
<1>2. CASE zeros = {}
  <2>1. StrLen(buffer) = max
    BY <1>2 DEF StrLen
  <2>2. \A k \in 1 .. max : buffer[k] # 0
    BY <1>1, <1>2
  <2> QED BY <1>1, <2>1, <2>2
<1>3. CASE zeros # {}
  <2>1. StrLen(buffer) = Min(zeros) - 1
    BY <1>3 DEF StrLen
  <2>2. zeros \subseteq 1 .. max
    BY <1>1
  <2>3. Min(zeros) \in zeros /\ \A k \in zeros : Min(zeros) <= k
    <3>1. zeros \subseteq Nat
      BY <1>1, <2>2
    <3> HIDE DEF zeros
    <3> QED BY <1>3, <3>1, MinIsLeast
  <2>4. PICK m \in 1 .. max : m = Min(zeros)
    BY <2>2, <2>3
  <2>5. buffer[m] = 0
    BY <2>3, <2>4
  <2>6. \A k \in 1 .. m - 1 : buffer[k] # 0
    <3> TAKE k \in 1 .. m - 1
    <3>1. k \in 1 .. max /\ ~ (m <= k)
      BY <1>1, <2>4
    <3> QED BY <1>1, <2>3, <2>4, <3>1
  <2>7. m - 1 \in 0 .. max /\ (m - 1) + 1 = m
    BY <1>1, <2>4
  <2>8. StrLen(buffer) = m - 1
    BY <2>1, <2>4
  <2> QED BY <2>5, <2>6, <2>7, <2>8
<1> QED BY <1>2, <1>3

\* A byte of a row comes from the last field that writes to its place.
LEMMA ByteOfRow ==
  ASSUME properties \in Schema, NEW buffers \in [FieldIndex -> Buffer],
         NEW k \in 1 .. RecordTotalLen
  PROVE  /\ Writers(buffers, k) = {} => SeriRow(buffers)[k] = 0
         /\ \A i \in Writers(buffers, k) :
              (\A j \in FieldIndex : j > i => j \notin Writers(buffers, k)) =>
                SeriRow(buffers)[k] = buffers[i][k - Offset(i)]
         /\ SeriRow(buffers)[k] \in Byte
<1> DEFINE writers == Writers(buffers, k)
<1> DEFINE last == Max(writers)
<1>1. SeriRow(buffers)[k] = IF writers = {} THEN 0 ELSE buffers[last][k - Offset(last)]
  BY DEF SeriRow
<1>2. /\ Len(properties) \in Nat /\ RecordTotalLen \in Nat
      /\ \A i \in FieldIndex : Offset(i) \in Nat
  BY FieldsLieApart
<1>3. writers \subseteq FieldIndex /\ FieldIndex \subseteq Nat
      /\ \A i \in FieldIndex : i <= Len(properties)
  BY <1>2 DEF Writers, FieldIndex
<1>4. ASSUME writers # {}
      PROVE  last \in writers /\ \A j \in writers : last >= j
  <2>1. writers \subseteq Nat /\ \A j \in writers : j <= Len(properties)
    BY <1>3
  <2> HIDE DEF writers
  <2> QED BY <1>2, <1>4, <2>1, MaxIsGreatest
<1>5. ASSUME NEW i \in writers, \A j \in FieldIndex : j > i => j \notin writers
      PROVE  SeriRow(buffers)[k] = buffers[i][k - Offset(i)]
  <2>1. last \in writers /\ last >= i
    BY <1>4, <1>5
  <2>2. last \in Nat /\ i \in Nat /\ last \in FieldIndex
    BY <1>3, <1>5, <2>1
  <2> HIDE DEF writers, last
  <2>3. ~ (last > i)
    BY <1>5, <2>1, <2>2
  <2>4. last = i
    BY <2>1, <2>2, <2>3
  <2> QED BY <1>1, <1>5, <2>4
<1>6. SeriRow(buffers)[k] \in Byte
  <2>1. CASE writers = {}
    <3>1. 0 \in Byte
      BY RowCodecAssumption DEF Byte
    <3> QED BY <1>1, <2>1, <3>1
  <2>2. CASE writers # {}
    <3>1. last \in writers
      BY <1>4, <2>2
    <3> HIDE DEF last
    <3>2. last \in FieldIndex /\ k \in Offset(last) + 1 .. Offset(last) + StrLen(buffers[last])
      BY <3>1 DEF Writers
    <3>3. buffers[last] \in Buffer /\ Offset(last) \in Nat
      BY <1>2, <3>2
    <3>4. StrLen(buffers[last]) \in 0 .. SR_FIELD_VALUE_MAX_LENGTH
      BY <3>3, StrLenOfBuffer
    <3>5. k - Offset(last) \in 1 .. SR_FIELD_VALUE_MAX_LENGTH
      BY <1>2, <3>2, <3>3, <3>4, RowCodecAssumption
    <3>6. buffers[last][k - Offset(last)] \in Byte
      BY <3>3, <3>5 DEF Buffer
    <3> QED BY <1>1, <2>2, <3>6
  <2> QED BY <2>1, <2>2
<1>7. writers = {} => SeriRow(buffers)[k] = 0
  BY <1>1
<1> QED BY <1>5, <1>6, <1>7

\* A field that writes to a place which lies inside field i is field i or one
\* before it.
LEMMA NoLaterWriter ==
  ASSUME properties \in Schema, NEW buffers, NEW i \in FieldIndex,
         NEW k \in 1 .. properties[i].fldSize
  PROVE  /\ Offset(i) + k \in 1 .. RecordTotalLen
         /\ \A j \in FieldIndex : j > i => j \notin Writers(buffers, Offset(i) + k)
<1>1. /\ RecordTotalLen \in Nat /\ Len(properties) \in Nat
      /\ Offset(i) \in Nat /\ properties[i].fldSize \in Nat
      /\ Offset(i) + properties[i].fldSize <= RecordTotalLen
  BY FieldsLieApart
<1>2. Offset(i) + k \in 1 .. RecordTotalLen
  BY <1>1
<1>3. ASSUME NEW j \in FieldIndex, j > i
      PROVE  j \notin Writers(buffers, Offset(i) + k)
  <2>1. i < j
    BY <1>1, <1>3 DEF FieldIndex
  <2>2. Offset(i) + properties[i].fldSize <= Offset(j) /\ Offset(j) \in Nat
    BY <2>1, FieldsLieApart
  <2>3. ~ (Offset(j) + 1 <= Offset(i) + k)
    BY <1>1, <2>2
  <2>4. ASSUME NEW z \in Offset(j) + 1 .. Offset(j) + StrLen(buffers[j])
        PROVE  Offset(j) + 1 <= z
    BY <2>4
  <2> QED BY <2>3, <2>4 DEF Writers
<1> QED BY <1>2, <1>3

-----------------------------------------------------------------------------
(* The invariant                                                           *)

LEMMA RowInitOK == Init => RowInv
<1> SUFFICES ASSUME Init PROVE RowInv
  OBVIOUS
<1>1. PICK schema \in Schema :
        /\ properties = schema /\ value = [i \in 1 .. Len(schema) |-> Zeros]
        /\ given = <<>> /\ row = NoRow
  BY DEF Init
<1>2. \A i \in FieldIndex : value[i] = Zeros
  BY <1>1 DEF FieldIndex
<1>3. \A k \in SIZEOF_INT + 1 .. SR_FIELD_VALUE_MAX_LENGTH : Zeros[k] = 0
  BY RowCodecAssumption DEF Zeros
<1> QED BY <1>1, <1>2, <1>3, InitOK DEF RowInv

\* A statement is prepared, or an insert writes its arguments into the buffers
\* of some or of all fields.
LEMMA RowNextOK == RowInv /\ [Next]_vars => RowInv'
<1> SUFFICES ASSUME RowInv, [Next]_vars PROVE RowInv'
  OBVIOUS
<1>1. IInv /\ IInv'
  BY NextOK DEF RowInv
<1> DEFINE Rest(i, buffer) ==
      \A k \in SIZEOF_INT + 1 .. SR_FIELD_VALUE_MAX_LENGTH : buffer[k] = 0
<1>2. ASSUME NEW schema \in Schema, KVCPrepareStmt(schema)
      PROVE  RowInv'
  <2>1. /\ properties' = schema /\ value' = [i \in 1 .. Len(schema) |-> Zeros]
        /\ given' = <<>> /\ row' = NoRow
    BY <1>2 DEF KVCPrepareStmt
  <2>2. \A i \in FieldIndex' : value'[i] = Zeros
    BY <2>1 DEF FieldIndex
  <2>3. \A k \in SIZEOF_INT + 1 .. SR_FIELD_VALUE_MAX_LENGTH : Zeros[k] = 0
    BY RowCodecAssumption DEF Zeros
  <2> QED BY <1>1, <2>1, <2>2, <2>3 DEF RowInv
<1>3. ASSUME NEW args \in Arguments, NEW filled, filled \subseteq FieldIndex,
             filled \cap TooLongs(args) = {},
             value' = [i \in FieldIndex |-> IF i \in filled THEN Fill(i, args[i])
                                                            ELSE value[i]],
             UNCHANGED properties
      PROVE  /\ \A i \in FieldIndex : ~ IsString(i) => Rest(i, value'[i])
             /\ \A i \in filled : Filled(i, value'[i], args[i])
  <2>1. ASSUME NEW i \in filled
        PROVE  /\ Filled(i, value'[i], args[i])
               /\ ~ IsString(i) =>
                    \A k \in SIZEOF_INT + 1 .. SR_FIELD_VALUE_MAX_LENGTH :
                      value'[i][k] = value[i][k]
    <3>1. i \in FieldIndex /\ value'[i] = Fill(i, args[i])
      BY <1>3, <2>1
    <3>2. IF IsString(i) THEN args[i] \in Text /\ ~ TooLong(args[i])
                         ELSE args[i] \in Number
      BY <1>3, <2>1, <3>1 DEF Arguments, TooLongs
    <3> QED BY <1>1, <3>1, <3>2, FillHolds
  <2>2. ASSUME NEW i \in FieldIndex, ~ IsString(i)
        PROVE  Rest(i, value'[i])
    <3>1. Rest(i, value[i])
      BY <2>2 DEF RowInv
    <3>2. CASE i \in filled
      BY <2>1, <2>2, <3>1, <3>2
    <3>3. CASE i \notin filled
      BY <1>3, <3>1, <3>3
    <3> QED BY <3>2, <3>3
  <2> QED BY <2>1, <2>2
<1>4. ASSUME UNCHANGED properties
      PROVE  /\ FieldIndex' = FieldIndex /\ Arguments' = Arguments
             /\ \A i : IsString(i)' = IsString(i)
             /\ \A i, buffer, v : Filled(i, buffer, v)' = Filled(i, buffer, v)
  BY <1>4 DEF FieldIndex, Arguments, IsString, Filled
<1>5. ASSUME NEW args \in Arguments, SRCInsertDataTooLong(args)
      PROVE  RowInv'
  <2> DEFINE first == Min(TooLongs(args))
  <2> DEFINE filled == {i \in FieldIndex : i < first}
  <2>1. TooLongs(args) \subseteq Nat /\ TooLongs(args) # {}
    BY <1>5 DEF TooLongs, FieldIndex, SRCInsertDataTooLong
  <2>2. first \in Nat /\ \A j \in TooLongs(args) : first <= j
    BY <2>1, MinIsLeast
  <2>3. filled \cap TooLongs(args) = {}
    <3> HIDE DEF first
    <3> QED BY <2>1, <2>2
  <2>4. /\ value' = [i \in FieldIndex |-> IF i \in filled THEN Fill(i, args[i])
                                                          ELSE value[i]]
        /\ given' = args /\ row' = NoRow
        /\ UNCHANGED properties
    BY <1>5 DEF SRCInsertDataTooLong
  <2>5. filled \subseteq FieldIndex
    OBVIOUS
  <2> HIDE DEF filled
  <2>6. \A i \in FieldIndex : ~ IsString(i) => Rest(i, value'[i])
    BY <1>3, <2>3, <2>4, <2>5
  <2> QED BY <1>1, <1>4, <2>4, <2>6 DEF RowInv
<1>6. ASSUME NEW args \in Arguments, SRCInsertData(args)
      PROVE  RowInv'
  <2>1. /\ value' = [i \in FieldIndex |-> IF i \in FieldIndex THEN Fill(i, args[i])
                                                              ELSE value[i]]
        /\ given' = args /\ row' = SeriRow(value')
        /\ UNCHANGED properties /\ TooLongs(args) = {}
    BY <1>6 DEF SRCInsertData
  <2>2. /\ \A i \in FieldIndex : ~ IsString(i) => Rest(i, value'[i])
        /\ \A i \in FieldIndex : Filled(i, value'[i], args[i])
    BY <1>3, <2>1
  <2>3. SeriRow(value') = SeriRow(value)'
    BY <2>1 DEF SeriRow, Writers, RecordTotalLen, Offset, FieldIndex
  <2> QED BY <1>1, <1>4, <2>1, <2>2, <2>3 DEF RowInv
<1>7. CASE UNCHANGED vars
  <2>1. UNCHANGED <<properties, value, given, row>>
    BY <1>7 DEF vars
  <2>2. SeriRow(value)' = SeriRow(value)
    BY <2>1 DEF SeriRow, Writers, RecordTotalLen, Offset, FieldIndex
  <2> QED BY <1>1, <1>4, <2>1, <2>2 DEF RowInv
<1> QED BY <1>2, <1>5, <1>6, <1>7 DEF Next

LEMMA AlwaysRowInv == Spec => []RowInv
BY RowInitOK, RowNextOK, PTL DEF Spec

\* What a statement keeps and what was sent have their types: the row is as long
\* as the record and all of it are bytes.
THEOREM CodecTypeCorrect == Spec => []TypeOK
<1>1. RowInv => TypeOK
  <2> SUFFICES ASSUME RowInv PROVE TypeOK
    OBVIOUS
  <2>1. properties \in Schema /\ value \in [FieldIndex -> Buffer]
    BY DEF RowInv, IInv
  <2>2. SeriRow(value) \in [1 .. RecordTotalLen -> Byte]
    <3>1. \A k \in 1 .. RecordTotalLen : SeriRow(value)[k] \in Byte
      BY <2>1, ByteOfRow
    <3> QED BY <3>1 DEF SeriRow
  <2> QED BY <2>1, <2>2 DEF RowInv, TypeOK
<1> QED BY <1>1, AlwaysRowInv, PTL

\* A text that is longer than its field never takes a byte of a field behind it:
\* those are written later.
THEOREM LaterFieldsAlwaysWin == Spec => []LaterFieldsWin
<1>1. RowInv => LaterFieldsWin
  <2> SUFFICES ASSUME RowInv, row # NoRow, NEW i \in FieldIndex,
                      NEW k \in 1 .. StrLen(value[i]), k <= properties[i].fldSize
               PROVE  row[Offset(i) + k] = value[i][k]
    BY DEF LaterFieldsWin
  <2> DEFINE p == Offset(i) + k
  <2>1. properties \in Schema /\ value \in [FieldIndex -> Buffer] /\ row = SeriRow(value)
    BY DEF RowInv, IInv
  <2>2. Offset(i) \in Nat /\ properties[i].fldSize \in Nat
    BY <2>1, FieldsLieApart
  <2>3. StrLen(value[i]) \in 0 .. SR_FIELD_VALUE_MAX_LENGTH
    BY <2>1, StrLenOfBuffer
  <2>4. k \in 1 .. properties[i].fldSize
    BY <2>2
  <2>5. /\ p \in 1 .. RecordTotalLen
        /\ \A j \in FieldIndex : j > i => j \notin Writers(value, p)
    BY <2>1, <2>4, NoLaterWriter
  <2>6. i \in Writers(value, p)
    <3>1. p \in Offset(i) + 1 .. Offset(i) + StrLen(value[i])
      BY <2>2, <2>3, RowCodecAssumption
    <3> QED BY <3>1 DEF Writers
  <2>7. p - Offset(i) = k
    BY <2>2
  <2> HIDE DEF p
  <2>8. SeriRow(value)[p] = value[i][p - Offset(i)]
    BY <2>1, <2>5, <2>6, ByteOfRow
  <2> QED BY <2>1, <2>7, <2>8 DEF p
<1> QED BY <1>1, AlwaysRowInv, PTL

\* When every value fits, no field writes outside its own place: strlen of a
\* buffer is at most the size of its field.
LEMMA FittingLength ==
  ASSUME RowInv, row # NoRow, NEW i \in FieldIndex, Fits(i)
  PROVE  /\ StrLen(value[i]) \in Nat /\ StrLen(value[i]) <= properties[i].fldSize
         /\ StrLen(value[i]) < SR_FIELD_VALUE_MAX_LENGTH
         /\ IF IsString(i) THEN StrLen(value[i]) = Len(given[i])
                           ELSE StrLen(value[i]) <= SIZEOF_INT
<1> DEFINE n == StrLen(value[i])
<1> DEFINE max == SR_FIELD_VALUE_MAX_LENGTH
<1>1. /\ properties \in Schema /\ value[i] \in Buffer /\ given \in Arguments
      /\ Filled(i, value[i], given[i])
  BY DEF RowInv, IInv
<1>2. /\ n \in 0 .. max
      /\ \A k \in 1 .. n : value[i][k] # 0
  BY <1>1, StrLenOfBuffer
<1>3. n < max => value[i][n + 1] = 0
  BY <1>1, StrLenOfBuffer
<1>4. properties[i].fldSize \in Nat
  BY <1>1, FieldsLieApart
<1>5. max \in Nat /\ SIZEOF_INT \in Nat /\ SIZEOF_INT < max
  BY RowCodecAssumption
<1> HIDE DEF n, max
<1>6. CASE IsString(i)
  <2>1. given[i] \in Text
    BY <1>1, <1>6 DEF Arguments
  <2>2. Len(given[i]) \in Nat /\ \A k \in 1 .. Len(given[i]) : given[i][k] # 0
    BY <2>1, TextsAreBytes
  <2>3. /\ Len(given[i]) + 1 <= max
        /\ \A k \in 1 .. Len(given[i]) : value[i][k] = given[i][k]
        /\ value[i][Len(given[i]) + 1] = 0
    BY <1>1, <1>6 DEF Filled, max
  <2>4. Len(given[i]) < properties[i].fldSize
    BY <1>6 DEF Fits
  <2>5. ~ (Len(given[i]) + 1 \in 1 .. n)
    BY <1>2, <2>3
  <2>6. n <= Len(given[i])
    BY <1>2, <1>5, <2>2, <2>5
  <2>7. ~ (n + 1 \in 1 .. Len(given[i]))
    <3>1. n < max
      BY <1>2, <1>5, <2>2, <2>3, <2>6
    <3> QED BY <1>3, <2>2, <2>3, <3>1
  <2>8. n = Len(given[i])
    BY <1>2, <1>5, <2>2, <2>6, <2>7
  <2> QED BY <1>2, <1>4, <1>5, <1>6, <2>2, <2>3, <2>4, <2>8 DEF n, max
<1>7. CASE ~ IsString(i)
  <2>1. SIZEOF_INT + 1 \in SIZEOF_INT + 1 .. max
    BY <1>5
  <2>2. value[i][SIZEOF_INT + 1] = 0
    BY <1>7, <2>1 DEF RowInv, max
  <2>3. ~ (SIZEOF_INT + 1 \in 1 .. n)
    BY <1>2, <2>2
  <2>4. n <= SIZEOF_INT
    BY <1>2, <1>5, <2>3
  <2>5. properties[i].fldSize >= SIZEOF_INT
    BY <1>7 DEF Fits
  <2> QED BY <1>2, <1>4, <1>5, <1>7, <2>4, <2>5 DEF n, max
<1> QED BY <1>6, <1>7

\* When every value fits, the place of a field holds the bytes of its buffer up
\* to the first zero, and zeros behind them.
LEMMA FittingBytes ==
  ASSUME RowInv, row # NoRow, \A i \in FieldIndex : Fits(i),
         NEW i \in FieldIndex, NEW k \in 1 .. properties[i].fldSize
  PROVE  /\ Offset(i) + k \in 1 .. RecordTotalLen
         /\ row[Offset(i) + k] = IF k <= StrLen(value[i]) THEN value[i][k] ELSE 0
<1> DEFINE p == Offset(i) + k
<1>1. /\ properties \in Schema /\ value \in [FieldIndex -> Buffer]
      /\ row = SeriRow(value)
  BY DEF RowInv, IInv
<1>2. /\ p \in 1 .. RecordTotalLen
      /\ \A j \in FieldIndex : j > i => j \notin Writers(value, p)
  BY <1>1, NoLaterWriter
<1>3. /\ Offset(i) \in Nat /\ properties[i].fldSize \in Nat
      /\ FieldIndex \subseteq Nat
      /\ StrLen(value[i]) \in Nat
  BY <1>1, FieldsLieApart, FittingLength DEF FieldIndex
<1>4. ASSUME NEW j \in FieldIndex, j < i
      PROVE  j \notin Writers(value, p)
  <2>1. /\ Offset(j) \in Nat /\ properties[j].fldSize \in Nat
        /\ Offset(j) + properties[j].fldSize <= Offset(i)
    BY <1>1, <1>4, FieldsLieApart
  <2>2. StrLen(value[j]) \in Nat /\ StrLen(value[j]) <= properties[j].fldSize
    BY FittingLength
  <2>3. ~ (p <= Offset(j) + StrLen(value[j]))
    BY <1>3, <2>1, <2>2
  <2>4. ASSUME NEW z \in Offset(j) + 1 .. Offset(j) + StrLen(value[j])
        PROVE  z <= Offset(j) + StrLen(value[j])
    BY <2>4
  <2> HIDE DEF p
  <2> QED BY <2>3, <2>4 DEF Writers
<1>5. i \in Writers(value, p) <=> k <= StrLen(value[i])
  <2>1. p \in Offset(i) + 1 .. Offset(i) + StrLen(value[i]) <=> k <= StrLen(value[i])
    BY <1>3
  <2> QED BY <2>1 DEF Writers
<1>6. p - Offset(i) = k
  BY <1>3
<1> HIDE DEF p
<1>7. CASE k <= StrLen(value[i])
  <2>1. SeriRow(value)[p] = value[i][p - Offset(i)]
    BY <1>1, <1>2, <1>5, <1>7, ByteOfRow
  <2> QED BY <1>1, <1>2, <1>6, <1>7, <2>1 DEF p
<1>8. CASE ~ (k <= StrLen(value[i]))
  <2>1. \A j \in FieldIndex : j < i \/ j = i \/ j > i
    BY <1>3
  <2>2. Writers(value, p) = {}
    <3>1. \A j \in FieldIndex : j \notin Writers(value, p)
      BY <1>2, <1>4, <1>5, <1>8, <2>1
    <3>2. Writers(value, p) \subseteq FieldIndex
      BY DEF Writers
    <3> QED BY <3>1, <3>2
  <2>3. SeriRow(value)[p] = 0
    BY <1>1, <1>2, <2>2, ByteOfRow
  <2> QED BY <1>1, <1>2, <1>8, <2>3 DEF p
<1> QED BY <1>7, <1>8

\* The part of a row from a field on, as a sequence.
LEMMA PartOfRow ==
  ASSUME NEW o \in Nat, NEW n \in Nat, NEW r, NEW v \in [1 .. n -> Byte],
         \A k \in 1 .. n : r[o + k] = v[k]
  PROVE  SubSeq(r, o + 1, o + n) = v
<1>1. (o + n) - (o + 1) + 1 = n
  OBVIOUS
<1>2. SubSeq(r, o + 1, o + n) = [k \in 1 .. n |-> r[k + (o + 1) - 1]]
  BY <1>1
<1>3. \A k \in 1 .. n : k + (o + 1) - 1 = o + k
  OBVIOUS
<1>4. \A k \in 1 .. n : r[k + (o + 1) - 1] = v[k]
  BY <1>3
<1> QED BY <1>2, <1>4

\* Values that fit into their fields, and integers without a zero byte below
\* another, are read back as they were given, whatever was inserted before.
THEOREM FittingRowsAlwaysArrive == Spec => []FittingRowsArrive
<1>1. RowInv => FittingRowsArrive
  <2> SUFFICES ASSUME RowInv, row # NoRow, \A j \in FieldIndex : Fits(j),
                      NEW i \in FieldIndex
               PROVE  Read(i) = given[i]
    BY DEF FittingRowsArrive
  <2> DEFINE o == Offset(i)
  <2> DEFINE n == StrLen(value[i])
  <2>1. /\ properties \in Schema /\ value[i] \in Buffer /\ given \in Arguments
        /\ Filled(i, value[i], given[i])
    BY DEF RowInv, IInv
  <2>2. /\ o \in Nat /\ properties[i].fldSize \in Nat /\ RecordTotalLen \in Nat
        /\ o + properties[i].fldSize <= RecordTotalLen
    BY <2>1, FieldsLieApart
  <2>3. /\ n \in Nat /\ n <= properties[i].fldSize /\ n < SR_FIELD_VALUE_MAX_LENGTH
        /\ IF IsString(i) THEN n = Len(given[i]) ELSE n <= SIZEOF_INT
    BY FittingLength
  <2>4. \A k \in 1 .. properties[i].fldSize :
          /\ o + k \in 1 .. RecordTotalLen
          /\ row[o + k] = IF k <= n THEN value[i][k] ELSE 0
    BY FittingBytes
  <2>5. value[i][n + 1] = 0
    BY <2>1, <2>3, StrLenOfBuffer
  <2> HIDE DEF o, n
  <2>6. CASE IsString(i)
    <3>1. given[i] \in Text
      BY <2>1, <2>6 DEF Arguments
    <3>2. given[i] \in Seq(Byte) /\ \A k \in 1 .. n : given[i][k] # 0
      BY <2>3, <2>6, <3>1, TextsAreBytes
    <3>3. n < properties[i].fldSize
      BY <2>3, <2>6 DEF Fits
    <3>4. \A k \in 1 .. n : value[i][k] = given[i][k]
      BY <2>1, <2>3, <2>6 DEF Filled
    <3>5. \A k \in 1 .. n : row[o + k] = given[i][k] /\ row[o + k] # 0
      <4>1. \A k \in 1 .. n : k \in 1 .. properties[i].fldSize /\ k <= n
        BY <2>2, <2>3
      <4> QED BY <2>4, <3>2, <3>4, <4>1
    <3>6. row[o + n + 1] = 0 /\ o + n + 1 \in o + 1 .. RecordTotalLen
      <4>1. n + 1 \in 1 .. properties[i].fldSize /\ ~ (n + 1 <= n)
        BY <2>2, <2>3, <3>3
      <4>2. row[o + (n + 1)] = 0 /\ o + (n + 1) \in 1 .. RecordTotalLen
        BY <2>4, <4>1
      <4>3. o + (n + 1) = o + n + 1
        BY <2>2, <2>3
      <4> QED BY <2>2, <2>3, <4>2, <4>3
    <3> DEFINE ends == {k \in o + 1 .. RecordTotalLen : row[k] = 0}
    <3>7. Min(ends) = o + n + 1
      <4>1. ends # {} /\ ends \subseteq Nat /\ o + n + 1 \in ends
        BY <2>2, <3>6
      <4>2. Min(ends) \in ends /\ Min(ends) <= o + n + 1
        <5> HIDE DEF ends
        <5> QED BY <4>1, MinIsLeast
      <4>3. PICK m \in o + 1 .. RecordTotalLen : m = Min(ends) /\ row[m] = 0
        BY <4>2
      <4>4. m - o \notin 1 .. n
        <5>1. m = o + (m - o)
          BY <2>2, <4>3
        <5> QED BY <3>5, <4>3, <5>1
      <4>5. m <= o + n + 1
        BY <4>2, <4>3
      <4>6. m = o + n + 1
        BY <2>2, <2>3, <4>4, <4>5
      <4> QED BY <4>3, <4>6
    <3>8. ends # {}
      BY <3>6
    <3>9. ReadText(i) = SubSeq(row, o + 1, Min(ends) - 1)
      BY <3>8 DEF ReadText, o
    <3>10. Min(ends) - 1 = o + n
      <4> HIDE DEF ends
      <4> QED BY <2>2, <2>3, <3>7
    <3> HIDE DEF ends
    <3>11. given[i] \in [1 .. n -> Byte]
      BY <2>3, <2>6, <3>2
    <3>12. SubSeq(row, o + 1, o + n) = given[i]
      BY <2>2, <2>3, <3>5, <3>11, PartOfRow
    <3> QED BY <2>6, <3>9, <3>10, <3>12 DEF Read
  <2>7. CASE ~ IsString(i)
    <3>1. given[i] \in Number
      BY <2>1, <2>7 DEF Arguments
    <3>2. given[i] \in [1 .. SIZEOF_INT -> Byte]
      BY <3>1, RowCodecAssumption
    <3>3. /\ SIZEOF_INT <= properties[i].fldSize
          /\ \A k \in 1 .. SIZEOF_INT - 1 : given[i][k] = 0 => given[i][k + 1] = 0
      BY <2>2, <2>7, RowCodecAssumption DEF Fits
    <3>4. \A k \in 1 .. SIZEOF_INT : value[i][k] = given[i][k]
      BY <2>1, <2>7 DEF Filled
    <3>5. \A k \in n + 1 .. SIZEOF_INT : given[i][k] = 0
      <4> DEFINE set == {k \in n + 1 .. SIZEOF_INT : given[i][k] # 0}
      <4>1. SUFFICES ASSUME set # {} PROVE FALSE
        OBVIOUS
      <4>2. set \subseteq Nat
        BY <2>3
      <4>3. Min(set) \in set /\ \A k \in set : Min(set) <= k
        <5> HIDE DEF set
        <5> QED BY <4>1, <4>2, MinIsLeast
      <4>4. PICK m \in n + 1 .. SIZEOF_INT :
              m = Min(set) /\ given[i][m] # 0 /\ \A k \in set : m <= k
        BY <4>3
      <4>5. m # n + 1
        <5>1. m = n + 1 => n + 1 \in 1 .. SIZEOF_INT
          BY <2>3, <4>4
        <5> QED BY <2>5, <3>4, <4>4, <5>1
      <4>6. m - 1 \in n + 1 .. SIZEOF_INT /\ m - 1 \in 1 .. SIZEOF_INT - 1
            /\ (m - 1) + 1 = m /\ ~ (m <= m - 1)
        BY <2>3, <4>4, <4>5, RowCodecAssumption
      <4>7. m - 1 \notin set
        <5> HIDE DEF set
        <5> QED BY <4>4, <4>6
      <4>8. given[i][m - 1] = 0
        BY <4>6, <4>7
      <4> QED BY <3>3, <4>4, <4>6, <4>8
    <3>6. \A k \in 1 .. SIZEOF_INT : row[o + k] = given[i][k]
      <4> TAKE k \in 1 .. SIZEOF_INT
      <4>1. k \in 1 .. properties[i].fldSize
        BY <2>2, <3>3, RowCodecAssumption
      <4>2. row[o + k] = IF k <= n THEN value[i][k] ELSE 0
        BY <2>4, <4>1
      <4>3. CASE k <= n
        BY <3>4, <4>2, <4>3
      <4>4. CASE ~ (k <= n)
        <5>1. k \in n + 1 .. SIZEOF_INT
          BY <2>3, <4>4, RowCodecAssumption
        <5> QED BY <3>5, <4>2, <4>4, <5>1
      <4> QED BY <4>3, <4>4
    <3>7. SubSeq(row, o + 1, o + SIZEOF_INT) = given[i]
      BY <2>2, <3>2, <3>6, PartOfRow, RowCodecAssumption
    <3> QED BY <2>7, <3>7 DEF Read, ReadInt, o
  <2> QED BY <2>6, <2>7
<1> QED BY <1>1, AlwaysRowInv, PTL

=============================================================================
