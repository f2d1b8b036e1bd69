------------------------------ MODULE RowCodec ------------------------------
(***************************************************************************)
(* The way of a row from SRCInsertData to the table: into the value        *)
(* buffers that a statement keeps for its fields (client_simple_relation.c)*)
(* from there into the request and out of it (seri_utils.c), and back to   *)
(* values, as DmTraceTableRow reads a row (spr_label.c).                   *)
(*                                                                         *)
(* Every field, integers too, goes into the request as a C string: as many *)
(* bytes as there are before the first zero.  The buffers live as long as  *)
(* the statement, so what an insert leaves in them is there at the next.   *)
(* An integer is its bytes, the lowest first; a text is its bytes without  *)
(* the zero behind it.                                                     *)
(***************************************************************************)
EXTENDS Integers, Sequences, FiniteSetsExt

CONSTANTS
  Schema,                    \* the field lists of tables, as a query answers them
  SIZEOF_INT,                \* bytes of an int32_t
  SR_FIELD_VALUE_MAX_LENGTH, \* bytes of a value buffer
  MaxByte,                   \* bytes are 0 .. MaxByte
  Text, Number,              \* the texts and integers that users pass
  NoRow                      \* nothing was sent

Byte == 0 .. MaxByte

Property == [fieldType : {0, 1}, fldSize : Nat]

ASSUME RowCodecAssumption ==
  /\ SIZEOF_INT \in Nat /\ SIZEOF_INT < SR_FIELD_VALUE_MAX_LENGTH
  /\ SR_FIELD_VALUE_MAX_LENGTH \in Nat /\ MaxByte \in Nat
  /\ Schema \subseteq Seq(Property)
  /\ Text \subseteq Seq(Byte \ {0}) /\ Number \subseteq [1 .. SIZEOF_INT -> Byte]
  /\ NoRow \notin Seq(Byte)

VARIABLES
  properties,  \* the fields of the statement's table
  value,       \* their value buffers
  given,       \* the values of the last insert
  row          \* the row that the server took out of the request

vars == <<properties, value, given, row>>

IsString(i) == properties[i].fieldType = 1

FieldIndex == 1 .. Len(properties)

\* Where each field starts in a row, one place more for the row's end: the
\* cursor moves on by the size of a field whatever was written there.
Starts(fields) ==
  LET start[i \in 1 .. Len(fields) + 1] ==
        IF i = 1 THEN 0 ELSE start[i - 1] + fields[i - 1].fldSize
  IN  start

Offset(i) == Starts(properties)[i]

RecordTotalLen == Offset(Len(properties) + 1)

-----------------------------------------------------------------------------
(* The value buffers                                                       *)

Buffer == [1 .. SR_FIELD_VALUE_MAX_LENGTH -> Byte]

Zeros == [k \in 1 .. SR_FIELD_VALUE_MAX_LENGTH |-> 0]

\* Copies bytes to the start of a buffer.
Overwrite(buffer, bytes) ==
  [k \in DOMAIN buffer |-> IF k <= Len(bytes) THEN bytes[k] ELSE buffer[k]]

SeriInt32(buffer, int) == Overwrite(buffer, int)

\* Mutant: memcpy of strlen bytes.
StrcpyUnterminated(buffer, text) == Overwrite(buffer, text)

\* The text and the zero behind it.
Strcpy(buffer, text) == Overwrite(buffer, Append(text, 0))

\* Mutant: strlen instead of STRLEN, which counts the zero.
TooLongByOne(text) == Len(text) > SR_FIELD_VALUE_MAX_LENGTH

TooLong(text) == Len(text) + 1 > SR_FIELD_VALUE_MAX_LENGTH

Fill(i, v) == IF IsString(i) THEN Strcpy(value[i], v) ELSE SeriInt32(value[i], v)

-----------------------------------------------------------------------------
(* The request                                                             *)

\* strlen of a value.  With no zero in the buffer it would run on into the
\* field name, which follows the buffer.
StrLen(buffer) ==
  LET zeros == {k \in DOMAIN buffer : buffer[k] = 0}
  IN  IF zeros = {} THEN SR_FIELD_VALUE_MAX_LENGTH ELSE Min(zeros) - 1

\* The fields that SeriFixedStringM copies a byte to place k for.
Writers(buffers, k) ==
  {i \in FieldIndex : k \in Offset(i) + 1 .. Offset(i) + StrLen(buffers[i])}

\* SRCSeriRequsetBuf fills the fields in, in order, each at its offset, into a
\* message of zeros; a later field overwrites what an earlier one spilled.  The
\* server copies the first RecordTotalLen bytes (DeseriFixedStringM).
SeriRow(buffers) ==
  [k \in 1 .. RecordTotalLen |->
     IF Writers(buffers, k) = {} THEN 0
     ELSE LET i == Max(Writers(buffers, k)) IN buffers[i][k - Offset(i)]]

-----------------------------------------------------------------------------
(* A statement                                                             *)

\* Mutant: no memset, the buffers are as long as those of the statement before.
KVCPrepareStmtUncleared(schema) ==
  /\ properties' = schema
  /\ value' = value
  /\ given' = <<>>
  /\ row' = NoRow

\* SrParseTable clears the buffers of a new statement.
KVCPrepareStmt(schema) ==
  /\ properties' = schema
  /\ value' = [i \in 1 .. Len(schema) |-> Zeros]
  /\ given' = <<>>
  /\ row' = NoRow

Init ==
  \E schema \in Schema :
    /\ properties = schema
    /\ value = [i \in 1 .. Len(schema) |-> Zeros]
    /\ given = <<>>
    /\ row = NoRow

\* The arguments of an insert, one for each field and of its type.
Arguments ==
  {args \in [FieldIndex -> Number \cup Text] :
     \A i \in FieldIndex : args[i] \in IF IsString(i) THEN Text ELSE Number}

TooLongs(args) == {i \in FieldIndex : IsString(i) /\ TooLong(args[i])}

\* A text that is too long ends SRCInsertData, with the fields before it filled
\* and nothing sent.
SRCInsertDataTooLong(args) ==
  /\ TooLongs(args) # {}
  /\ value' = [i \in FieldIndex |-> IF i < Min(TooLongs(args)) THEN Fill(i, args[i])
                                                              ELSE value[i]]
  /\ given' = args
  /\ row' = NoRow
  /\ UNCHANGED properties

SRCInsertData(args) ==
  /\ TooLongs(args) = {}
  /\ value' = [i \in FieldIndex |-> Fill(i, args[i])]
  /\ given' = args
  /\ row' = SeriRow(value')
  /\ UNCHANGED properties

Next ==
  \/ \E schema \in Schema : KVCPrepareStmt(schema)
  \/ \E args \in Arguments : SRCInsertDataTooLong(args) \/ SRCInsertData(args)

Spec == Init /\ [][Next]_vars

-----------------------------------------------------------------------------
(* Reading a row back                                                      *)

\* DmTraceTableRow prints a text from its offset to the first zero, and four
\* bytes of a number.  A row without a zero behind the text is read on.
ReadText(i) ==
  LET ends == {k \in Offset(i) + 1 .. RecordTotalLen : row[k] = 0}
      end  == IF ends = {} THEN RecordTotalLen ELSE Min(ends) - 1
  IN  SubSeq(row, Offset(i) + 1, end)

ReadInt(i) == SubSeq(row, Offset(i) + 1, Offset(i) + SIZEOF_INT)

Read(i) == IF IsString(i) THEN ReadText(i) ELSE ReadInt(i)

-----------------------------------------------------------------------------
(* Properties                                                              *)

TypeOK ==
  /\ properties \in Schema
  /\ value \in [FieldIndex -> Buffer]
  /\ given = <<>> \/ given \in Arguments
  /\ row = NoRow \/ row \in [1 .. RecordTotalLen -> Byte]

\* strlen of a value ends inside its buffer, also for integers that have no
\* zero byte and for the longest text that is let through.
ValuesTerminated == \A i \in FieldIndex : \E k \in DOMAIN value[i] : value[i][k] = 0

Fits(i) ==
  IF IsString(i)
    THEN Len(given[i]) < properties[i].fldSize
    ELSE /\ properties[i].fldSize >= SIZEOF_INT
         /\ \A k \in 1 .. SIZEOF_INT - 1 : given[i][k] = 0 => given[i][k + 1] = 0

\* Whatever was inserted before through the statement, texts too long for their
\* fields and refused inserts included: values that fit into their fields, and
\* integers without a zero byte below another, are read back as they were given.
FittingRowsArrive ==
  row # NoRow /\ (\A i \in FieldIndex : Fits(i)) =>
    \A i \in FieldIndex : Read(i) = given[i]

\* A text that is longer than its field spills over the fields behind it, and
\* never replaces a byte of theirs: those are written later.
LaterFieldsWin ==
  row # NoRow =>
    \A i \in FieldIndex : \A k \in 1 .. StrLen(value[i]) :
      k <= properties[i].fldSize => row[Offset(i) + k] = value[i][k]

\* Integers arrive, as the list of supported types above GetRecordTotalLen says.
IntegersArrive ==
  row # NoRow =>
    \A i \in FieldIndex :
      ~ IsString(i) /\ properties[i].fldSize = SIZEOF_INT
        /\ (\A j \in FieldIndex : IsString(j) => Len(given[j]) < properties[j].fldSize)
        => Read(i) = given[i]

=============================================================================
