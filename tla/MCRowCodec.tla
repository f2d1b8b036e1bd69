----------------------------- MODULE MCRowCodec -----------------------------
(***************************************************************************)
(* Fields of two to four bytes with buffers of five: texts that fit, that  *)
(* fill their field, that spill over the next, that fill the buffer, and   *)
(* that are too long for it.                                               *)
(***************************************************************************)
EXTENDS RowCodec

Field(type, size) == [fieldType |-> type, fldSize |-> size]

MCSchema ==
  {<<Field(1, 3), Field(0, 2), Field(1, 2)>>,
   <<Field(0, 2), Field(1, 4)>>,
   <<Field(0, 3), Field(0, 2)>>}

MCText == {<<>>, <<1>>, <<2, 1, 1>>, <<1, 2, 2, 1>>, <<1, 1, 1, 1, 1>>}

MCNumber == {<<0, 0>>, <<1, 0>>, <<0, 1>>, <<2, 1>>}

=============================================================================
