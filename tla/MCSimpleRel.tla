---------------------------- MODULE MCSimpleRel ----------------------------
(***************************************************************************)
(* Schemas for two runs.  The catalogue run makes tables whose rows are a  *)
(* string of one byte, which need not end, or two numbers of which one     *)
(* lies outside the page, and refuses schemas for every reason there is.   *)
(* The page run makes tables with rows of one, two, three and no bytes,    *)
(* the last one because a negative size wraps or there are no fields.      *)
(***************************************************************************)
EXTENDS SimpleRel

CONSTANTS NameA, NameB

Field(type, size) == [type |-> type, size |-> size]

Schema(labelName, fields) == [labelName |-> labelName, fields |-> fields]

\* One schema for every way to refuse one.
BadJson ==
  {NoJson,
   Malformed,
   Schema(NameA, Malformed),
   Schema(NameA, <<>>),
   Schema(NameA, <<Field("int", 1), Field("int", 1), Field("int", 1)>>),
   Schema(NameA, <<Field("int", 1), Field(Unsupported, 1)>>),
   Schema(NameA, <<Malformed, Field(Unsupported, 1)>>)}

\* The fields are there, but not as an array.
OddJson == {Schema(NameB, NotArray)}

GoodJson ==
  {Schema(NameA, <<Field("string", 1)>>),
   Schema(NameB, <<Field("int", 1), Field("int", -1)>>)}

CatalogueJson == BadJson \cup GoodJson

PageJson ==
  {Schema(NameA, <<Field("int", 2)>>),
   Schema(NameB, <<Field("string", 1)>>),
   Schema(NameB, <<Field("string", 2), Field("uint32", 1)>>),
   Schema(NameB, <<Field("int", 2), Field("int", -2)>>)} \cup OddJson

=============================================================================
