------------------------------ MODULE SrStatus ------------------------------
(***************************************************************************)
(* The status words of the simple-relation requests (common.h), and the    *)
(* answer a client gets: a status, an id, and the fields of a table.       *)
(***************************************************************************)

GMERR_OK == "GMERR_OK"
NAME_NULL == "GMERR_DATAMODEL_SRDB_NAME_NULL"
NAME_TOO_LONG == "GMERR_DATAMODEL_SRDB_NAME_TOO_LONG"
NAME_EXISTED == "GMERR_DATAMODEL_SRDB_NAME_EXISTED"
NAME_NOT_EXISTED == "GMERR_DATAMODEL_SRDB_NAME_NOT_EXISTED"
DB_ID_NOT_EXISTED == "GMERR_DATAMODEL_SRDB_ID_NOT_EXISTED"
LABEL_NAME_EXISTED == "GMERR_DATAMODEL_SRLABEL_NAME_EXISTED"
LABEL_ID_NOT_EXISTED == "GMERR_DATAMODEL_SRLABEL_ID_NOT_EXISTED"
LABEL_JSON_NULL == "GMERR_DATAMODEL_SR_CREATE_LABEL_JSON_NULL"
FIELDS_OUTRANGE == "GMERR_DATAMODEL_SR_CREATE_LABEL_FIELDS_OUTRANGE"
JSON_LIB_ERROR == "GMERR_JSON_LIB_ERROR"
NOT_SUPPORT == "GMERR_KV_NOT_SUPPORT"

KV_MEMORY_ALLOC_FAILED == "GMERR_KV_MEMORY_ALLOC_FAILED"
MEMORY_ALLOC_FAILED == "GMERR_MEMORY_ALLOC_FAILED"
UNKNOWN_OPCODE == "GMERR_RUNTIME_UNKNOWN_OPCODE"
INVAILD_OPTION == "GMERR_ADD_TEST_INVAILD_OPTION"

\* Stands for the value of a function that ends without a return statement.
INDETERMINATE == "indeterminate"

BadNameStatus == {NAME_NULL, NAME_TOO_LONG}

BadSchemaStatus == {LABEL_JSON_NULL, FIELDS_OUTRANGE, JSON_LIB_ERROR, NOT_SUPPORT}

\* KVMemAlloc failed, or malloc or realloc did.
NoMemoryStatus == {KV_MEMORY_ALLOC_FAILED, MEMORY_ALLOC_FAILED}

Status ==
  BadNameStatus \cup BadSchemaStatus \cup NoMemoryStatus \cup
  {GMERR_OK, NAME_EXISTED, NAME_NOT_EXISTED, DB_ID_NOT_EXISTED,
   LABEL_NAME_EXISTED, LABEL_ID_NOT_EXISTED, UNKNOWN_OPCODE, INVAILD_OPTION,
   INDETERMINATE}

NoId == 0

Answer(status, id, fields) == [status |-> status, id |-> id, fields |-> fields]

=============================================================================
