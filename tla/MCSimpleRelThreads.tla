-------------------------- MODULE MCSimpleRelThreads --------------------------
(***************************************************************************)
(* Threads are interchangeable, and so are names.  A behaviour that has    *)
(* seen one kind of overlap is not followed into a second kind.  Creations *)
(* that overlap are followed through creations only, a vector that grows   *)
(* under a request until the last id is taken, two insertions into one     *)
(* table until both are answered, and a table whose making was disturbed   *)
(* until no table is being made.  Once two requests have met over an id,   *)
(* no property says anything any more.                                     *)
(***************************************************************************)
EXTENDS SimpleRelThreads, TLC

Telling ==
  /\ NoRace({"ids"}) /\ Cardinality(races) <= 1
  /\ "dbs" \in races => \A t \in Thread : thread[t].op \in {"create", "none"}
  /\ "rows" \in races => /\ \A t \in Thread : thread[t].op \in {"insert", "none"}
                         /\ \E t \in Thread : thread[t].op = "insert"
  /\ "growth" \in races => g_dbGenNum < MaxGenNum
  /\ "tables" \in races => \E t \in Thread : thread[t].op = "table"

Symmetry ==
  Permutations(Thread) \cup Permutations(DbName) \cup Permutations(LabelName)

=============================================================================
