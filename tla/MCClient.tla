------------------------------ MODULE MCClient ------------------------------
(***************************************************************************)
(* Two definitions, whose rows do not fit the other, and one without       *)
(* fields.                                                                 *)
(***************************************************************************)
EXTENDS Client, TLC

MCSchema == {<<"one">>, <<"two">>, <<>>}

WildSchema == {<<"two">>}

OneSchema == {<<"one">>}

\* What the server said last and what a call returned decide nothing that the
\* properties of the runs with this view are about, except that a client which
\* aborted makes no more calls: steps from states with one view lead to states
\* with one view.
WithoutRsp ==
  <<server, opened, store, usedDb, usedTable, connection, request, answer, held,
    stmt, [c \in Client |-> result[c].ret = "aborted"]>>

ClientSymmetry == Permutations(Client) \cup Permutations(DbName)

=============================================================================
