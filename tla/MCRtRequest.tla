----------------------------- MODULE MCRtRequest -----------------------------
(***************************************************************************)
(* What the last request took and gave back has no part in what comes next *)
(* and is left out of the view.                                            *)
(***************************************************************************)
EXTENDS RtRequest, MCSimpleRel

RequestView == <<vars, memory>>

=============================================================================
