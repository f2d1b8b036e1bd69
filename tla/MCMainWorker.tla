---------------------------- MODULE MCMainWorker ----------------------------
(***************************************************************************)
(* The modes of the runs: clients that connect one after the other or not, *)
(* and, one after the other, clients and servers that end at any time,     *)
(* with descriptors for all clients and for one.                           *)
(***************************************************************************)
EXTENDS MainWorker, TLC

AMode(hasty, rough, fds) == [hasty |-> hasty, rough |-> rough, fds |-> fds]

AllModes ==
  {AMode(hasty, FALSE, MaxFd) : hasty \in BOOLEAN}
    \cup {AMode(FALSE, TRUE, fds) : fds \in {1, MaxFd}}

HastyMode == {AMode(TRUE, FALSE, MaxFd)}

RoughMode == {AMode(FALSE, TRUE, MaxFd)}

\* Clients are interchangeable; the runs of one invariant use that.
ClientSymmetry == Permutations(Client)

=============================================================================
