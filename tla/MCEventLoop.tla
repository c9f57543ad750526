----------------------------- MODULE MCEventLoop -----------------------------
(***************************************************************************)
(* Small instances of EventLoop, with requests that are always answered.   *)
(* What else a request may do to the loop is in MCWebserv.                 *)
(***************************************************************************)
EXTENDS EventLoop, TLC

PageRequests == {"page"}
PageOutcomes == [r \in PageRequests |-> [act : {"answer"}, opens : {"none"}]]

Symmetry == Permutations(Clients)
=============================================================================
