---------------------------- MODULE MCFetchPath ----------------------------
(* Small instances of the network path. *)
EXTENDS FetchPath

(* An HTTP error with a body, of a status Beast does not know, a success   *)
(* without, of one it does, and a failed fetch: the three ways PollReturns *)
(* goes, through both callbacks.                                           *)
MCOutcomes == {[status |-> 520, total |-> 2], [status |-> 204, total |-> 0],
               [status |-> 0, total |-> 0]}
=============================================================================
