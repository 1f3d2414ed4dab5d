----------------------------- MODULE MCHostMain -----------------------------
(* Small instances of the host: a response with a body, one without, an    *)
(* HTTP error with a body, and a fetch that failed; images that end inside *)
(* a dictionary, or fill the memory, or do not fit.                        *)
EXTENDS HostMain

MCOutcomes == {[status |-> 200, total |-> 1], [status |-> 204, total |-> 0],
               [status |-> 404, total |-> 1], [status |-> 0, total |-> 0]}

MCImageLengths == {3, 4, 6}
=============================================================================
