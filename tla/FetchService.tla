---------------------------- MODULE FetchService ----------------------------
(***************************************************************************)
(* What the network path promises to the HTTP clients of the virtual       *)
(* machine (README.md, "Networking"): each request the proxy takes is      *)
(* executed by the browser once, unchanged, and answered with what the     *)
(* browser got for that very request, or with 400 when it got nothing; a   *)
(* status Beast has no name for is passed on as 0.                         *)
(* The proxy process may die and the machine may stop; nothing else may    *)
(* come between a request and its answer.                                  *)
(***************************************************************************)
EXTENDS Naturals

CONSTANTS Guests, Reqs, Outcomes,
          Statuses   \* the codes of http::status

VARIABLES
    up,     \* the machine runs
    job,    \* the request each proxy process is serving
    reply   \* its latest answer

serviceVars == <<up, job, reply>>

Idle == [phase |-> "idle"]
Dead == [phase |-> "dead"]
Accepted(r) == [phase |-> "accepted", req |-> r]
Sent(r) == [phase |-> "sent", req |-> r]
Settled(r, o) == [phase |-> "settled", req |-> r, out |-> o]

NoReply == [kind |-> "none"]
Failed == [kind |-> "bad_request"]
int_to_status(s) == IF s \in Statuses THEN s ELSE 0
Served(r, o) == [kind |-> "response", req |-> r, status |-> int_to_status(o.status),
                 body |-> IF o.total = 0 THEN <<>> ELSE <<r, o.total>>]

Init ==
    /\ up = TRUE
    /\ job = [g \in Guests |-> Idle]
    /\ reply = [g \in Guests |-> NoReply]

Become(g, j) == job' = [job EXCEPT ![g] = j]

Accept(g, r) ==
    /\ job[g] = Idle
    /\ Become(g, Accepted(r))
    /\ reply' = [reply EXCEPT ![g] = NoReply]

Send(g, r) ==
    /\ job[g] = Accepted(r)
    /\ Become(g, Sent(r))
    /\ UNCHANGED reply

Settle(g, r, o) ==
    /\ job[g] = Sent(r)
    /\ Become(g, Settled(r, o))
    /\ UNCHANGED reply

Answer(g, r, o) ==
    /\ job[g] = Settled(r, o)
    /\ Become(g, Idle)
    /\ reply' = [reply EXCEPT ![g] = IF o.status = 0 THEN Failed ELSE Served(r, o)]

Die(g) ==
    /\ job[g] # Dead
    /\ Become(g, Dead)
    /\ UNCHANGED reply

Recover(g) ==
    /\ job[g] = Dead
    /\ Become(g, Idle)
    /\ UNCHANGED reply

Serve(g) ==
    \/ Die(g) \/ Recover(g)
    \/ \E r \in Reqs :
          \/ Accept(g, r) \/ Send(g, r)
          \/ \E o \in Outcomes : Settle(g, r, o) \/ Answer(g, r, o)

Stop == up' = FALSE /\ UNCHANGED <<job, reply>>

Next == /\ up
        /\ \/ Stop
           \/ UNCHANGED up /\ \E g \in Guests : Serve(g)

Spec == Init /\ [][Next]_serviceVars

(* Every request taken is answered, unless its process dies or the machine *)
(* stops first.                                                            *)
EveryRequestAnswered ==
    \A g \in Guests : job[g].phase \notin {"idle", "dead"}
                      ~> (job[g].phase \in {"idle", "dead"} \/ ~up)
=============================================================================
