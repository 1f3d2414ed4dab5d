------------------------------- MODULE DnsTcp -------------------------------
(***************************************************************************)
(* dns_tcp_server and dns_tcp_session of https-proxy.cpp: a connection     *)
(* carries one query, two bytes of length and the message, and gets one    *)
(* response or none.  A session lives as long as an operation of its is    *)
(* pending.  The clients may announce more than they send, or less, go on  *)
(* with a second query, stay silent or leave.                              *)
(***************************************************************************)
EXTENDS Naturals, Sequences, FiniteSets

CONSTANTS
    Conns,
    Careless,     \* the connections whose client may stop at any point
    Chatty,       \* and those whose client goes on after its query
    MaxOpen,      \* descriptors for connections
    RecvBufferSize,   \* of recv_buffer_: 514
    Lengths,      \* what clients announce
    Answerable    \* the lengths of the messages build_dns_response answers

Prefix == 2

ASSUME ClientsAssumption == Careless \subseteq Conns /\ Chatty \subseteq Conns
ASSUME MaxOpenAssumption == MaxOpen \in Nat \ {0}
ASSUME RecvBufferSizeAssumption == RecvBufferSize \in Nat /\ RecvBufferSize > Prefix
ASSUME LengthsAssumption ==
    Lengths \subseteq Nat /\ Answerable \subseteq Lengths \cap 0..(RecvBufferSize - Prefix)

VARIABLES
    armed, backlog,   \* of the acceptor
    phase,            \* the pending operation of a session
    announced,        \* the client: the length in its first two bytes,
    sent,             \* the bytes it has sent,
    eof,              \* whether it has left,
    result,           \* and what it has got
    filled            \* how far recv_buffer_ has been written

tcpVars == <<armed, backlog, phase, announced, sent, eof, result, filled>>
clientVars == <<announced, sent, eof>>

Open == {c \in Conns : phase[c] \notin {"none", "backlog", "closed"}}

(* The server writes inside recv_buffer_, whatever length is announced.    *)
TcpTypeOK ==
    /\ armed \in BOOLEAN /\ backlog \in Seq(Conns)
    /\ phase \in [Conns -> {"none", "backlog", "length", "message", "write", "closed"}]
    /\ announced \in [Conns -> Lengths] /\ sent \in [Conns -> Nat]
    /\ eof \in [Conns -> BOOLEAN]
    /\ result \in [Conns -> {"none", "waiting", "answered", "dropped"}]
    /\ filled \in [Conns -> 0..RecvBufferSize]

TcpInit ==
    /\ armed = TRUE /\ backlog = <<>>
    /\ phase = [c \in Conns |-> "none"]
    /\ announced \in [Conns -> Lengths] /\ sent = [c \in Conns |-> 0]
    /\ eof = [c \in Conns |-> FALSE]
    /\ result = [c \in Conns |-> "none"]
    /\ filled = [c \in Conns |-> 0]
-----------------------------------------------------------------------------
Connect(c) ==
    /\ phase[c] = "none"
    /\ phase' = [phase EXCEPT ![c] = "backlog"]
    /\ backlog' = Append(backlog, c)
    /\ result' = [result EXCEPT ![c] = "waiting"]
    /\ UNCHANGED <<armed, clientVars, filled>>

(* What a client sends comes in pieces of any size; the first byte of a    *)
(* second query stands for all of it, as the server reads none.            *)
Whole(c) == Prefix + announced[c]
Total(c) == IF c \in Chatty THEN Whole(c) + 1 ELSE Whole(c)

Send(c) ==
    /\ phase[c] \notin {"none", "closed"} /\ ~eof[c]
    /\ \E n \in (sent[c] + 1)..Total(c) : sent' = [sent EXCEPT ![c] = n]
    /\ UNCHANGED <<armed, backlog, phase, announced, eof, result, filled>>

Leave(c) ==
    /\ phase[c] \notin {"none", "closed"} /\ ~eof[c] /\ c \in Careless
    /\ eof' = [eof EXCEPT ![c] = TRUE]
    /\ UNCHANGED <<armed, backlog, phase, announced, sent, result, filled>>

(* The handler of async_accept starts the next one, whatever the outcome.  *)
OnAccept ==
    /\ armed /\ backlog # <<>>
    /\ IF Cardinality(Open) < MaxOpen
       THEN /\ phase' = [phase EXCEPT ![Head(backlog)] = "length"]
            /\ backlog' = Tail(backlog)
       ELSE UNCHANGED <<phase, backlog>>
    /\ armed' = TRUE
    /\ UNCHANGED <<clientVars, result, filled>>

Ends(c, got) ==
    /\ phase' = [phase EXCEPT ![c] = "closed"]
    /\ result' = [result EXCEPT ![c] = IF @ = "waiting" THEN got ELSE @]
    /\ UNCHANGED <<armed, backlog, clientVars>>

(* async_read completes when it has all it asked for.  A length for which  *)
(* there is no room ends the session.                                      *)
MutTooLong(c) == announced[c] > RecvBufferSize
MutNoRoom(c) == announced[c] >= RecvBufferSize - Prefix
TooLong(c) == announced[c] > RecvBufferSize - Prefix

OnLength(c) ==
    /\ phase[c] = "length" /\ sent[c] >= Prefix
    /\ filled' = [filled EXCEPT ![c] = Prefix]
    /\ IF TooLong(c) THEN Ends(c, "dropped")
       ELSE /\ phase' = [phase EXCEPT ![c] = "message"]
            /\ UNCHANGED <<armed, backlog, clientVars, result>>

(* handle_query: the response is written, or there is none and the session *)
(* ends.                                                                   *)
MutArrived(c) == sent[c] > Prefix
Arrived(c) == sent[c] >= Whole(c)

OnMessage(c) ==
    /\ phase[c] = "message" /\ Arrived(c)
    /\ filled' = [filled EXCEPT ![c] = Whole(c)]
    /\ IF announced[c] \notin Answerable THEN Ends(c, "dropped")
       ELSE /\ phase' = [phase EXCEPT ![c] = "write"]
            /\ UNCHANGED <<armed, backlog, clientVars, result>>

(* The connection ended before what was asked for had come. *)
Needed(c) == IF phase[c] = "length" THEN Prefix ELSE Whole(c)

OnReadError(c) ==
    /\ phase[c] \in {"length", "message"} /\ eof[c] /\ sent[c] < Needed(c)
    /\ Ends(c, "dropped")
    /\ UNCHANGED filled

(* The handler of async_write closes the connection, response sent or not. *)
(* A second query, come before or after that, resets the connection, and   *)
(* its client may lose the response.                                       *)
OnWritten(c) ==
    /\ phase[c] = "write"
    /\ \/ Ends(c, "answered")
       \/ (eof[c] \/ c \in Chatty) /\ Ends(c, "dropped")
    /\ UNCHANGED filled

Handler(c) == OnLength(c) \/ OnMessage(c) \/ OnReadError(c) \/ OnWritten(c)

Over == (\A c \in Conns : phase[c] = "closed") /\ UNCHANGED tcpVars

TcpNext ==
    \/ OnAccept \/ Over
    \/ \E c \in Conns : Connect(c) \/ Send(c) \/ Leave(c) \/ Handler(c)

TcpSpec == TcpInit /\ [][TcpNext]_tcpVars

(* The thread runs every ready handler; clients that are not careless send *)
(* all they have to.  A response is smaller than the buffer of a fresh  *)
(* connection, so that no client can hold up its write.                    *)
FairTcpSpec ==
    /\ TcpSpec
    /\ WF_tcpVars(OnAccept)
    /\ \A c \in Conns : WF_tcpVars(Handler(c))
    /\ \A c \in Conns \ Careless : WF_tcpVars(Send(c))
-----------------------------------------------------------------------------
(* A session that fills its buffer fills it with bytes that were sent: an  *)
(* answer is made from the query as announced, never from a part of it and *)
(* what the buffer held before, nor with bytes of the next one.            *)
OnlyWholeQueries ==
    \A c \in Conns : filled[c] <= sent[c] /\ (phase[c] = "write" => filled[c] = Whole(c))

(* A client that sends one whole query is answered, although others        *)
(* announce what they never send, while they leave a descriptor free.      *)
ClientsAnswered ==
    \A c \in Conns \ (Careless \cup Chatty) :
       result[c] = "waiting" /\ announced[c] \in Answerable ~> result[c] = "answered"
=============================================================================
