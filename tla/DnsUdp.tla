------------------------------- MODULE DnsUdp -------------------------------
(***************************************************************************)
(* dns_udp_server of https-proxy.cpp: one socket, one receive buffer and   *)
(* one sender's address, filled by the reactor while the completion        *)
(* handler is not yet running, and used by the handler before it asks for  *)
(* the next datagram.  The resolvers send again until they are answered;   *)
(* other programs send what is no query.                                   *)
(***************************************************************************)
EXTENDS Naturals, Sequences, FiniteSets

CONSTANTS
    Resolvers,
    Noise,      \* datagrams that build_dns_response refuses: [bytes |-> length, ...]
    Query,      \* the length of a query
    QueueSize   \* datagrams the kernel keeps for the socket; more are dropped

HeaderSize == 12

ASSUME QueryAssumption == Query \in Nat /\ Query >= HeaderSize
ASSUME QueueSizeAssumption == QueueSize \in Nat \ {0}

Asks(r) == [from |-> r, bytes |-> Query]

ASSUME NoiseAssumption == \A n \in Noise : n.bytes \in Nat /\ \A r \in Resolvers : n # Asks(r)

Datagrams == {Asks(r) : r \in Resolvers} \cup Noise
Nobody == "nobody"
Empty == [from |-> Nobody, bytes |-> 0]

VARIABLES
    queue,            \* of the socket, in the kernel
    pending,          \* an async_receive_from is pending
    recv_buffer_, remote_endpoint_,
    handler,          \* the completion handler that is ready, if one is
    waiting,          \* the resolvers without an answer
    owed              \* queries the socket took from a resolver, less its replies

udpVars == <<queue, pending, recv_buffer_, remote_endpoint_, handler, waiting, owed>>

UdpTypeOK ==
    /\ queue \in Seq(Datagrams) /\ Len(queue) <= QueueSize
    /\ pending \in BOOLEAN
    /\ recv_buffer_ \in Datagrams \cup {Empty}
    /\ remote_endpoint_ \in {d.from : d \in Datagrams \cup {Empty}}
    /\ handler \in {"none", "failed", "received"}
    /\ waiting \subseteq Resolvers
    /\ owed \in [Resolvers -> 0..(QueueSize + 1)]

UdpInit ==
    /\ queue = <<>>
    /\ pending = TRUE
    /\ recv_buffer_ = Empty /\ remote_endpoint_ = Nobody
    /\ handler = "none"
    /\ waiting = {}
    /\ owed = [r \in Resolvers |-> 0]
-----------------------------------------------------------------------------
serverVars == <<pending, recv_buffer_, remote_endpoint_, handler>>

(* A program of the machine looks a name up. *)
Lookup(r) ==
    /\ r \notin waiting
    /\ waiting' = waiting \cup {r}
    /\ UNCHANGED <<queue, serverVars, owed>>

(* It sends its query, again and again.  A full queue drops it. *)
Ask(r) ==
    /\ r \in waiting
    /\ IF Len(queue) < QueueSize
       THEN queue' = Append(queue, Asks(r)) /\ owed' = [owed EXCEPT ![r] = @ + 1]
       ELSE UNCHANGED <<queue, owed>>
    /\ UNCHANGED <<serverVars, waiting>>

Disturb ==
    /\ Len(queue) < QueueSize
    /\ \E n \in Noise : queue' = Append(queue, n)
    /\ UNCHANGED <<serverVars, waiting, owed>>

(* The reactor completes the pending receive, and its handler is ready. *)
MutReceived ==
    /\ pending /\ queue # <<>>
    /\ recv_buffer_' = Head(queue)
    /\ handler' = "received"
    /\ queue' = Tail(queue)
    /\ pending' = FALSE
    /\ UNCHANGED <<remote_endpoint_, waiting, owed>>
Received ==
    /\ pending /\ queue # <<>>
    /\ recv_buffer_' = Head(queue) /\ remote_endpoint_' = Head(queue).from
    /\ handler' = "received"
    /\ queue' = Tail(queue)
    /\ pending' = FALSE
    /\ UNCHANGED <<waiting, owed>>

ReceiveFailed ==
    /\ pending
    /\ handler' = "failed"
    /\ pending' = FALSE
    /\ UNCHANGED <<queue, recv_buffer_, remote_endpoint_, waiting, owed>>

(* handle_query: the kernel takes the datagram at once and delivers it. *)
Answered(d, r) ==
    /\ waiting' = IF d.from = r THEN waiting \ {r} ELSE waiting
    /\ owed' = [owed EXCEPT ![r] = @ - 1]

HandleQuery(d, r) ==
    IF d \in Noise THEN UNCHANGED <<waiting, owed>> ELSE Answered(d, r)

(* The handler: the answer, then do_receive for the next datagram. *)
IsQuery == handler = "received" /\ recv_buffer_.bytes >= HeaderSize

MutOnReceive ==
    /\ handler # "none"
    /\ IF queue # <<>>
       THEN /\ recv_buffer_' = Head(queue) /\ remote_endpoint_' = Head(queue).from
            /\ queue' = Tail(queue)
            /\ pending' = FALSE /\ handler' = "received"
       ELSE /\ UNCHANGED <<recv_buffer_, remote_endpoint_, queue>>
            /\ pending' = TRUE /\ handler' = "none"
    /\ IF IsQuery THEN HandleQuery(recv_buffer_', remote_endpoint_')
                                  ELSE UNCHANGED <<waiting, owed>>
MutReturnEarly ==
    /\ handler # "none"
    /\ handler' = "none"
    /\ IF IsQuery
       THEN HandleQuery(recv_buffer_, remote_endpoint_) /\ pending' = TRUE
       ELSE UNCHANGED <<waiting, owed, pending>>
    /\ UNCHANGED <<queue, recv_buffer_, remote_endpoint_>>
OnReceive ==
    /\ handler # "none"
    /\ handler' = "none"
    /\ IF IsQuery THEN HandleQuery(recv_buffer_, remote_endpoint_)
                                  ELSE UNCHANGED <<waiting, owed>>
    /\ pending' = TRUE
    /\ UNCHANGED <<queue, recv_buffer_, remote_endpoint_>>

UdpNext ==
    \/ Received \/ ReceiveFailed \/ OnReceive \/ Disturb
    \/ \E r \in Resolvers : Lookup(r) \/ Ask(r)

UdpSpec == UdpInit /\ [][UdpNext]_udpVars

(* The reactor and the thread go on; a receive does not fail for ever; and *)
(* a resolver that tries for ever finds room in the queue some time.       *)
FairUdpSpec ==
    /\ UdpSpec
    /\ SF_udpVars(Received) /\ WF_udpVars(OnReceive)
    /\ \A r \in Resolvers : SF_udpVars(Ask(r))
-----------------------------------------------------------------------------
(* Every query the socket took is in the queue or in the buffer of a       *)
(* handler, or has been answered, once and to its sender: the buffer is    *)
(* not filled again before its handler is done with it, and no handler     *)
(* sees another's datagram.                                                *)
InQueue(r) == Cardinality({i \in 1..Len(queue) : queue[i] = Asks(r)})
InBuffer(r) == IF handler = "received" /\ recv_buffer_ = Asks(r) THEN 1 ELSE 0

EachQueryAnsweredOnce == \A r \in Resolvers : owed[r] = InQueue(r) + InBuffer(r)

(* Whatever else arrives, whatever is dropped: a lookup ends. *)
LookupsEnd == \A r \in Resolvers : r \in waiting ~> r \notin waiting
=============================================================================
