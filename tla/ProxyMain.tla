----------------------------- MODULE ProxyMain -----------------------------
(***************************************************************************)
(* main of https-proxy.cpp and the constructors of its servers, for the    *)
(* process that the machine starts in the background, while the shell      *)
(* starts too, and for others that a user may start on the same address.   *)
(* Other programs may hold a port.  A constructor that cannot bind its TCP *)
(* socket returns, and the server is run all the same.                     *)
(***************************************************************************)
EXTENDS Naturals, Sequences, FiniteSets

CONSTANTS
    Procs,
    None        \* no process

ASSUME NoneAssumption == None \notin Procs

Sockets == {"dns_udp", "dns_tcp", "http", "https"}
Other == "other"

ASSUME OtherAssumption == Other \notin Procs \cup {None}

VARIABLES
    pc,        \* of main: the server it makes next
    ca_ready,  \* the processes whose ensure_ca succeeded
    owner,     \* of each port: at most one, the kernel's
    server,    \* of a process: not made yet, listening, or broken
    ready,     \* the completion handlers of a process that can run, in order
    resolved   \* the process whose address a program of the machine was told

vars == <<pc, ca_ready, owner, server, ready, resolved>>

(* A server has one operation pending at most, so one handler ready.       *)
TypeOK ==
    /\ pc \in [Procs -> {"off", "start", "run"} \cup Sockets]
    /\ ca_ready \subseteq Procs
    /\ owner \in [Sockets -> Procs \cup {Other, None}]
    /\ server \in [Procs -> [Sockets -> {"none", "listening", "broken"}]]
    /\ ready \in [Procs -> Seq(Sockets)]
    /\ \A p \in Procs : Len(ready[p]) <= Cardinality(Sockets)
    /\ resolved \in Procs \cup {None}

Init ==
    /\ pc = [p \in Procs |-> "off"]
    /\ ca_ready = {}
    /\ owner \in [Sockets -> {Other, None}]
    /\ server = [p \in Procs |-> [s \in Sockets |-> "none"]]
    /\ ready = [p \in Procs |-> <<>>]
    /\ resolved = None
-----------------------------------------------------------------------------
Goto(p, there) == pc' = [pc EXCEPT ![p] = there]

Launch(p) ==
    /\ pc[p] = "off"
    /\ Goto(p, "start")
    /\ UNCHANGED <<ca_ready, owner, server, ready, resolved>>

(* The process is gone, and the kernel closes its sockets. *)
Exit(p) ==
    /\ Goto(p, "off")
    /\ ca_ready' = ca_ready \ {p}
    /\ owner' = [s \in Sockets |-> IF owner[s] = p THEN None ELSE owner[s]]
    /\ server' = [server EXCEPT ![p] = [s \in Sockets |-> "none"]]
    /\ ready' = [ready EXCEPT ![p] = <<>>]
    /\ resolved' = IF resolved = p THEN None ELSE resolved

Die(p) == pc[p] # "off" /\ Exit(p)

(* Bad arguments and a store without a CA end main. *)
Refuse(p) == pc[p] = "start" /\ Exit(p)

ensure_ca(p) ==
    /\ pc[p] = "start"
    /\ ca_ready' = ca_ready \cup {p}
    /\ Goto(p, "dns_udp")
    /\ UNCHANGED <<owner, server, ready, resolved>>

Listen(p, s) ==
    /\ owner' = [owner EXCEPT ![s] = p]
    /\ server' = [server EXCEPT ![p][s] = "listening"]
    /\ UNCHANGED ready

(* The constructor of udp::socket throws when it cannot bind, which aborts *)
(* a program built without exceptions.                                     *)
MutDnsUdp(p) ==
    /\ pc[p] = "dns_udp"
    /\ IF owner["dns_udp"] = None THEN Listen(p, "dns_udp") ELSE UNCHANGED <<owner, server, ready>>
    /\ Goto(p, "dns_tcp")
    /\ UNCHANGED <<ca_ready, resolved>>
DnsUdp(p) ==
    /\ pc[p] = "dns_udp"
    /\ IF owner["dns_udp"] # None THEN Exit(p)
       ELSE /\ Listen(p, "dns_udp")
            /\ Goto(p, "dns_tcp")
            /\ UNCHANGED <<ca_ready, resolved>>

(* The other constructors log what failed; run then accepts on a socket    *)
(* that does not listen, and the handler with the error is ready at once.  *)
Broken(p, s) ==
    /\ server' = [server EXCEPT ![p][s] = "broken"]
    /\ ready' = [ready EXCEPT ![p] = Append(@, s)]
    /\ UNCHANGED owner

NextOf(s) == CASE s = "dns_tcp" -> "http" [] s = "http" -> "https" [] s = "https" -> "run"

TcpServer(p, s) ==
    /\ pc[p] = s /\ s # "dns_udp"
    /\ Broken(p, s) \/ (owner[s] = None /\ Listen(p, s))
    /\ Goto(p, NextOf(s))
    /\ UNCHANGED <<ca_ready, resolved>>
-----------------------------------------------------------------------------
(* A datagram or a connection arrives; it waits for ioc.run. *)
IsReady(p, s) == \E i \in 1..Len(ready[p]) : ready[p][i] = s

Arrive(p, s) ==
    /\ server[p][s] = "listening" /\ ~IsReady(p, s)
    /\ ready' = [ready EXCEPT ![p] = Append(@, s)]
    /\ UNCHANGED <<pc, ca_ready, owner, server, resolved>>

MutServing(p) == pc[p] \in {"http", "https", "run"}
Serving(p) == pc[p] = "run"

(* The oldest ready handler runs: an answer or a session, or an error, and *)
(* then the next receive or accept; on a broken socket that fails again at *)
(* once, behind the handlers that were ready before.                       *)
MutRearmed(p, s) == IF server[p][s] = "broken" THEN <<s>> \o Tail(ready[p]) ELSE Tail(ready[p])
MutRearmedTwice(p, s) == IF server[p][s] = "broken" THEN Tail(ready[p]) \o <<s, s>> ELSE Tail(ready[p])
Rearmed(p, s) == IF server[p][s] = "broken" THEN Append(Tail(ready[p]), s) ELSE Tail(ready[p])

RunHandler(p) ==
    /\ Serving(p) /\ ready[p] # <<>>
    /\ LET s == Head(ready[p]) IN
       /\ ready' = [ready EXCEPT ![p] = Rearmed(p, s)]
       /\ resolved' = IF s \in {"dns_udp", "dns_tcp"} /\ server[p][s] = "listening"
                      THEN p ELSE resolved
    /\ UNCHANGED <<pc, ca_ready, owner, server>>

(* Other programs take ports and give them up. *)
OtherProgram(s) ==
    /\ \/ owner[s] = None /\ owner' = [owner EXCEPT ![s] = Other]
       \/ owner[s] = Other /\ owner' = [owner EXCEPT ![s] = None]
    /\ UNCHANGED <<pc, ca_ready, server, ready, resolved>>

Start(p) ==
    \/ ensure_ca(p) \/ DnsUdp(p)
    \/ \E s \in Sockets : TcpServer(p, s)

Next ==
    \/ \E p \in Procs : \/ Launch(p) \/ Refuse(p) \/ Die(p) \/ Start(p) \/ RunHandler(p)
                        \/ \E s \in Sockets : Arrive(p, s)
    \/ \E s \in Sockets : OtherProgram(s)

Spec == Init /\ [][Next]_vars

(* The thread of a running process goes on. *)
FairSpec == Spec /\ \A p \in Procs : WF_vars(RunHandler(p))
-----------------------------------------------------------------------------
(* However many are started, one process at a time serves the address: the *)
(* others die at the DNS port, before they have touched the web ports.     *)
OneServes ==
    \A p, q \in Procs :
       p # q /\ pc[p] \in {"dns_tcp", "http", "https", "run"} => pc[q] \in {"off", "start", "dns_udp"}

(* A program that was told the proxy's address finds the whole proxy there:*)
(* a CA, and both web ports tried.  A connection it makes is refused only  *)
(* where a bind failed, never because main has not got to it yet.          *)
ResolvedIsComplete ==
    resolved # None =>
       resolved \in ca_ready /\ \A s \in Sockets : server[resolved][s] # "none"

(* A port is served by the process that listens on it. *)
ListenersOwn ==
    \A p \in Procs, s \in Sockets : server[p][s] = "listening" <=> owner[s] = p

(* A broken acceptor spins, but keeps nobody from being served.            *)
ReadyIsServed ==
    \A p \in Procs, s \in Sockets :
       IsReady(p, s) /\ server[p][s] = "listening" /\ Serving(p) ~> ~IsReady(p, s)
=============================================================================
