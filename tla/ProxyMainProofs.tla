--------------------------- MODULE ProxyMainProofs ---------------------------
(***************************************************************************)
(* Proofs about the start of the proxy, for any number of processes on one *)
(* address, started, killed and disturbed in any order.                    *)
(***************************************************************************)
EXTENDS ProxyMain, FiniteSetTheorems, TLAPS

Types ==
    /\ pc \in [Procs -> {"off", "start", "run"} \cup Sockets]
    /\ ca_ready \subseteq Procs
    /\ owner \in [Sockets -> Procs \cup {Other, None}]
    /\ server \in [Procs -> [Sockets -> {"none", "listening", "broken"}]]
    /\ ready \in [Procs -> Seq(Sockets)]
    /\ resolved \in Procs \cup {None}

(* main makes its servers in order, after the CA. *)
MadeInOrder(p) ==
    /\ server[p]["dns_udp"] # "none" <=> pc[p] \in {"dns_tcp", "http", "https", "run"}
    /\ server[p]["dns_tcp"] # "none" <=> pc[p] \in {"http", "https", "run"}
    /\ server[p]["http"] # "none" <=> pc[p] \in {"https", "run"}
    /\ server[p]["https"] # "none" <=> pc[p] = "run"
    /\ server[p]["dns_udp"] # "broken"
    /\ pc[p] \notin {"off", "start"} => p \in ca_ready

(* A server has at most one handler ready, and only once it is made. *)
HandlersOnce(p) ==
    \A i \in 1..Len(ready[p]) :
       /\ server[p][ready[p][i]] # "none"
       /\ \A j \in 1..Len(ready[p]) : ready[p][i] = ready[p][j] => i = j

ResolvedRuns == resolved # None => pc[resolved] = "run"

MainInv ==
    /\ Types /\ ListenersOwn /\ ResolvedRuns
    /\ \A p \in Procs : MadeInOrder(p) /\ HandlersOnce(p)

LEMMA InitInv == Init => MainInv
<1> SUFFICES ASSUME Init PROVE MainInv
  OBVIOUS
<1>1. Types /\ ResolvedRuns
  BY DEF Init, Types, ResolvedRuns
<1>2. ListenersOwn
  BY NoneAssumption, OtherAssumption DEF Init, ListenersOwn
<1>3. \A p \in Procs : MadeInOrder(p) /\ HandlersOnce(p)
  BY DEF Init, MadeInOrder, HandlersOnce, Sockets
<1> QED
  BY <1>1, <1>2, <1>3 DEF MainInv

LEMMA ExitKeeps ==
    ASSUME MainInv, NEW p \in Procs, Exit(p)
    PROVE  MainInv'
<1> USE DEF MainInv
<1>1. Types'
  BY DEF Exit, Goto, Types
<1>2. ListenersOwn'
  BY NoneAssumption DEF Exit, Types, ListenersOwn
<1>3. ResolvedRuns'
  BY DEF Exit, Goto, Types, ResolvedRuns
<1>4. ASSUME NEW q \in Procs PROVE MadeInOrder(q)' /\ HandlersOnce(q)'
  BY DEF Exit, Goto, Types, MadeInOrder, HandlersOnce, Sockets
<1> QED
  BY <1>1, <1>2, <1>3, <1>4

LEMMA UdpKeeps ==
    ASSUME MainInv, NEW p \in Procs, DnsUdp(p)
    PROVE  MainInv'
<1> USE DEF MainInv
<1>1. CASE Exit(p)
  BY <1>1, ExitKeeps
<1>2. CASE Listen(p, "dns_udp") /\ Goto(p, "dns_tcp") /\ owner["dns_udp"] = None
           /\ pc[p] = "dns_udp" /\ UNCHANGED <<ca_ready, resolved>>
  <2>1. Types'
    BY <1>2 DEF Listen, Goto, Types, Sockets
  <2>2. ListenersOwn'
    BY <1>2, NoneAssumption DEF Listen, Types, ListenersOwn, Sockets
  <2>3. ResolvedRuns'
    BY <1>2 DEF Goto, Types, ResolvedRuns
  <2>4. ASSUME NEW q \in Procs PROVE MadeInOrder(q)'
    BY <1>2 DEF Listen, Goto, Types, MadeInOrder, Sockets
  <2>5. ASSUME NEW q \in Procs PROVE HandlersOnce(q)'
    BY <1>2 DEF Listen, Types, HandlersOnce, Sockets
  <2> QED
    BY <2>1, <2>2, <2>3, <2>4, <2>5
<1> QED
  BY <1>1, <1>2 DEF DnsUdp

LEMMA TcpKeeps ==
    ASSUME MainInv, NEW p \in Procs, NEW s \in Sockets, TcpServer(p, s)
    PROVE  MainInv'
<1> USE DEF MainInv
<1>0. /\ pc[p] = s /\ s # "dns_udp" /\ server[p][s] = "none" /\ NextOf(s) \in {"http", "https", "run"}
      /\ s \in {"dns_tcp", "http", "https"}
  BY DEF TcpServer, MadeInOrder, Sockets, NextOf
<1>1. ListenersOwn'
  <2>1. CASE Broken(p, s)
    BY <2>1, <1>0 DEF Broken, Types, ListenersOwn
  <2>2. CASE owner[s] = None /\ Listen(p, s)
    BY <2>2, <1>0, NoneAssumption DEF Listen, Types, ListenersOwn
  <2> QED
    BY <2>1, <2>2 DEF TcpServer
<1>2. Types'
  <2>1. pc' \in [Procs -> {"off", "start", "run"} \cup Sockets] /\ UNCHANGED <<ca_ready, resolved>>
    BY <1>0 DEF TcpServer, Goto, Types, Sockets
  <2>2. CASE Broken(p, s)
    BY <2>1, <2>2 DEF Broken, Types
  <2>3. CASE owner[s] = None /\ Listen(p, s)
    BY <2>1, <2>3 DEF Listen, Types
  <2> QED
    BY <2>2, <2>3 DEF TcpServer
<1>3. ResolvedRuns'
  BY <1>0 DEF TcpServer, Goto, Types, ResolvedRuns, Sockets
<1>4. ASSUME NEW q \in Procs PROVE MadeInOrder(q)'
  BY <1>0 DEF TcpServer, Broken, Listen, Goto, Types, MadeInOrder, NextOf, Sockets
<1>5. ASSUME NEW q \in Procs PROVE HandlersOnce(q)'
  <2>1. CASE Listen(p, s)
    BY <2>1, <1>0 DEF Listen, Types, HandlersOnce
  <2>2. CASE Broken(p, s)
    <3>1. \A i \in 1..Len(ready[p]) : ready[p][i] # s
      BY <1>0 DEF HandlersOnce
    <3> QED
      BY <2>2, <3>1 DEF Broken, Types, HandlersOnce
  <2> QED
    BY <2>1, <2>2 DEF TcpServer
<1> QED
  BY <1>1, <1>2, <1>3, <1>4, <1>5

LEMMA HandlerKeeps ==
    ASSUME MainInv, NEW p \in Procs, RunHandler(p)
    PROVE  MainInv'
<1> USE DEF MainInv
<1> DEFINE s == Head(ready[p])
<1>0. /\ pc[p] = "run" /\ ready[p] # <<>> /\ ready[p] \in Seq(Sockets) /\ s \in Sockets
      /\ ready' = [ready EXCEPT ![p] = Rearmed(p, s)]
      /\ resolved' \in {p, resolved}
      /\ UNCHANGED <<pc, ca_ready, owner, server>>
  BY DEF RunHandler, Serving, Types
<1>1. Types'
  BY <1>0 DEF Types, Rearmed
<1>2. ListenersOwn' /\ ResolvedRuns'
  BY <1>0, NoneAssumption DEF ListenersOwn, ResolvedRuns, Types
<1>3. ASSUME NEW q \in Procs PROVE MadeInOrder(q)'
  BY <1>0 DEF MadeInOrder
<1>4. ASSUME NEW q \in Procs PROVE HandlersOnce(q)'
  <2>1. CASE q # p
    BY <2>1, <1>0 DEF HandlersOnce, Types
  <2>2. CASE q = p
    <3>1. ready'[p] = Rearmed(p, s)
      BY <1>0 DEF Types
    <3>2. CASE server[p][s] = "broken"
      BY <3>1, <3>2, <2>2, <1>0 DEF HandlersOnce, Rearmed
    <3>3. CASE server[p][s] # "broken"
      BY <3>1, <3>3, <2>2, <1>0 DEF HandlersOnce, Rearmed
    <3> QED
      BY <3>2, <3>3
  <2> QED
    BY <2>1, <2>2
<1> QED
  BY <1>1, <1>2, <1>3, <1>4

LEMMA ArriveKeeps ==
    ASSUME MainInv, NEW p \in Procs, NEW s \in Sockets, Arrive(p, s)
    PROVE  MainInv'
<1> USE DEF MainInv
<1>1. Types' /\ ListenersOwn' /\ ResolvedRuns'
  BY DEF Arrive, Types, ListenersOwn, ResolvedRuns
<1>2. ASSUME NEW q \in Procs PROVE MadeInOrder(q)' /\ HandlersOnce(q)'
  BY DEF Arrive, Types, IsReady, MadeInOrder, HandlersOnce
<1> QED
  BY <1>1, <1>2

LEMMA NextInv == MainInv /\ [Next]_vars => MainInv'
<1> SUFFICES ASSUME MainInv, [Next]_vars PROVE MainInv'
  OBVIOUS
<1>1. ASSUME NEW p \in Procs, Launch(p) PROVE MainInv'
  BY <1>1 DEF MainInv, Launch, Goto, Types, ListenersOwn, ResolvedRuns, MadeInOrder, HandlersOnce, Sockets
<1>2. ASSUME NEW p \in Procs, Refuse(p) \/ Die(p) PROVE MainInv'
  BY <1>2, ExitKeeps DEF Refuse, Die
<1>3. ASSUME NEW p \in Procs, ensure_ca(p) PROVE MainInv'
  BY <1>3 DEF MainInv, ensure_ca, Goto, Types, ListenersOwn, ResolvedRuns, MadeInOrder, HandlersOnce, Sockets
<1>4. ASSUME NEW s \in Sockets, OtherProgram(s) PROVE MainInv'
  BY <1>4, NoneAssumption, OtherAssumption
     DEF MainInv, OtherProgram, Types, ListenersOwn, ResolvedRuns, MadeInOrder, HandlersOnce, Sockets
<1>5. CASE UNCHANGED vars
  BY <1>5 DEF vars, MainInv, Types, ListenersOwn, ResolvedRuns, MadeInOrder, HandlersOnce
<1> QED
  BY <1>1, <1>2, <1>3, <1>4, <1>5, UdpKeeps, TcpKeeps, HandlerKeeps, ArriveKeeps DEF Next, Start

(* The inductive invariant holds for any number of processes.              *)
THEOREM MainInvariant == Spec => []MainInv
  BY InitInv, NextInv, PTL DEF Spec

(* However many proxies are started on the address, one serves: the UDP    *)
(* port, which main opens first, has one owner.                            *)
THEOREM OneProxyServes == Spec => []OneServes
<1>1. MainInv => OneServes
  BY DEF MainInv, MadeInOrder, ListenersOwn, Types, OneServes, Sockets
<1> QED
  BY <1>1, MainInvariant, PTL

(* The address a program is told leads to a process that has its CA and    *)
(* has tried every port: nothing answers before ioc.run.                   *)
THEOREM ResolvedProxyIsComplete == Spec => []ResolvedIsComplete
<1>1. MainInv => ResolvedIsComplete
  BY DEF MainInv, MadeInOrder, ResolvedRuns, Types, ResolvedIsComplete, Sockets
<1> QED
  BY <1>1, MainInvariant, PTL

(* Types, and one pending handler per server: the queue of the io_context  *)
(* does not grow, not even while broken acceptors spin.                    *)
THEOREM TypeCorrect == Spec => []TypeOK
<1>1. ASSUME MainInv, NEW p \in Procs PROVE Len(ready[p]) <= Cardinality(Sockets)
  <2>1. ready[p] \in Seq(Sockets)
    BY <1>1 DEF MainInv, Types
  <2>2. IsFiniteSet(Sockets)
    <3>1. IsFiniteSet({"dns_udp"}) /\ IsFiniteSet({"dns_tcp"}) /\ IsFiniteSet({"http"}) /\ IsFiniteSet({"https"})
      BY FS_Singleton
    <3>2. IsFiniteSet(({"dns_udp"} \cup {"dns_tcp"}) \cup ({"http"} \cup {"https"}))
      BY <3>1, FS_Union
    <3>3. Sockets = ({"dns_udp"} \cup {"dns_tcp"}) \cup ({"http"} \cup {"https"})
      BY DEF Sockets
    <3> QED
      BY <3>2, <3>3
  <2>3. ready[p] \in Injection(1..Len(ready[p]), Sockets)
    BY <1>1, <2>1 DEF MainInv, HandlersOnce, Injection, IsInjective
  <2>4. Cardinality(1..Len(ready[p])) = Len(ready[p])
    BY <2>1, FS_Interval
  <2> QED
    BY <2>2, <2>3, <2>4, FS_Injection
<1>2. MainInv => TypeOK
  BY <1>1 DEF MainInv, Types, TypeOK
<1> QED
  BY <1>2, MainInvariant, PTL
=============================================================================
